----------------------------- MODULE LiveFeedProofs -----------------------------
(* Proofs about LiveFeed, for any clients, entries, filter, buffer sizes and       *)
(* bounds: the cursor of a dashboard never runs ahead of what it has, and no      *)
(* channel is closed twice.                                                        *)
EXTENDS LiveFeed, FiniteSetTheorems, WellFoundedInduction, TLAPS

-------------------------------------------------------------------------------
(* The invariant of the feed *)

Events   == [type : {"event"}, seq : Nat, entry : Entries]
Controls == [type : {"reset", "heartbeat"}, seq : Nat]
Streams  == [open : BOOLEAN, reset : BOOLEAN, out : Seq(Events \union Controls),
             chan : Seq(Events), shut : Nat, lastSeq : Nat]
Pages    == [cursor : Nat, given : [Entries -> Nat], base : Nat, trusted : BOOLEAN]

TypeOK ==
  /\ nextSeq \in Nat /\ events \in Seq(Events) /\ head \in Nat
  /\ active \in [Entries -> Nat] /\ log \in Seq(Entries)
  /\ subscribers \subseteq Clients /\ closing \subseteq Clients /\ closed \in BOOLEAN
  /\ stream \in [Clients -> Streams] /\ client \in [Clients -> Pages]

\* The newest event about an entry in a log, and the event with a sequence.
NewestIn(l, e) == Max({0} \union {s \in 1..Len(l) : l[s] = e})
EventOf(l, s)  == [type |-> "event", seq |-> s, entry |-> l[s]]

\* The ring holds the last events, the oldest at its head.
Ring ==
  /\ Len(log) = nextSeq /\ Len(events) <= Capacity /\ Len(events) <= nextSeq
  /\ nextSeq > 0 => events # <<>>
  /\ IF Len(events) < Capacity THEN head = 0 ELSE head < Len(events)
  /\ \A i \in 0..(Len(events) - 1) : EventAt(i) = EventOf(log, nextSeq - Len(events) + 1 + i)

\* A snapshot is the newest event of its entry.
Current == \A e \in Entries : active[e] \in {0, NewestIn(log, e)}

\* Who may still close the channel of a stream.
Owned ==
  /\ closed => subscribers = {}
  /\ ~closed => closing = {}
  /\ \A c \in Clients : /\ stream[c].shut <= 1
                        /\ c \in subscribers \union closing => stream[c].shut = 0
                        /\ c \in subscribers => stream[c].open

\* A stream has in its channel the events that follow those it has forwarded,
\* in order, and has written events of the log and controls no newer than lastSeq.
Written(st, i, l) ==
  /\ st.out[i].seq <= st.lastSeq
  /\ st.out[i].type = "event" => st.out[i].seq >= 1 /\ st.out[i] = EventOf(l, st.out[i].seq)
  /\ st.out[i].type = "reset" => i = 1 /\ st.reset /\ st.out[i].seq = st.lastSeq

Flow(st, l) ==
  /\ st.lastSeq + Len(st.chan) <= Len(l)
  /\ \A i \in 1..Len(st.chan) : st.chan[i] = EventOf(l, st.lastSeq + i)
  /\ \A i \in 1..Len(st.out) : Written(st, i, l)
  /\ st.reset => st.open /\ st.out # <<>>

\* The reset is written and not read yet.
Announced(st) == st.reset /\ st.out[1].type = "reset"

\* The page has the newest event of an entry, unless the entry had ended when its
\* last snapshots were taken; or it is to read it among the first n messages.
Settled(pg, l, e, act) == \/ pg.given[e] = NewestIn(l, e)
                          \/ act[e] = 0 /\ NewestIn(l, e) <= pg.base
Reads(st, l, e, n) == \E j \in 1..n : st.out[j].type = "event" /\ st.out[j].seq = NewestIn(l, e)

\* What a page has and is being sent.
Honest(st, pg, l) ==
  /\ \A e \in Entries : pg.given[e] <= NewestIn(l, e)
  /\ pg.base <= Len(l) /\ (st.open => pg.base <= st.lastSeq)
  /\ pg.trusted => pg.cursor <= Len(l) /\ (st.open => pg.cursor <= st.lastSeq)

Covered(st, pg, l, act) ==
  pg.trusted /\ (st.reset => Announced(st)) =>
    \A e \in Wanted : NewestIn(l, e) <= pg.cursor => Settled(pg, l, e, act)

InOrder(st, pg, l, act) ==
  pg.trusted /\ st.open /\ ~st.reset =>
    \A e \in Wanted : \A i \in 1..Len(st.out) :
      NewestIn(l, e) <= st.out[i].seq => Settled(pg, l, e, act) \/ Reads(st, l, e, i)

Complete(st, pg, l, act) ==
  st.open /\ (pg.trusted \/ st.reset) /\ ~Announced(st) =>
    \A e \in Wanted : NewestIn(l, e) <= st.lastSeq =>
      Settled(pg, l, e, act) \/ Reads(st, l, e, Len(st.out))

Resets(st, pg, l, act) ==
  Announced(st) =>
    \A e \in Wanted : NewestIn(l, e) <= st.lastSeq =>
      act[e] = 0 \/ Settled(pg, l, e, act) \/ Reads(st, l, e, Len(st.out))

Serves(st, pg, l, act) ==
  /\ Honest(st, pg, l)
  /\ Covered(st, pg, l, act)
  /\ InOrder(st, pg, l, act)
  /\ Complete(st, pg, l, act)
  /\ Resets(st, pg, l, act)

Fed == \A c \in Clients : /\ Flow(stream[c], log)
                          /\ c \in subscribers => stream[c].lastSeq + Len(stream[c].chan) = nextSeq
                          /\ Serves(stream[c], client[c], log, active)

IInv == TypeOK /\ Ring /\ Current /\ Owned /\ Fed

-------------------------------------------------------------------------------
(* The operators *)

\* A nonempty set of numbers has a least one.
LEMMA LeastNumber ==
  ASSUME NEW T \in SUBSET Nat, T # {}
  PROVE  \E t \in T : \A u \in T : t <= u
<1> DEFINE Less == {pair \in Nat \X Nat : pair[1] < pair[2]}
<1>1. IsWellFoundedOn(Less, Nat)
  BY NatLessThanWellFounded DEF OpToRel
<1>2. PICK t \in T : \A u \in T : <<u, t>> \notin Less
  <2> HIDE DEF Less
  <2> QED  BY <1>1, WFMin, Zenon
<1>3. ASSUME NEW u \in T, u < t PROVE FALSE
  <2>1. <<u, t>> \in Nat \X Nat /\ <<u, t>>[1] = u /\ <<u, t>>[2] = t
    OBVIOUS
  <2>2. <<u, t>> \in Less
    BY <1>3, <2>1
  <2> QED  BY <1>2, <2>2
<1> QED  BY <1>2, <1>3

\* The greatest of a nonempty set of numbers with a bound.
LEMMA MaxLemma ==
  ASSUME NEW n \in Nat, NEW T \in SUBSET (0..n), T # {}
  PROVE  Max(T) \in T /\ \A x \in T : x <= Max(T)
<1> DEFINE R == {n - x : x \in T}
<1>1. PICK r \in R : \A u \in R : r <= u
  <2>1. \A x \in T : x \in Nat /\ n - x \in Nat
    OBVIOUS
  <2>2. R \in SUBSET Nat /\ R # {}
    BY <2>1
  <2> HIDE DEF R
  <2> QED  BY <2>2, LeastNumber
<1>2. PICK x \in T : r = n - x
  BY <1>1
<1>3. \A y \in T : n - x <= n - y
  BY <1>1, <1>2
<1>4. \A y \in T : x >= y
  BY <1>3
<1> QED  BY <1>2, <1>4 DEF Max

\* The greater of two numbers.
LEMMA MaxOfTwo ==
  ASSUME NEW a \in Nat, NEW b \in Nat
  PROVE  /\ Max({a, b}) \in Nat /\ a <= Max({a, b}) /\ b <= Max({a, b})
         /\ Max({a, b}) = a \/ Max({a, b}) = b
<1>1. {a, b} \in SUBSET (0..(a + b)) /\ {a, b} # {} /\ a + b \in Nat
  OBVIOUS
<1>2. Max({a, b}) \in {a, b} /\ \A x \in {a, b} : x <= Max({a, b})
  BY <1>1, MaxLemma
<1> QED  BY <1>2

\* The k-th smallest, for each k up to the number of them, lists a finite set in
\* ascending order.
LEMMA NthLemma ==
  ASSUME NEW S \in SUBSET Nat, IsFiniteSet(S)
  PROVE  /\ Cardinality(S) \in Nat
         /\ \A k \in 1..Cardinality(S) : Nth(k, S) \in S
         /\ \A j, k \in 1..Cardinality(S) : j < k => Nth(j, S) < Nth(k, S)
         /\ \A x \in S : \E k \in 1..Cardinality(S) : Nth(k, S) = x
<1> DEFINE N == Cardinality(S)
           UpTo(x) == {m \in S : m <= x}
           rank == [x \in S |-> Cardinality(UpTo(x))]
<1>1. N \in Nat /\ \A x \in S : x \in Nat
  BY FS_CardinalityType
<1>2. ASSUME NEW x \in S
      PROVE  IsFiniteSet(UpTo(x)) /\ Cardinality(UpTo(x)) \in 1..N
  <2>1. UpTo(x) \subseteq S /\ x \in UpTo(x)
    OBVIOUS
  <2>2. IsFiniteSet(UpTo(x)) /\ Cardinality(UpTo(x)) \in Nat /\ Cardinality(UpTo(x)) <= N
    BY <2>1, FS_Subset, FS_CardinalityType
  <2>3. Cardinality(UpTo(x)) # 0
    BY <2>1, <2>2, FS_EmptySet
  <2> QED  BY <1>1, <2>2, <2>3
<1>3. ASSUME NEW x \in S, NEW y \in S, x < y
      PROVE  Cardinality(UpTo(x)) < Cardinality(UpTo(y))
  <2>1. UpTo(x) \subseteq UpTo(y) /\ y \in UpTo(y) /\ y \notin UpTo(x)
    <3>1. y <= y /\ ~(y <= x) /\ \A m \in S : m <= x => m <= y
      BY <1>1, <1>3
    <3> QED  BY <3>1
  <2>2. /\ Cardinality(UpTo(x)) <= Cardinality(UpTo(y))
        /\ Cardinality(UpTo(x)) # Cardinality(UpTo(y))
    BY <1>2, <2>1, FS_Subset
  <2>3. Cardinality(UpTo(x)) \in 1..N /\ Cardinality(UpTo(y)) \in 1..N
    BY <1>2
  <2> QED  BY <1>1, <2>2, <2>3
<1> HIDE DEF UpTo
<1>4. rank \in [S -> 1..N] /\ \A x \in S : rank[x] = Cardinality(UpTo(x))
  BY <1>2
<1>5. \A x, y \in S : x < y => rank[x] < rank[y]
  BY <1>3, <1>4
<1> HIDE DEF rank, N
<1>6. \A x, y \in S : rank[x] = rank[y] => x = y
  BY <1>1, <1>4, <1>5
<1>7. rank \in Injection(S, 1..N)
  BY <1>4, <1>6 DEF Injection, IsInjective
<1>8. IsFiniteSet(1..N) /\ Cardinality(1..N) = N
  BY <1>1, FS_Interval
<1>9. rank \in Surjection(S, 1..N)
  BY <1>7, <1>8, FS_Injection DEF N
<1>10. ASSUME NEW k \in 1..N
       PROVE  Nth(k, S) \in S /\ rank[Nth(k, S)] = k
  <2>1. \E x \in S : rank[x] = k
    BY <1>9 DEF Surjection
  <2>2. \E x \in S : Cardinality({m \in S : m <= x}) = k
    BY <1>4, <2>1 DEF UpTo
  <2>3. Nth(k, S) \in S /\ Cardinality({m \in S : m <= Nth(k, S)}) = k
    BY <2>2 DEF Nth
  <2> QED  BY <1>4, <2>3 DEF UpTo
<1>11. ASSUME NEW j \in 1..N, NEW k \in 1..N, j < k
       PROVE  Nth(j, S) < Nth(k, S)
  <2>1. rank[Nth(j, S)] = j /\ rank[Nth(k, S)] = k /\ Nth(j, S) \in S /\ Nth(k, S) \in S
    BY <1>10
  <2>2. ~(rank[Nth(k, S)] < rank[Nth(j, S)]) /\ rank[Nth(k, S)] # rank[Nth(j, S)]
    BY <1>1, <1>11, <2>1
  <2>3. Nth(j, S) \in Nat /\ Nth(k, S) \in Nat
    BY <1>1, <2>1
  <2>4. ~(Nth(k, S) < Nth(j, S)) /\ Nth(k, S) # Nth(j, S)
    BY <1>5, <2>1, <2>2
  <2> QED  BY <2>3, <2>4
<1>12. ASSUME NEW x \in S
       PROVE  \E k \in 1..N : Nth(k, S) = x
  <2>1. rank[x] \in 1..N
    BY <1>4
  <2> QED  BY <1>6, <1>10, <2>1
<1> QED  BY <1>1, <1>10, <1>11, <1>12 DEF N

\* The newest event about an entry is the last place of the entry in the log.
LEMMA NewestLemma ==
  ASSUME NEW l \in Seq(Entries), NEW e
  PROVE  /\ NewestIn(l, e) \in 0..Len(l)
         /\ NewestIn(l, e) # 0 => l[NewestIn(l, e)] = e
         /\ \A s \in 1..Len(l) : l[s] = e => s <= NewestIn(l, e)
<1> DEFINE T == {0} \union {s \in 1..Len(l) : l[s] = e}
<1>1. Len(l) \in Nat /\ T \in SUBSET (0..Len(l)) /\ T # {}
  OBVIOUS
<1>2. Max(T) \in T /\ \A x \in T : x <= Max(T)
  <2> HIDE DEF T
  <2> QED  BY <1>1, MaxLemma
<1>3. NewestIn(l, e) = Max(T)
  BY DEF NewestIn
<1> QED  BY <1>1, <1>2, <1>3

\* That place is the only one with these properties.
LEMMA NewestIs ==
  ASSUME NEW l \in Seq(Entries), NEW e, NEW n \in 0..Len(l), n # 0 => l[n] = e,
         \A s \in 1..Len(l) : l[s] = e => s <= n
  PROVE  NewestIn(l, e) = n
<1> DEFINE m == NewestIn(l, e)
<1>1. m \in 0..Len(l) /\ (m # 0 => l[m] = e) /\ \A s \in 1..Len(l) : l[s] = e => s <= m
  BY NewestLemma
<1> HIDE DEF m
<1>2. Len(l) \in Nat
  OBVIOUS
<1>3. m <= n
  BY <1>1, <1>2
<1>4. n <= m
  BY <1>1, <1>2
<1> QED  BY <1>1, <1>2, <1>3, <1>4 DEF m

\* A new event is the newest of its entry, and of no other.
LEMMA NewestOfNext ==
  ASSUME NEW l \in Seq(Entries), NEW e \in Entries
  PROVE  /\ NewestIn(Append(l, e), e) = Len(l) + 1
         /\ \A x \in Entries \ {e} : NewestIn(Append(l, e), x) = NewestIn(l, x)
<1> DEFINE a == Append(l, e)
<1>1. /\ Len(l) \in Nat /\ a \in Seq(Entries) /\ Len(a) = Len(l) + 1
      /\ a[Len(l) + 1] = e /\ \A s \in 1..Len(l) : a[s] = l[s]
  OBVIOUS
<1> HIDE DEF a
<1>2. NewestIn(a, e) = Len(l) + 1
  <2>1. Len(l) + 1 \in 0..Len(a) /\ \A s \in 1..Len(a) : s <= Len(l) + 1
    BY <1>1
  <2> QED  BY <1>1, <2>1, NewestIs
<1>3. ASSUME NEW x \in Entries \ {e}  PROVE NewestIn(a, x) = NewestIn(l, x)
  <2> DEFINE n == NewestIn(l, x)
  <2>1. n \in 0..Len(l) /\ (n # 0 => l[n] = x) /\ \A s \in 1..Len(l) : l[s] = x => s <= n
    BY NewestLemma
  <2> HIDE DEF n
  <2>2. n \in 0..Len(a) /\ (n # 0 => a[n] = x)
    BY <1>1, <2>1
  <2>3. \A s \in 1..Len(a) : a[s] = x => s <= n
    BY <1>1, <1>3, <2>1
  <2>4. NewestIn(a, x) = n
    BY <1>1, <2>2, <2>3, NewestIs
  <2> QED  BY <2>4 DEF n
<1> QED  BY <1>2, <1>3 DEF a

\* What was the newest event up to some place before an event was published still is.
LEMMA NewestBefore ==
  ASSUME NEW l \in Seq(Entries), NEW e \in Entries, NEW x \in Entries, NEW n \in 0..Len(l),
         NewestIn(Append(l, e), x) <= n
  PROVE  NewestIn(l, x) = NewestIn(Append(l, e), x) /\ x # e
  BY NewestOfNext, NewestLemma

-------------------------------------------------------------------------------
(* The streams *)

\* The events of the log stay what they are.
LEMMA EventOfNext ==
  ASSUME NEW l \in Seq(Entries), NEW e \in Entries, NEW s \in 1..Len(l)
  PROVE  EventOf(Append(l, e), s) = EventOf(l, s)
  BY DEF EventOf

\* Publishing disturbs nothing that was written or queued before.
LEMMA FlowOfNext ==
  ASSUME NEW st \in Streams, NEW l \in Seq(Entries), NEW e \in Entries, Flow(st, l)
  PROVE  Flow(st, Append(l, e))
<1> DEFINE a == Append(l, e)
<1>1. Len(l) \in Nat /\ Len(a) = Len(l) + 1 /\ Len(st.chan) \in Nat /\ st.lastSeq \in Nat
      /\ Len(st.out) \in Nat
  BY DEF Streams
<1>2. \A s \in 1..Len(l) : EventOf(a, s) = EventOf(l, s)
  BY EventOfNext
<1> HIDE DEF a
<1>3. \A i \in 1..Len(st.chan) : st.chan[i] = EventOf(a, st.lastSeq + i)
  <2> TAKE i \in 1..Len(st.chan)
  <2>1. st.lastSeq + i \in 1..Len(l)
    BY <1>1 DEF Flow
  <2> QED  BY <1>2, <2>1 DEF Flow
<1>4. \A i \in 1..Len(st.out) : Written(st, i, a)
  <2> TAKE i \in 1..Len(st.out)
  <2>1. Written(st, i, l) /\ st.out[i].seq \in Nat /\ st.lastSeq <= Len(l)
    BY <1>1 DEF Flow, Streams, Events, Controls
  <2>2. st.out[i].type = "event" => st.out[i].seq \in 1..Len(l)
    BY <1>1, <2>1 DEF Written
  <2> QED  BY <1>2, <2>1, <2>2 DEF Written
<1> QED  BY <1>1, <1>3, <1>4 DEF Flow, a

\* The types of what a stream holds.
LEMMA StreamTypes ==
  ASSUME NEW st \in Streams, NEW l \in Seq(Entries), Flow(st, l)
  PROVE  /\ Len(l) \in Nat /\ Len(st.out) \in Nat /\ Len(st.chan) \in Nat /\ st.lastSeq \in Nat
         /\ st.lastSeq <= Len(l)
         /\ \A i \in 1..Len(st.out) : st.out[i].seq \in Nat /\ st.out[i] \in Events \union Controls
         /\ \A i \in 1..Len(st.chan) : st.chan[i] \in Events
<1>1. /\ st.out \in Seq(Events \union Controls) /\ st.chan \in Seq(Events) /\ st.lastSeq \in Nat
  BY DEF Streams
<1>2. /\ Len(l) \in Nat /\ Len(st.out) \in Nat /\ Len(st.chan) \in Nat
      /\ \A i \in 1..Len(st.out) : st.out[i] \in Events \union Controls
      /\ \A i \in 1..Len(st.chan) : st.chan[i] \in Events
  BY <1>1
<1>3. st.lastSeq <= Len(l)
  BY <1>1, <1>2 DEF Flow
<1>4. \A m \in Events \union Controls : m.seq \in Nat
  BY DEF Events, Controls
<1> QED  BY <1>1, <1>2, <1>3, <1>4

\* Publishing makes no page wrong: the new event is after all that its cursor covers.
LEMMA ServesOfNext ==
  ASSUME NEW st \in Streams, NEW pg \in Pages, NEW l \in Seq(Entries), NEW e \in Entries,
         NEW act, NEW v, Flow(st, l), Serves(st, pg, l, act), Wanted \subseteq Entries,
         act \in [Entries -> Nat]
  PROVE  Serves(st, pg, Append(l, e), [act EXCEPT ![e] = v])
<1> DEFINE a == Append(l, e)
           b == [act EXCEPT ![e] = v]
<1>1. Len(l) \in Nat /\ Len(a) = Len(l) + 1 /\ st.lastSeq \in Nat /\ st.lastSeq <= Len(l)
      /\ Len(st.out) \in Nat /\ pg.cursor \in Nat /\ Len(st.chan) \in Nat
  BY DEF Streams, Pages, Flow
<1>2. \A x \in Entries, n \in 0..Len(l) :
        NewestIn(a, x) <= n => NewestIn(l, x) = NewestIn(a, x) /\ x # e
  BY NewestBefore
<1>3. \A x \in Entries : NewestIn(l, x) <= NewestIn(a, x) /\ NewestIn(l, x) \in Nat
                         /\ NewestIn(a, x) \in Nat
  BY <1>1, NewestOfNext, NewestLemma
<1>4. \A x \in Entries \ {e} : b[x] = act[x]
  OBVIOUS
<1> HIDE DEF a, b
<1>5. Honest(st, pg, a)
  <2>1. \A x \in Entries : pg.given[x] <= NewestIn(a, x)
    BY <1>3 DEF Serves, Honest, Pages
  <2>2. pg.base \in Nat
    BY DEF Pages
  <2> QED  BY <1>1, <2>1, <2>2 DEF Serves, Honest
<1>6. Covered(st, pg, a, b)
  BY <1>1, <1>2, <1>4 DEF Serves, Honest, Covered, Settled
<1>7. InOrder(st, pg, a, b)
  <2> SUFFICES ASSUME pg.trusted, st.open, ~st.reset, NEW x \in Wanted, NEW i \in 1..Len(st.out),
                      NewestIn(a, x) <= st.out[i].seq
               PROVE  Settled(pg, a, x, b) \/ Reads(st, a, x, i)
    BY DEF InOrder
  <2>1. st.out[i].seq \in Nat
    BY StreamTypes
  <2>2. st.out[i].seq <= st.lastSeq
    BY Zenon DEF Flow, Written
  <2>3. st.out[i].seq \in 0..Len(l)
    BY <1>1, <2>1, <2>2
  <2>4. NewestIn(l, x) = NewestIn(a, x) /\ b[x] = act[x]
    BY <1>2, <1>4, <2>3
  <2> QED  BY <2>4 DEF Serves, InOrder, Settled, Reads
<1>8. Complete(st, pg, a, b)
  <2> SUFFICES ASSUME st.open, pg.trusted \/ st.reset, ~Announced(st), NEW x \in Wanted,
                      NewestIn(a, x) <= st.lastSeq
               PROVE  Settled(pg, a, x, b) \/ Reads(st, a, x, Len(st.out))
    BY DEF Complete
  <2>1. NewestIn(l, x) = NewestIn(a, x) /\ b[x] = act[x]
    BY <1>1, <1>2, <1>4
  <2> QED  BY <2>1 DEF Serves, Complete, Settled, Reads
<1>9. Resets(st, pg, a, b)
  <2> SUFFICES ASSUME Announced(st), NEW x \in Wanted, NewestIn(a, x) <= st.lastSeq
               PROVE  b[x] = 0 \/ Settled(pg, a, x, b) \/ Reads(st, a, x, Len(st.out))
    BY DEF Resets
  <2>1. NewestIn(l, x) = NewestIn(a, x) /\ b[x] = act[x]
    BY <1>1, <1>2, <1>4
  <2> QED  BY <2>1 DEF Serves, Resets, Settled, Reads
<1> QED  BY <1>5, <1>6, <1>7, <1>8, <1>9 DEF Serves, a, b

\* A stream that was never opened.
LEMMA NoStreamType ==
  /\ NoStream \in Streams /\ ~NoStream.open /\ ~NoStream.reset /\ NoStream.out = <<>>
  /\ NoStream.chan = <<>> /\ NoStream.shut = 0 /\ NoStream.lastSeq = 0
<1>1. <<>> \in Seq(Events) /\ <<>> \in Seq(Events \union Controls) /\ 0 \in Nat
  OBVIOUS
<1> QED  BY <1>1 DEF NoStream, Streams

\* What is left of the events when the first is taken.
LEMMA TailLemma ==
  ASSUME NEW T, NEW q \in Seq(T), q # <<>>
  PROVE  /\ Len(q) \in Nat \ {0} /\ Head(q) = q[1] /\ Tail(q) \in Seq(T)
         /\ Len(Tail(q)) = Len(q) - 1
         /\ \A i \in 1..(Len(q) - 1) : Tail(q)[i] = q[i + 1]
  OBVIOUS

\* A stream and its page once the page has read a message.
Shortened(st) == [st EXCEPT !.out = Tail(@), !.reset = @ /\ Len(st.out) > 1]

Given(pg, h) == IF h.type = "event" THEN [pg.given EXCEPT ![h.entry] = Max({@, h.seq})]
                                    ELSE pg.given

Informed(st, pg) ==
  LET h    == Head(st.out)
      seen == Max({pg.cursor, h.seq})
  IN [pg EXCEPT !.cursor = seen, !.given = Given(pg, h),
                !.base = IF h.type = "reset" THEN h.seq ELSE @,
                !.trusted = @ \/ (st.reset /\ Len(st.out) = 1 /\ seen = st.lastSeq)]

\* The page reads a message: its cursor covers what it has, and nothing that it
\* has not read by then is passed over.
LEMMA DeliverLemma ==
  ASSUME NEW st \in Streams, NEW pg \in Pages, NEW l \in Seq(Entries), NEW act,
         Flow(st, l), Serves(st, pg, l, act), st.open, st.out # <<>>, Wanted \subseteq Entries
  PROVE  LET st2 == Shortened(st)
             pg2 == Informed(st, pg)
         IN /\ st2 \in Streams /\ pg2 \in Pages /\ Flow(st2, l) /\ Serves(st2, pg2, l, act)
            /\ st2.open /\ st2.lastSeq = st.lastSeq /\ st2.chan = st.chan /\ st2.shut = st.shut
<1> DEFINE h     == Head(st.out)
           seen  == Max({pg.cursor, h.seq})
           given == Given(pg, h)
           base  == IF h.type = "reset" THEN h.seq ELSE pg.base
           st2   == Shortened(st)
           pg2   == Informed(st, pg)
<1>0. pg2 = [pg EXCEPT !.cursor = seen, !.given = given, !.base = base,
               !.trusted = @ \/ (st.reset /\ Len(st.out) = 1 /\ seen = st.lastSeq)]
  BY DEF Informed
<1> HIDE DEF given, base, st2, pg2
<1> DEFINE n == Len(st.out)
<1>1. /\ n \in Nat \ {0} /\ h = st.out[1] /\ Tail(st.out) \in Seq(Events \union Controls)
      /\ Len(Tail(st.out)) = n - 1 /\ \A i \in 1..(n - 1) : Tail(st.out)[i] = st.out[i + 1]
  BY TailLemma DEF Streams
<1> HIDE DEF h
<1>2. /\ h \in Events \union Controls /\ h.seq \in Nat /\ pg.cursor \in Nat /\ st.lastSeq \in Nat
      /\ Len(l) \in Nat /\ st.lastSeq <= Len(l) /\ h.seq <= st.lastSeq /\ Written(st, 1, l)
  BY <1>1, StreamTypes DEF Pages, Flow, Written
<1>3. \A e \in Entries : /\ NewestIn(l, e) \in 0..Len(l) /\ pg.given[e] \in Nat
                         /\ pg.given[e] <= NewestIn(l, e)
                         /\ NewestIn(l, e) # 0 => l[NewestIn(l, e)] = e
                         /\ \A s \in 1..Len(l) : l[s] = e => s <= NewestIn(l, e)
  BY NewestLemma DEF Serves, Honest, Pages
<1>4. seen \in Nat /\ (seen = pg.cursor \/ seen = h.seq) /\ pg.cursor <= seen /\ h.seq <= seen
  BY <1>2, MaxOfTwo, Zenon
<1> HIDE DEF seen
<1>5. /\ given \in [Entries -> Nat]
      /\ \A e \in Entries : given[e] <= NewestIn(l, e)
      /\ \A e \in Entries : pg.given[e] = NewestIn(l, e) => given[e] = NewestIn(l, e)
      /\ \A e \in Entries : h.type = "event" /\ h.seq = NewestIn(l, e) => given[e] = NewestIn(l, e)
  <2>1. CASE h.type = "event"
    <3> DEFINE x == h.entry
    <3>1. h.seq \in 1..Len(l) /\ h = EventOf(l, h.seq)
      BY <1>1, <1>2, <2>1 DEF Written
    <3>2. x = l[h.seq] /\ x \in Entries
      BY <3>1 DEF EventOf
    <3>3. h.seq <= NewestIn(l, x)
      BY <1>3, <3>1, <3>2
    <3>4. given = [pg.given EXCEPT ![x] = Max({pg.given[x], h.seq})]
      BY <2>1 DEF given, Given
    <3>5. LET m == Max({pg.given[x], h.seq}) IN
          m \in Nat /\ pg.given[x] <= m /\ h.seq <= m /\ (m = pg.given[x] \/ m = h.seq)
      <4>1. pg.given[x] \in Nat /\ h.seq \in Nat
        BY <1>2, <1>3, <3>2
      <4> QED  BY <4>1, MaxOfTwo
    <3> HIDE DEF x
    <3>6. /\ given \in [Entries -> Nat]
          /\ given[x] \in Nat /\ pg.given[x] <= given[x] /\ h.seq <= given[x]
          /\ given[x] = pg.given[x] \/ given[x] = h.seq
          /\ \A e \in Entries \ {x} : given[e] = pg.given[e]
      BY <1>2, <3>2, <3>4, <3>5 DEF Pages
    <3>7. \A e \in Entries : h.seq = NewestIn(l, e) => e = x
      BY <1>3, <3>1, <3>2
    <3>8. given[x] <= NewestIn(l, x) /\ (pg.given[x] = NewestIn(l, x) => given[x] = NewestIn(l, x))
          /\ (h.seq = NewestIn(l, x) => given[x] = NewestIn(l, x))
      <4>1. pg.given[x] \in Nat /\ NewestIn(l, x) \in Nat /\ pg.given[x] <= NewestIn(l, x)
        BY <1>3, <3>2
      <4> QED  BY <1>2, <3>3, <3>6, <4>1
    <3> QED  BY <1>3, <3>6, <3>7, <3>8
  <2>2. CASE h.type # "event"
    <3>1. given = pg.given
      BY <2>2 DEF given, Given
    <3> QED  BY <1>3, <2>2, <3>1 DEF Pages
  <2> QED  BY <2>1, <2>2
\* A reset was written when the stream was opened, after the page's last snapshots.
<1>17. /\ base \in Nat /\ pg.base \in Nat /\ pg.base <= base /\ base <= st.lastSeq
       /\ h.type = "reset" => base = st.lastSeq
  <2>1. pg.base \in Nat /\ pg.base <= st.lastSeq /\ (h.type = "reset" => h.seq = st.lastSeq)
    BY <1>1, <1>2 DEF Pages, Serves, Honest, Written
  <2> QED  BY <1>2, <2>1 DEF base
<1>6. /\ st2 \in Streams /\ st2.open /\ st2.lastSeq = st.lastSeq /\ st2.chan = st.chan
      /\ (st2.reset <=> st.reset /\ n > 1) /\ Len(st2.out) = n - 1 /\ st2.shut = st.shut
      /\ \A i \in 1..(n - 1) : st2.out[i] = st.out[i + 1]
  BY <1>1 DEF Streams, Shortened, st2
<1>7. /\ pg2 \in Pages /\ pg2.cursor = seen /\ pg2.given = given /\ pg2.base = base
      /\ (pg2.trusted <=> pg.trusted \/ (st.reset /\ n = 1 /\ seen = st.lastSeq))
  BY <1>0, <1>2, <1>4, <1>5, <1>17 DEF Pages
<1> HIDE DEF n
<1>8. Flow(st2, l) /\ ~Announced(st2)
  <2>1. \A i \in 1..(n - 1) : i + 1 \in 1..n /\ i + 1 # 1 /\ Written(st, i + 1, l)
    BY <1>1 DEF Flow, n
  <2>2. \A i \in 1..(n - 1) : Written(st2, i, l) /\ st2.out[i].type # "reset"
    BY <1>6, <2>1 DEF Written
  <2>3. st2.reset => st2.out # <<>> /\ 1 \in 1..(n - 1)
    <3>1. n > 1 => Len(st2.out) # 0 /\ 1 \in 1..(n - 1)
      BY <1>1, <1>6
    <3> QED  BY <1>6, <3>1
  <2> QED  BY <1>6, <2>2, <2>3 DEF Flow, Announced
\* What was to be read has been given, or is still to be read.
<1>9. ASSUME NEW e \in Wanted, NEW i \in 1..n, Reads(st, l, e, i)
      PROVE  Settled(pg2, l, e, act) \/ Reads(st2, l, e, i - 1)
  <2>1. PICK j \in 1..i : st.out[j].type = "event" /\ st.out[j].seq = NewestIn(l, e)
    BY <1>9 DEF Reads
  <2>2. CASE j = 1
    BY <1>1, <1>5, <1>7, <2>1, <2>2 DEF Settled
  <2>3. CASE j # 1
    <3>1. j - 1 \in 1..(i - 1) /\ j - 1 \in 1..(n - 1) /\ (j - 1) + 1 = j
      BY <1>1, <2>1, <2>3
    <3> QED  BY <1>6, <2>1, <3>1 DEF Reads
  <2> QED  BY <2>2, <2>3
<1>10. \A e \in Wanted : Settled(pg, l, e, act) => Settled(pg2, l, e, act)
  <2>1. \A e \in Entries : NewestIn(l, e) \in Nat
    BY <1>3
  <2>2. \A e \in Entries : NewestIn(l, e) <= pg.base => NewestIn(l, e) <= base
    BY <1>17, <2>1
  <2> QED  BY <1>5, <1>7, <2>2 DEF Settled
<1>11. Honest(st2, pg2, l)
  <2>1. pg.trusted => pg.cursor <= st.lastSeq
    BY DEF Serves, Honest
  <2>2. pg2.trusted => seen <= st.lastSeq
    <3>1. st.lastSeq <= st.lastSeq
      BY <1>2
    <3> QED  BY <1>2, <1>4, <1>7, <2>1, <3>1
  <2>3. pg2.trusted => seen <= Len(l)
    BY <1>2, <1>4, <2>2
  <2>4. base <= Len(l)
    BY <1>2, <1>17
  <2> QED  BY <1>5, <1>6, <1>7, <1>17, <2>2, <2>3, <2>4 DEF Honest
<1>12. ASSUME pg.trusted \/ st.reset, NEW e \in Wanted, NewestIn(l, e) <= st.lastSeq
       PROVE  Settled(pg2, l, e, act) \/ Reads(st2, l, e, n - 1)
  <2>1. CASE Announced(st)
    <3>1. act[e] = 0 \/ Settled(pg, l, e, act) \/ Reads(st, l, e, n)
      BY <1>12, <2>1 DEF Serves, Resets, n
    <3>2. act[e] = 0 => Settled(pg2, l, e, act)
      BY <1>1, <1>7, <1>12, <1>17, <2>1 DEF Announced, Settled
    <3>3. n \in 1..n
      BY <1>1
    <3> QED  BY <1>9, <1>10, <3>1, <3>2, <3>3
  <2>2. CASE ~Announced(st)
    <3>1. Settled(pg, l, e, act) \/ Reads(st, l, e, n)
      BY <1>12, <2>2 DEF Serves, Complete, n
    <3>2. n \in 1..n
      BY <1>1
    <3> QED  BY <1>9, <1>10, <3>1, <3>2
  <2> QED  BY <2>1, <2>2
<1>13. Covered(st2, pg2, l, act)
  <2> SUFFICES ASSUME pg2.trusted, ~st2.reset, NEW e \in Wanted, NewestIn(l, e) <= seen
               PROVE  Settled(pg2, l, e, act)
    BY <1>7, <1>8 DEF Covered
  <2>1. NewestIn(l, e) \in Nat
    BY <1>3
  <2>2. CASE ~st.reset
    <3>1. pg.trusted
      BY <1>7, <2>2
    <3>2. CASE NewestIn(l, e) <= pg.cursor
      BY <1>10, <2>2, <3>1, <3>2 DEF Serves, Covered
    <3>3. CASE NewestIn(l, e) <= h.seq
      <4>1. Settled(pg, l, e, act) \/ Reads(st, l, e, 1)
        BY <1>1, <2>2, <3>1, <3>3 DEF Serves, InOrder, n
      <4>2. 1 \in 1..n
        BY <1>1
      <4>3. ~Reads(st2, l, e, 1 - 1)
        BY DEF Reads
      <4> QED  BY <1>9, <1>10, <4>1, <4>2, <4>3
    <3> QED  BY <1>4, <3>2, <3>3
  <2>3. CASE st.reset
    <3>1. n = 1 /\ seen <= st.lastSeq
      BY <1>1, <1>6, <1>7, <1>11, <2>3 DEF Honest
    <3>2. NewestIn(l, e) <= st.lastSeq
      <4>1. NewestIn(l, e) <= seen /\ NewestIn(l, e) \in Nat
        BY <2>1
      <4> QED  BY <1>2, <1>4, <3>1, <4>1
    <3>3. Settled(pg2, l, e, act) \/ Reads(st2, l, e, n - 1)
      BY <1>12, <2>3, <3>2
    <3> QED  BY <3>1, <3>3 DEF Reads
  <2> QED  BY <2>2, <2>3
<1>14. InOrder(st2, pg2, l, act)
  <2> SUFFICES ASSUME pg2.trusted, ~st2.reset, NEW e \in Wanted, NEW i \in 1..(n - 1),
                      NewestIn(l, e) <= st2.out[i].seq
               PROVE  Settled(pg2, l, e, act) \/ Reads(st2, l, e, i)
    BY <1>6 DEF InOrder
  <2>1. ~st.reset /\ pg.trusted /\ i + 1 \in 1..n /\ (i + 1) - 1 = i
    BY <1>1, <1>6, <1>7
  <2>2. Settled(pg, l, e, act) \/ Reads(st, l, e, i + 1)
    BY <1>6, <2>1 DEF Serves, InOrder, n
  <2> QED  BY <1>9, <1>10, <2>1, <2>2
<1>15. Complete(st2, pg2, l, act)
  BY <1>6, <1>7, <1>12 DEF Complete
<1>16. Serves(st2, pg2, l, act)
  BY <1>8, <1>11, <1>13, <1>14, <1>15 DEF Serves, Resets
<1> QED  BY <1>6, <1>7, <1>8, <1>16 DEF st2, pg2

-------------------------------------------------------------------------------
(* What a new stream is sent *)

Ascending(q) == \A i, j \in 1..Len(q) : i < j => q[i].seq < q[j].seq

\* The filter keeps the order, and all that is wanted.
LEMMA MatchingLemma ==
  ASSUME NEW q \in Seq(Events), Ascending(q)
  PROVE  /\ Matching(q) \in Seq(Events) /\ Ascending(Matching(q))
         /\ \A k \in 1..Len(Matching(q)) : \E i \in 1..Len(q) : Matching(q)[k] = q[i]
         /\ \A i \in 1..Len(q) : q[i].entry \in Wanted =>
              \E k \in 1..Len(Matching(q)) : Matching(q)[k] = q[i]
<1> DEFINE places == {i \in 1..Len(q) : q[i].entry \in Wanted}
           m == Matching(q)
           N == Cardinality(places)
<1>1. Len(q) \in Nat /\ places \in SUBSET Nat /\ \A i \in places : i \in 1..Len(q)
  OBVIOUS
<1>2. IsFiniteSet(places)
  <2>1. IsFiniteSet(1..Len(q)) /\ places \in SUBSET (1..Len(q))
    BY <1>1, FS_Interval
  <2> HIDE DEF places
  <2> QED  BY <2>1, FS_Subset
<1>3. /\ N \in Nat
      /\ \A k \in 1..N : Nth(k, places) \in places
      /\ \A j, k \in 1..N : j < k => Nth(j, places) < Nth(k, places)
      /\ \A x \in places : \E k \in 1..N : Nth(k, places) = x
  <2> HIDE DEF places
  <2> QED  BY <1>1, <1>2, NthLemma
<1>4. m = [k \in 1..N |-> q[Nth(k, places)]]
  BY DEF Matching
<1>5. \A i \in 1..Len(q) : q[i].entry \in Wanted => i \in places
  OBVIOUS
<1>6. \A i \in 1..Len(q) : q[i] \in Events
  OBVIOUS
<1> HIDE DEF places, m, N
<1>7. m \in Seq(Events) /\ Len(m) = N /\ \A k \in 1..N : m[k] = q[Nth(k, places)]
  <2>1. \A k \in 1..N : q[Nth(k, places)] \in Events
    BY <1>1, <1>3, <1>6, Zenon
  <2>2. m \in [1..N -> Events]
    BY <1>4, <2>1, Zenon
  <2>3. m \in Seq(Events) /\ Len(m) = N
    BY <1>3, <2>2
  <2>4. \A k \in 1..N : m[k] = q[Nth(k, places)]
    BY <1>4, Zenon
  <2> QED  BY <2>3, <2>4
<1>8. Ascending(m)
  <2>1. ASSUME NEW j \in 1..N, NEW k \in 1..N, j < k
        PROVE  m[j].seq < m[k].seq
    <3>1. /\ Nth(j, places) \in 1..Len(q) /\ Nth(k, places) \in 1..Len(q)
          /\ Nth(j, places) < Nth(k, places)
      BY <1>1, <1>3, <2>1
    <3>2. m[j] = q[Nth(j, places)] /\ m[k] = q[Nth(k, places)]
      BY <1>7
    <3> QED  BY <3>1, <3>2 DEF Ascending
  <2> QED  BY <1>7, <2>1 DEF Ascending
<1>9. \A k \in 1..Len(m) : \E i \in 1..Len(q) : m[k] = q[i]
  BY <1>1, <1>3, <1>7
<1>10. \A i \in 1..Len(q) : q[i].entry \in Wanted => \E k \in 1..Len(m) : m[k] = q[i]
  BY <1>3, <1>5, <1>7
<1> QED  BY <1>7, <1>8, <1>9, <1>10 DEF m

\* The messages of a replay are events of the log.
OfLog(q) == \A i \in 1..Len(q) : q[i].seq \in 1..nextSeq /\ q[i] = EventOf(log, q[i].seq)

\* The snapshots go out in the order of their sequences, each the newest event of its entry.
LEMMA SnapshotsLemma ==
  ASSUME TypeOK, Ring, Current
  PROVE  /\ ActiveSnapshots \in Seq(Events) /\ Ascending(ActiveSnapshots) /\ OfLog(ActiveSnapshots)
         /\ \A e \in Entries : active[e] # 0 =>
              \E i \in 1..Len(ActiveSnapshots) : ActiveSnapshots[i].seq = active[e]
<1> DEFINE seqs == {s.seq : s \in Snapshots}
           a == ActiveSnapshots
           N == Cardinality(seqs)
<1>1. \A e \in Entries : active[e] # 0 =>
         active[e] \in 1..nextSeq /\ log[active[e]] = e
  BY NewestLemma DEF TypeOK, Ring, Current
<1>2. ASSUME NEW s \in Snapshots
      PROVE  s \in Events /\ s.seq \in 1..nextSeq /\ s = EventOf(log, s.seq)
  BY <1>1 DEF Snapshots, Events, EventOf, TypeOK
<1>3. nextSeq \in Nat /\ seqs \in SUBSET (1..nextSeq)
  BY <1>2 DEF TypeOK
<1>4. \A e \in Entries : active[e] # 0 => active[e] \in seqs
  <2> TAKE e \in Entries
  <2> HAVE active[e] # 0
  <2>1. [type |-> "event", seq |-> active[e], entry |-> e] \in Snapshots
    BY DEF Snapshots
  <2> QED  BY <2>1
<1>5. \A x \in seqs : \E s \in Snapshots : s.seq = x
  OBVIOUS
<1>6. a = [k \in 1..N |-> CHOOSE s \in Snapshots : s.seq = Nth(k, seqs)]
  BY DEF ActiveSnapshots
<1> HIDE DEF seqs, a, N
<1>7. IsFiniteSet(seqs) /\ seqs \in SUBSET Nat
  <2>1. IsFiniteSet(1..nextSeq)
    BY <1>3, FS_Interval
  <2>2. IsFiniteSet(seqs)
    BY <1>3, <2>1, FS_Subset
  <2>3. \A x \in 1..nextSeq : x \in Nat
    BY <1>3
  <2> QED  BY <1>3, <2>2, <2>3
<1>8. /\ N \in Nat
      /\ \A k \in 1..N : Nth(k, seqs) \in seqs
      /\ \A j, k \in 1..N : j < k => Nth(j, seqs) < Nth(k, seqs)
      /\ \A x \in seqs : \E k \in 1..N : Nth(k, seqs) = x
  BY <1>7, NthLemma DEF N
<1>9. \A k \in 1..N : a[k] \in Snapshots /\ a[k].seq = Nth(k, seqs)
  <2> TAKE k \in 1..N
  <2>1. \E s \in Snapshots : s.seq = Nth(k, seqs)
    BY <1>5, <1>8
  <2>2. a[k] = CHOOSE s \in Snapshots : s.seq = Nth(k, seqs)
    BY <1>6
  <2> QED  BY <2>1, <2>2
<1>10. a \in Seq(Events) /\ Len(a) = N
  <2>1. \A k \in 1..N : a[k] \in Events
    BY <1>2, <1>9, Zenon
  <2>2. a \in [1..N -> Events]
    BY <1>6, <2>1
  <2> QED  BY <1>8, <2>2
<1>11. Ascending(a)
  BY <1>8, <1>9, <1>10 DEF Ascending
<1>12. OfLog(a)
  BY <1>2, <1>9, <1>10 DEF OfLog
<1>13. \A e \in Entries : active[e] # 0 => \E i \in 1..Len(a) : a[i].seq = active[e]
  BY <1>4, <1>8, <1>9, <1>10
<1> QED  BY <1>10, <1>11, <1>12, <1>13 DEF a

\* The ring serves every event after a cursor that it has not lost.
LEMMA RingLemma ==
  ASSUME TypeOK, Ring, NEW cursor \in Nat \ {0}, ~NeedsReset(cursor)
  PROVE  /\ ReplayFrom(cursor) \in Seq(Events) /\ Ascending(ReplayFrom(cursor))
         /\ OfLog(ReplayFrom(cursor)) /\ cursor <= nextSeq
         /\ \A s \in (cursor + 1)..nextSeq :
              \E i \in 1..Len(ReplayFrom(cursor)) : ReplayFrom(cursor)[i].seq = s
<1> DEFINE n == Len(events)
           first == nextSeq - n + 1
           start == IF cursor >= EventAt(0).seq THEN cursor - EventAt(0).seq + 1 ELSE 0
           q == ReplayFrom(cursor)
<1>1. n \in Nat /\ nextSeq \in Nat /\ n <= nextSeq /\ events # <<>> /\ n # 0
  BY DEF TypeOK, Ring, NeedsReset
<1>2. \A i \in 0..(n - 1) : EventAt(i) = EventOf(log, first + i) /\ EventAt(i).seq = first + i
  BY DEF Ring, EventOf
<1>3. q = [i \in 1..(n - start) |-> EventAt(start + i - 1)]
  BY DEF ReplayFrom
<1>4. ~(cursor > EventAt(n - 1).seq) /\ ~(cursor + 1 < EventAt(0).seq)
  BY DEF NeedsReset
<1> HIDE DEF n, q
<1>5. first \in Nat \ {0} /\ first + (n - 1) = nextSeq /\ EventAt(0).seq = first
      /\ EventAt(n - 1).seq = nextSeq
  BY <1>1, <1>2
<1> HIDE DEF first
<1>6. cursor <= nextSeq /\ first <= cursor + 1
  BY <1>1, <1>4, <1>5
<1>7. start \in Nat /\ first + start = cursor + 1 /\ start <= n
  BY <1>1, <1>5, <1>6
<1> HIDE DEF start
<1>8. \A i \in 1..(n - start) : /\ EventAt(start + i - 1) = EventOf(log, cursor + i)
                                /\ cursor + i \in 1..nextSeq
  <2> TAKE i \in 1..(n - start)
  <2>1. start + i - 1 \in 0..(n - 1) /\ first + (start + i - 1) = cursor + i
    BY <1>1, <1>5, <1>7
  <2>2. cursor + i \in 1..nextSeq
    BY <1>1, <1>5, <1>7
  <2> QED  BY <1>2, <2>1, <2>2
<1>9. \A s \in 1..nextSeq : EventOf(log, s) \in Events /\ EventOf(log, s).seq = s
  BY DEF TypeOK, Ring, EventOf, Events
<1>10. q \in Seq(Events) /\ Len(q) = n - start
       /\ \A i \in 1..(n - start) : q[i] = EventOf(log, cursor + i) /\ q[i].seq = cursor + i
  <2>1. \A i \in 1..(n - start) : q[i] = EventOf(log, cursor + i) /\ q[i].seq = cursor + i
    BY <1>3, <1>8, <1>9
  <2>2. \A i \in 1..(n - start) : q[i] \in Events
    BY <1>8, <1>9, <2>1
  <2> DEFINE m == n - start
  <2>3. m \in Nat
    BY <1>1, <1>7
  <2>4. q = [i \in 1..m |-> q[i]]
    BY <1>3
  <2>5. q \in Seq(Events) /\ Len(q) = m
    <3> HIDE DEF m
    <3> QED  BY <2>2, <2>3, <2>4 DEF m
  <2> QED  BY <2>1, <2>5
<1>11. Ascending(q)
  BY <1>10 DEF Ascending
<1>12. OfLog(q)
  BY <1>8, <1>10 DEF OfLog
<1>13. \A s \in (cursor + 1)..nextSeq : \E i \in 1..Len(q) : q[i].seq = s
  <2> TAKE s \in (cursor + 1)..nextSeq
  <2>1. s - cursor \in 1..(n - start) /\ cursor + (s - cursor) = s
    BY <1>1, <1>5, <1>7
  <2> QED  BY <1>10, <2>1
<1> QED  BY <1>6, <1>10, <1>11, <1>12, <1>13 DEF q

\* What a stream with this cursor is sent, reset and heartbeat apart.
LEMMA SentLemma ==
  ASSUME TypeOK, Ring, Current, Wanted \subseteq Entries, NEW cursor \in Nat,
         NEW sent, sent = Matching(Replay(cursor))
  PROVE  /\ sent \in Seq(Events) /\ Ascending(sent) /\ OfLog(sent)
         /\ cursor = 0 \/ NeedsReset(cursor) =>
              \A e \in Wanted : active[e] # 0 =>
                \E k \in 1..Len(sent) : sent[k].seq = NewestIn(log, e)
         /\ cursor # 0 /\ ~NeedsReset(cursor) =>
              /\ cursor <= nextSeq
              /\ \A e \in Wanted : NewestIn(log, e) > cursor =>
                   \E k \in 1..Len(sent) : sent[k].seq = NewestIn(log, e)
<1> DEFINE q == Replay(cursor)
<1>1. \A e \in Wanted : /\ NewestIn(log, e) \in 0..nextSeq
                        /\ NewestIn(log, e) # 0 => log[NewestIn(log, e)] = e
  BY NewestLemma DEF TypeOK, Ring
<1>2. ASSUME q \in Seq(Events), Ascending(q), OfLog(q)
      PROVE  /\ sent \in Seq(Events) /\ Ascending(sent) /\ OfLog(sent)
             /\ \A e \in Wanted, i \in 1..Len(q) :
                  NewestIn(log, e) # 0 /\ q[i].seq = NewestIn(log, e) =>
                    \E k \in 1..Len(sent) : sent[k].seq = NewestIn(log, e)
  <2> HIDE DEF q
  <2>1. /\ sent \in Seq(Events) /\ Ascending(sent)
        /\ \A k \in 1..Len(sent) : \E i \in 1..Len(q) : sent[k] = q[i]
        /\ \A i \in 1..Len(q) : q[i].entry \in Wanted => \E k \in 1..Len(sent) : sent[k] = q[i]
    BY <1>2, MatchingLemma DEF q
  <2>2. OfLog(sent)
    BY <1>2, <2>1 DEF OfLog
  <2>3. ASSUME NEW e \in Wanted, NEW i \in 1..Len(q), NewestIn(log, e) # 0,
               q[i].seq = NewestIn(log, e)
        PROVE  \E k \in 1..Len(sent) : sent[k].seq = NewestIn(log, e)
    <3>1. q[i].entry = e
      <4>1. q[i] = EventOf(log, NewestIn(log, e))
        BY <1>2, <2>3 DEF OfLog
      <4>2. log[NewestIn(log, e)] = e
        BY <1>1, <2>3
      <4> QED  BY <4>1, <4>2 DEF EventOf
    <3> QED  BY <2>1, <2>3, <3>1
  <2> QED  BY <2>1, <2>2, <2>3
<1>3. CASE cursor = 0 \/ NeedsReset(cursor)
  <2>1. q = ActiveSnapshots
    BY <1>3 DEF Replay
  <2>2. \A e \in Wanted : active[e] # 0 =>
          active[e] = NewestIn(log, e) /\ \E i \in 1..Len(q) : q[i].seq = active[e]
    BY <2>1, SnapshotsLemma DEF Current
  <2>3. q \in Seq(Events) /\ Ascending(q) /\ OfLog(q)
    BY <2>1, SnapshotsLemma
  <2> HIDE DEF q
  <2>4. \A e \in Wanted : active[e] # 0 => \E k \in 1..Len(sent) : sent[k].seq = NewestIn(log, e)
    BY <1>2, <2>2, <2>3
  <2> QED  BY <1>2, <1>3, <2>3, <2>4
<1>4. CASE cursor # 0 /\ ~NeedsReset(cursor)
  <2>1. q = ReplayFrom(cursor)
    BY <1>4 DEF Replay
  <2>2. /\ q \in Seq(Events) /\ Ascending(q) /\ OfLog(q) /\ cursor <= nextSeq
        /\ \A s \in (cursor + 1)..nextSeq : \E i \in 1..Len(q) : q[i].seq = s
    <3>1. cursor \in Nat \ {0}
      BY <1>4
    <3> DEFINE r == ReplayFrom(cursor)
    <3>2. /\ r \in Seq(Events) /\ Ascending(r) /\ OfLog(r) /\ cursor <= nextSeq
          /\ \A s \in (cursor + 1)..nextSeq : \E i \in 1..Len(r) : r[i].seq = s
      BY <1>4, <3>1, RingLemma, Zenon
    <3> HIDE DEF r
    <3> QED  BY <2>1, <3>2, Zenon DEF r
  <2> HIDE DEF q
  <2>3. ASSUME NEW e \in Wanted, NewestIn(log, e) > cursor
        PROVE  \E k \in 1..Len(sent) : sent[k].seq = NewestIn(log, e)
    <3>1. NewestIn(log, e) \in (cursor + 1)..nextSeq /\ NewestIn(log, e) # 0
      BY <1>1, <2>3 DEF TypeOK
    <3> QED  BY <1>2, <2>2, <3>1
  <2> QED  BY <1>2, <1>4, <2>2, <2>3
<1> QED  BY <1>3, <1>4

\* The places of what was joined.
LEMMA JoinLemma ==
  ASSUME NEW T, NEW before \in Seq(T), NEW sent \in Seq(T), NEW last \in T, NEW out,
         out = before \o sent \o <<last>>
  PROVE  /\ out \in Seq(T) /\ Len(before) \in Nat /\ Len(sent) \in Nat
         /\ Len(out) = Len(before) + Len(sent) + 1
         /\ \A i \in 1..Len(before) : out[i] = before[i]
         /\ \A i \in 1..Len(sent) : out[Len(before) + i] = sent[i]
         /\ out[Len(out)] = last
  OBVIOUS

\* What the handler writes before it serves the channel.
Greeting(reset, cursor) == (IF reset THEN <<Control("reset")>> ELSE <<>>)
                           \o Matching(Replay(cursor)) \o <<Control("heartbeat")>>

\* A new stream, and its page.
Opened(cursor) ==
  LET reset == cursor > 0 /\ NeedsReset(cursor)
  IN [NoStream EXCEPT !.open = TRUE, !.reset = reset, !.lastSeq = nextSeq,
                      !.out = Greeting(reset, cursor)]

Joined(pg) == [pg EXCEPT !.base = IF pg.cursor = 0 THEN nextSeq ELSE @]

\* A new stream is sent what the page may miss, in order.
LEMMA ConnectLemma ==
  ASSUME TypeOK, Ring, Current, Wanted \subseteq Entries, NEW old \in Streams, NEW pg \in Pages,
         ~old.open, Flow(old, log), Serves(old, pg, log, active)
  PROVE  LET st  == Opened(pg.cursor)
             new == Joined(pg)
         IN /\ st \in Streams /\ new \in Pages /\ Flow(st, log) /\ Serves(st, new, log, active)
            /\ st.lastSeq + Len(st.chan) = nextSeq /\ st.shut = 0 /\ st.open
<1> DEFINE reset  == pg.cursor > 0 /\ NeedsReset(pg.cursor)
           st     == Opened(pg.cursor)
           new    == Joined(pg)
           before == IF reset THEN <<Control("reset")>> ELSE <<>>
           sent   == Matching(Replay(pg.cursor))
           out    == Greeting(reset, pg.cursor)
           M      == Len(sent)
           B      == Len(before)
<1>1. /\ sent \in Seq(Events) /\ Ascending(sent) /\ OfLog(sent)
      /\ pg.cursor = 0 \/ NeedsReset(pg.cursor) =>
           \A e \in Wanted : active[e] # 0 => \E k \in 1..Len(sent) : sent[k].seq = NewestIn(log, e)
      /\ pg.cursor # 0 /\ ~NeedsReset(pg.cursor) =>
           /\ pg.cursor <= nextSeq
           /\ \A e \in Wanted : NewestIn(log, e) > pg.cursor =>
                \E k \in 1..Len(sent) : sent[k].seq = NewestIn(log, e)
  BY SentLemma DEF Pages
<1>2. /\ Control("reset") \in Controls /\ Control("reset").type = "reset"
      /\ Control("heartbeat") \in Controls /\ Control("heartbeat").type = "heartbeat"
      /\ Control("reset").seq = nextSeq /\ Control("heartbeat").seq = nextSeq
      /\ nextSeq \in Nat /\ Len(log) = nextSeq
  BY DEF Control, Controls, TypeOK, Ring
<1>3. /\ before \in Seq(Controls) /\ B \in {0, 1} /\ (B = 1 <=> reset)
      /\ B = 1 => before[1] = Control("reset")
  BY <1>2
<1>0. /\ out = before \o sent \o <<Control("heartbeat")>>
      /\ st = [NoStream EXCEPT !.open = TRUE, !.reset = reset, !.lastSeq = nextSeq, !.out = out]
      /\ new = [pg EXCEPT !.base = IF pg.cursor = 0 THEN nextSeq ELSE @]
  BY Zenon DEF Greeting, Opened, Joined
<1> HIDE DEF before, sent, out, st, new
<1>4. /\ out \in Seq(Events \union Controls) /\ M \in Nat /\ Len(out) = B + M + 1
      /\ \A i \in 1..B : out[i] = before[i]
      /\ \A i \in 1..M : out[B + i] = sent[i]
      /\ out[Len(out)] = Control("heartbeat")
  <2>1. before \in Seq(Events \union Controls) /\ sent \in Seq(Events \union Controls)
    BY <1>1, <1>3
  <2> QED  BY <1>0, <1>2, <2>1, JoinLemma
<1>5. /\ st.open /\ (st.reset <=> reset) /\ st.lastSeq = nextSeq /\ st.out = out /\ st.chan = <<>>
      /\ st \in Streams /\ st.shut = 0
  <2>1. out \in Seq(Events \union Controls) /\ nextSeq \in Nat
    BY <1>2, <1>4
  <2>2. reset \in BOOLEAN
    BY DEF NeedsReset
  <2>3. st = [NoStream EXCEPT !.open = TRUE, !.reset = reset, !.lastSeq = nextSeq, !.out = out]
    BY <1>0
  <2> HIDE DEF reset
  <2> QED  BY <2>1, <2>2, <2>3, NoStreamType DEF Streams
<1>6. \A e \in Entries : NewestIn(log, e) \in 0..nextSeq /\ pg.given[e] \in Nat
                         /\ pg.given[e] <= NewestIn(log, e)
  BY <1>2, NewestLemma DEF Serves, Honest, Pages, TypeOK
<1>7. /\ new \in Pages /\ new.cursor = pg.cursor /\ new.given = pg.given
      /\ new.base <= nextSeq /\ (new.trusted <=> pg.trusted)
      /\ \A e \in Wanted : Settled(pg, log, e, active) => Settled(new, log, e, active)
      /\ pg.cursor = 0 => \A e \in Wanted : active[e] = 0 => Settled(new, log, e, active)
  <2>1. pg.base \in Nat /\ pg.base <= nextSeq
    BY <1>2 DEF Pages, Serves, Honest
  <2>2. /\ new \in Pages /\ new.cursor = pg.cursor /\ new.given = pg.given
        /\ (new.trusted <=> pg.trusted) /\ pg.base <= new.base /\ new.base \in Nat
        /\ new.base <= nextSeq /\ (pg.cursor = 0 => new.base = nextSeq)
    <3> DEFINE base == IF pg.cursor = 0 THEN nextSeq ELSE pg.base
    <3>1. new = [pg EXCEPT !.base = base]
      BY <1>0
    <3>2. /\ base \in Nat /\ pg.base <= base /\ base <= nextSeq
          /\ pg.cursor = 0 => base = nextSeq
      BY <1>2, <2>1
    <3> HIDE DEF base
    <3>3. /\ new \in Pages /\ new.cursor = pg.cursor /\ new.given = pg.given
          /\ new.trusted = pg.trusted /\ new.base = base
      BY <3>1, <3>2 DEF Pages
    <3> QED  BY <3>2, <3>3
  <2>3. \A e \in Entries : NewestIn(log, e) <= pg.base => NewestIn(log, e) <= new.base
    BY <1>6, <2>1, <2>2
  <2>4. \A e \in Entries : NewestIn(log, e) <= nextSeq
    BY <1>2, <1>6
  <2> QED  BY <2>2, <2>3, <2>4 DEF Settled
<1> HIDE DEF M, B
\* The messages by their place.
<1>8. ASSUME NEW i \in 1..Len(out)
      PROVE  \/ i = 1 /\ reset /\ out[i] = Control("reset")
             \/ i - B \in 1..M /\ out[i] = sent[i - B]
             \/ i = Len(out) /\ out[i] = Control("heartbeat")
  <2>1. CASE i \in 1..B
    BY <1>3, <1>4, <2>1
  <2>2. CASE i = Len(out)
    BY <1>4, <2>2
  <2>3. CASE i \notin 1..B /\ i # Len(out)
    <3>1. i - B \in 1..M /\ B + (i - B) = i
      BY <1>3, <1>4, <2>3
    <3> QED  BY <1>4, <3>1
  <2> QED  BY <2>1, <2>2, <2>3
<1>9. \A k \in 1..M : /\ sent[k].seq \in 1..nextSeq /\ sent[k] = EventOf(log, sent[k].seq)
                      /\ sent[k].type = "event"
  BY <1>1 DEF OfLog, EventOf, M
<1>10. Flow(st, log)
  <2>1. ASSUME NEW i \in 1..Len(out)  PROVE Written(st, i, log)
    <3>1. CASE i = 1 /\ reset /\ out[i] = Control("reset")
      BY <1>2, <1>5, <3>1 DEF Written
    <3>2. CASE i - B \in 1..M /\ out[i] = sent[i - B]
      BY <1>2, <1>5, <1>9, <3>2 DEF Written
    <3>3. CASE out[i] = Control("heartbeat")
      BY <1>2, <1>5, <3>3 DEF Written
    <3> QED  BY <1>8, <3>1, <3>2, <3>3
  <2>2. out # <<>>
    BY <1>3, <1>4
  <2>3. Len(st.chan) = 0 /\ st.lastSeq + Len(st.chan) <= Len(log)
    BY <1>2, <1>5
  <2>4. \A i \in 1..Len(st.chan) : st.chan[i] = EventOf(log, st.lastSeq + i)
    BY <2>3
  <2> QED  BY <1>5, <2>1, <2>2, <2>3, <2>4 DEF Flow
<1>11. (st.reset => Announced(st)) /\ (Announced(st) => reset)
  <2>1. reset => out[1] = Control("reset")
    BY <1>3, <1>4
  <2> QED  BY <1>2, <1>5, <2>1 DEF Announced
\* An event that is sent stands before those that are newer.
<1>12. ASSUME NEW e \in Wanted, NEW i \in 1..Len(out), NewestIn(log, e) <= out[i].seq, ~reset,
              NEW k \in 1..M, sent[k].seq = NewestIn(log, e)
       PROVE  Reads(st, log, e, i)
  <2>1. B = 0 /\ B + k = k /\ k \in 1..Len(out) /\ out[k] = sent[k]
    BY <1>3, <1>4, <1>12
  <2>2. k <= i
    <3>1. CASE i \in 1..M /\ out[i] = sent[i]
      <4>1. ~(sent[i].seq < sent[k].seq)
        BY <1>9, <1>12, <3>1
      <4>2. i \in Nat /\ k \in Nat /\ ~(i < k)
        BY <1>1, <3>1, <4>1 DEF Ascending, M
      <4> QED  BY <4>2
    <3>2. CASE i = Len(out)
      BY <1>4, <2>1, <3>2
    <3>3. i - B = i
      BY <1>3, <1>4, <2>1
    <3> QED  BY <1>8, <1>12, <3>1, <3>2, <3>3
  <2>3. k \in 1..i
    BY <1>4, <2>1, <2>2
  <2> QED  BY <1>5, <1>9, <1>12, <2>1, <2>3 DEF Reads
<1>13. ASSUME NEW e \in Wanted, NEW k \in 1..M, sent[k].seq = NewestIn(log, e)
       PROVE  Reads(st, log, e, Len(out))
  <2>1. B + k \in 1..Len(out) /\ out[B + k] = sent[k]
    BY <1>3, <1>4
  <2> QED  BY <1>5, <1>9, <1>13, <2>1 DEF Reads
\* What the page does not know is sent.
<1>14. ASSUME new.trusted, ~reset, NEW e \in Wanted
       PROVE  Settled(new, log, e, active) \/ \E k \in 1..M : sent[k].seq = NewestIn(log, e)
  <2>1. CASE pg.cursor = 0
    BY <1>1, <1>7, <1>14, <2>1 DEF M
  <2>2. CASE pg.cursor # 0
    <3>1. ~NeedsReset(pg.cursor) /\ pg.cursor \in Nat
      BY <1>14, <2>2 DEF Pages
    <3>2. CASE NewestIn(log, e) > pg.cursor
      BY <1>1, <2>2, <3>1, <3>2 DEF M
    <3>3. CASE NewestIn(log, e) <= pg.cursor
      <4>1. pg.trusted /\ ~old.reset
        BY <1>7, <1>14 DEF Flow
      <4>2. Settled(pg, log, e, active)
        BY <3>3, <4>1 DEF Serves, Covered
      <4> QED  BY <1>7, <4>2
    <3> QED  BY <1>6, <3>1, <3>2, <3>3
  <2> QED  BY <2>1, <2>2
<1>15. Honest(st, new, log)
  BY <1>2, <1>5, <1>7, <1>6 DEF Honest, Serves
<1>16. Covered(st, new, log, active)
  BY <1>7 DEF Covered, Serves, Flow
<1>17. InOrder(st, new, log, active)
  BY <1>5, <1>12, <1>14 DEF InOrder
<1>18. Complete(st, new, log, active)
  BY <1>5, <1>11, <1>13, <1>14 DEF Complete
<1>19. Resets(st, new, log, active)
  BY <1>1, <1>5, <1>11, <1>13 DEF Resets, M
<1>20. st.lastSeq + Len(st.chan) = nextSeq
  BY <1>2, <1>5
<1>21. Serves(st, new, log, active)
  BY <1>15, <1>16, <1>17, <1>18, <1>19 DEF Serves
<1> QED  BY <1>5, <1>7, <1>10, <1>20, <1>21 DEF st, new

-------------------------------------------------------------------------------
(* What the other steps do to a stream *)

\* A page that has read all that was written knows all up to lastSeq.
LEMMA QuietLemma ==
  ASSUME NEW st \in Streams, NEW pg, NEW l, NEW act, Flow(st, l), Serves(st, pg, l, act),
         st.open, st.out = <<>>
  PROVE  /\ ~st.reset /\ Len(st.out) = 0
         /\ pg.trusted => \A e \in Wanted : NewestIn(l, e) <= st.lastSeq => Settled(pg, l, e, act)
<1>1. ~st.reset
  BY DEF Flow
<1>2. Len(st.out) = 0 /\ \A e : ~Reads(st, l, e, 0)
  BY DEF Reads
<1>3. ~Announced(st)
  BY <1>1 DEF Announced
<1> QED  BY <1>1, <1>2, <1>3 DEF Serves, Complete

\* A heartbeat says how far the stream has come.
LEMMA BeatLemma ==
  ASSUME NEW st \in Streams, NEW pg \in Pages, NEW l \in Seq(Entries), NEW act, Flow(st, l),
         Serves(st, pg, l, act), st.open, st.out = <<>>,
         NEW st2, st2 = [st EXCEPT !.out = <<[type |-> "heartbeat", seq |-> st.lastSeq]>>]
  PROVE  /\ st2 \in Streams /\ Flow(st2, l) /\ Serves(st2, pg, l, act)
         /\ st2.lastSeq = st.lastSeq /\ st2.chan = st.chan /\ st2.shut = st.shut /\ st2.open
<1> DEFINE beat == [type |-> "heartbeat", seq |-> st.lastSeq]
<1>1. /\ beat \in Events \union Controls /\ beat.type = "heartbeat" /\ beat.seq = st.lastSeq
      /\ st.lastSeq \in Nat
  BY DEF Streams, Controls
<1> HIDE DEF beat
<1>2. <<beat>> \in Seq(Events \union Controls) /\ Len(<<beat>>) = 1 /\ <<beat>>[1] = beat
      /\ <<beat>> # <<>>
  BY <1>1
<1>3. st2 = [st EXCEPT !.out = <<beat>>]
  BY DEF beat
<1>4. /\ st2 \in Streams /\ st2.open /\ st2.reset = st.reset /\ st2.chan = st.chan
      /\ st2.shut = st.shut /\ st2.lastSeq = st.lastSeq /\ st2.out = <<beat>>
  BY <1>2, <1>3 DEF Streams
<1>5. /\ ~st.reset
      /\ pg.trusted => \A e \in Wanted : NewestIn(l, e) <= st.lastSeq => Settled(pg, l, e, act)
  BY QuietLemma
<1>6. \A i \in 1..Len(st2.out) : st2.out[i] = beat
  BY <1>2, <1>4
<1>7. Flow(st2, l)
  <2>1. \A i \in 1..Len(st2.out) : Written(st2, i, l)
    <3>1. st.lastSeq <= st.lastSeq
      BY <1>1
    <3> QED  BY <1>1, <1>4, <1>6, <3>1 DEF Written
  <2> QED  BY <1>4, <1>5, <2>1 DEF Flow
<1>8. Serves(st2, pg, l, act)
  <2>1. ~Announced(st2) /\ ~Announced(st)
    BY <1>4, <1>5 DEF Announced
  <2>2. InOrder(st2, pg, l, act)
    BY <1>1, <1>4, <1>5, <1>6 DEF InOrder
  <2>3. Complete(st2, pg, l, act)
    BY <1>4, <1>5 DEF Complete
  <2> QED  BY <1>4, <1>5, <2>1, <2>2, <2>3 DEF Serves, Honest, Covered, Resets
<1> QED  BY <1>4, <1>7, <1>8

\* A stream once its handler has taken an event from the channel.
Forwarded(st) ==
  LET event == Head(st.chan)
  IN [st EXCEPT !.chan = Tail(@), !.lastSeq = Max({@, event.seq}),
                !.out = IF event.entry \in Wanted THEN <<event>> ELSE <<>>]

\* The event it takes is the one that follows lastSeq.
LEMMA ForwardLemma ==
  ASSUME NEW st \in Streams, NEW pg \in Pages, NEW l \in Seq(Entries), NEW act, Flow(st, l),
         Serves(st, pg, l, act), st.open, st.out = <<>>, st.chan # <<>>, Wanted \subseteq Entries
  PROVE  LET st2 == Forwarded(st)
         IN /\ st2 \in Streams /\ Flow(st2, l) /\ Serves(st2, pg, l, act) /\ st2.open
            /\ st2.lastSeq + Len(st2.chan) = st.lastSeq + Len(st.chan) /\ st2.shut = st.shut
<1> DEFINE n == Len(st.chan)
           next == st.lastSeq + 1
           event == Head(st.chan)
           out == IF event.entry \in Wanted THEN <<event>> ELSE <<>>
           st2 == Forwarded(st)
<1>0. st2 = [st EXCEPT !.chan = Tail(@), !.lastSeq = Max({@, event.seq}), !.out = out]
  BY DEF Forwarded
<1> HIDE DEF st2
<1>1. /\ n \in Nat \ {0} /\ event = st.chan[1] /\ Tail(st.chan) \in Seq(Events)
      /\ Len(Tail(st.chan)) = n - 1 /\ \A i \in 1..(n - 1) : Tail(st.chan)[i] = st.chan[i + 1]
  BY TailLemma DEF Streams
<1> HIDE DEF event
<1>2. st.lastSeq \in Nat /\ Len(l) \in Nat /\ st.lastSeq + n <= Len(l) /\ next \in 1..Len(l)
  BY <1>1 DEF Streams, Flow
<1>3. event = EventOf(l, next) /\ event.seq = next /\ event.type = "event"
      /\ event.entry = l[next] /\ event \in Events
  <2>1. event = EventOf(l, next)
    BY <1>1 DEF Flow
  <2>2. event = [type |-> "event", seq |-> next, entry |-> l[next]]
    BY <2>1 DEF EventOf
  <2>3. l[next] \in Entries /\ next \in Nat
    BY <1>2
  <2> QED  BY <2>1, <2>2, <2>3 DEF Events
<1>4. Max({st.lastSeq, event.seq}) = next
  <2>1. next \in Nat /\ ~(next <= st.lastSeq)
    BY <1>2
  <2>2. Max({st.lastSeq, next}) = next
    <3> HIDE DEF next
    <3>1. /\ next <= Max({st.lastSeq, next})
          /\ Max({st.lastSeq, next}) = st.lastSeq \/ Max({st.lastSeq, next}) = next
      BY <1>2, <2>1, MaxOfTwo, Zenon
    <3> QED  BY <2>1, <3>1, Zenon
  <2> QED  BY <1>3, <2>2
<1>5. out \in Seq(Events \union Controls) /\ Len(out) \in {0, 1}
      /\ (event.entry \in Wanted => Len(out) = 1) /\ \A i \in 1..Len(out) : out[i] = event
  <2>1. CASE event.entry \in Wanted
    <3>1. out = <<event>>
      BY <2>1
    <3>2. event \in Events \union Controls
      BY <1>3
    <3>3. <<event>> \in Seq(Events \union Controls) /\ Len(<<event>>) = 1 /\ <<event>>[1] = event
      BY <3>2
    <3>4. \A i \in 1..Len(<<event>>) : <<event>>[i] = event
      BY <3>3
    <3>5. Len(<<event>>) \in {0, 1}
      BY <3>3
    <3> QED  BY <3>1, <3>3, <3>4, <3>5, Zenon
  <2>2. CASE event.entry \notin Wanted
    <3>1. out = <<>>
      BY <2>2
    <3> QED  BY <2>2, <3>1
  <2> QED  BY <2>1, <2>2
<1> HIDE DEF out
<1>6. /\ st2 \in Streams /\ st2.open /\ st2.reset = st.reset /\ st2.chan = Tail(st.chan)
      /\ st2.shut = st.shut /\ st2.lastSeq = next /\ st2.out = out
  <2>1. st2 = [st EXCEPT !.chan = Tail(@), !.lastSeq = next, !.out = out]
    BY <1>0, <1>4
  <2>2. next \in Nat
    BY <1>2
  <2> HIDE DEF next
  <2> QED  BY <1>1, <1>5, <2>1, <2>2 DEF Streams
<1>7. /\ ~st.reset
      /\ pg.trusted => \A e \in Wanted : NewestIn(l, e) <= st.lastSeq => Settled(pg, l, e, act)
  BY QuietLemma
<1> HIDE DEF n
<1>8. st2.lastSeq + Len(st2.chan) = st.lastSeq + Len(st.chan)
  <2>1. Len(st2.chan) = n - 1 /\ st2.lastSeq = next
    BY <1>1, <1>6 DEF n
  <2>2. n \in Nat /\ st.lastSeq \in Nat
    BY <1>1, <1>2 DEF n
  <2> QED  BY <2>1, <2>2 DEF n
<1>9. Flow(st2, l)
  <2>1. \A i \in 1..Len(st2.out) : Written(st2, i, l)
    <3>1. next <= next /\ next >= 1
      BY <1>2
    <3> QED  BY <1>3, <1>5, <1>6, <3>1 DEF Written
  <2>2. ASSUME NEW i \in 1..Len(st2.chan)
        PROVE  st2.chan[i] = EventOf(l, st2.lastSeq + i)
    <3>0. Len(st2.chan) = n - 1 /\ n \in Nat /\ st.lastSeq \in Nat
      BY <1>1, <1>2, <1>6 DEF n
    <3>1. i \in 1..(n - 1) /\ i + 1 \in 1..n /\ st.lastSeq + (i + 1) = next + i
      BY <3>0
    <3>2. st2.chan[i] = st.chan[i + 1]
      BY <1>1, <1>6, <3>1
    <3>3. st.chan[i + 1] = EventOf(l, st.lastSeq + (i + 1))
      BY <3>1 DEF Flow, n
    <3> QED  BY <1>6, <3>1, <3>2, <3>3
  <2>3. st2.lastSeq + Len(st2.chan) <= Len(l)
    BY <1>2, <1>8 DEF n
  <2> QED  BY <1>6, <1>7, <2>1, <2>2, <2>3 DEF Flow
\* The newest event of a wanted entry was given, or it is this one.
<1>10. ASSUME pg.trusted, NEW e \in Wanted, NewestIn(l, e) <= next, NEW i \in Nat,
              Len(out) # 0 => i >= 1
       PROVE  Settled(pg, l, e, act) \/ Reads(st2, l, e, i)
  <2>1. NewestIn(l, e) \in Nat /\ (NewestIn(l, e) # 0 => l[NewestIn(l, e)] = e)
    BY <1>2, NewestLemma
  <2>2. CASE NewestIn(l, e) <= st.lastSeq
    BY <1>7, <1>10, <2>2
  <2>3. CASE NewestIn(l, e) = next
    <3>1. event.entry = e /\ Len(out) = 1
      BY <1>2, <1>3, <1>5, <1>10, <2>1, <2>3
    <3>2. 1 \in 1..i /\ out[1] = event
      BY <1>5, <1>10, <3>1
    <3> QED  BY <1>3, <1>6, <2>3, <3>2 DEF Reads
  <2> QED  BY <1>2, <1>10, <2>1, <2>2, <2>3
<1>11. Serves(st2, pg, l, act)
  <2>1. ~Announced(st2) /\ ~Announced(st)
    BY <1>6, <1>7 DEF Announced
  <2>2. InOrder(st2, pg, l, act)
    BY <1>3, <1>5, <1>6, <1>10 DEF InOrder
  <2>3. Complete(st2, pg, l, act)
    BY <1>5, <1>6, <1>7, <1>10 DEF Complete
  <2>4. Honest(st2, pg, l)
    <3>1. pg.cursor \in Nat /\ pg.base \in Nat
      BY DEF Pages
    <3> QED  BY <1>2, <1>6, <3>1 DEF Serves, Honest
  <2> QED  BY <1>6, <1>7, <2>1, <2>2, <2>3, <2>4 DEF Serves, Covered, Resets
<1> QED  BY <1>6, <1>8, <1>9, <1>11 DEF st2

\* The end of a drained channel changes nothing for the page.
LEMMA EndLemma ==
  ASSUME NEW st \in Streams, NEW pg, NEW l, NEW act, Flow(st, l), Serves(st, pg, l, act),
         st.open, st.out = <<>>, NEW st2, st2 = [st EXCEPT !.open = FALSE]
  PROVE  /\ st2 \in Streams /\ Flow(st2, l) /\ Serves(st2, pg, l, act)
         /\ st2.shut = st.shut /\ st2.chan = st.chan /\ st2.lastSeq = st.lastSeq
<1>1. /\ st2 \in Streams /\ ~st2.open /\ st2.reset = st.reset /\ st2.chan = st.chan
      /\ st2.shut = st.shut /\ st2.lastSeq = st.lastSeq /\ st2.out = st.out
  BY DEF Streams
<1>2. ~st.reset
  BY DEF Flow
<1>3. Flow(st2, l)
  BY <1>1, <1>2 DEF Flow, Written
<1>4. ~Announced(st2) /\ ~Announced(st)
  BY <1>1, <1>2 DEF Announced
<1> QED  BY <1>1, <1>2, <1>3, <1>4 DEF Serves, Honest, Covered, InOrder, Complete, Resets

\* Closing the channel changes nothing for the page.
LEMMA ShutLemma ==
  ASSUME NEW st \in Streams, NEW pg, NEW l, NEW act, Flow(st, l), Serves(st, pg, l, act),
         NEW st2, st2 = [st EXCEPT !.shut = @ + 1]
  PROVE  /\ st2 \in Streams /\ Flow(st2, l) /\ Serves(st2, pg, l, act)
         /\ st2.shut = st.shut + 1 /\ st2.open = st.open
<1>1. /\ st2 \in Streams /\ st2.open = st.open /\ st2.reset = st.reset /\ st2.chan = st.chan
      /\ st2.shut = st.shut + 1 /\ st2.lastSeq = st.lastSeq /\ st2.out = st.out
  BY DEF Streams
<1>2. Flow(st2, l)
  BY <1>1 DEF Flow, Written
<1>3. Announced(st2) <=> Announced(st)
  BY <1>1 DEF Announced
<1>4. \A e, i : Reads(st2, l, e, i) <=> Reads(st, l, e, i)
  BY <1>1 DEF Reads
<1> QED  BY <1>1, <1>2, <1>3, <1>4 DEF Serves, Honest, Covered, InOrder, Complete, Resets

\* The event that is published goes to the end of the channel.
LEMMA QueueLemma ==
  ASSUME NEW st \in Streams, NEW pg, NEW l \in Seq(Entries), NEW act, Flow(st, l),
         Serves(st, pg, l, act), NEW event \in Events, st.lastSeq + Len(st.chan) + 1 <= Len(l),
         event = EventOf(l, st.lastSeq + Len(st.chan) + 1)
  PROVE  LET st2 == [st EXCEPT !.chan = Append(@, event)]
         IN /\ st2 \in Streams /\ Flow(st2, l) /\ Serves(st2, pg, l, act)
            /\ st2.shut = st.shut /\ st2.open = st.open
            /\ st2.lastSeq + Len(st2.chan) = st.lastSeq + Len(st.chan) + 1
<1> DEFINE st2 == [st EXCEPT !.chan = Append(@, event)]
<1> DEFINE q == Append(st.chan, event)
           n == Len(st.chan)
<1>1. st.chan \in Seq(Events) /\ st.lastSeq \in Nat
  BY DEF Streams
<1>2. /\ q \in Seq(Events) /\ n \in Nat /\ Len(q) = n + 1 /\ q[n + 1] = event
      /\ \A i \in 1..n : q[i] = st.chan[i]
  BY <1>1
<1> HIDE DEF q
<1>3. /\ st2 \in Streams /\ st2.open = st.open /\ st2.reset = st.reset /\ st2.chan = q
      /\ st2.shut = st.shut /\ st2.lastSeq = st.lastSeq /\ st2.out = st.out
  BY <1>2 DEF Streams, q
<1> HIDE DEF st2
<1>0. \A a, b \in Nat : a + (b + 1) = a + b + 1
  OBVIOUS
<1>4. ASSUME NEW i \in 1..Len(q)  PROVE q[i] = EventOf(l, st.lastSeq + i)
  <2>1. CASE i = n + 1
    <3>1. st.lastSeq + i = st.lastSeq + n + 1
      BY <1>0, <1>1, <1>2, <2>1, Zenon
    <3> QED  BY <1>2, <2>1, <3>1
  <2>2. CASE i # n + 1
    <3>1. i \in 1..n
      BY <1>2, <2>2
    <3> QED  BY <1>2, <3>1 DEF Flow
  <2> QED  BY <2>1, <2>2
<1>5. st2.lastSeq + Len(st2.chan) = st.lastSeq + n + 1
  <2>1. st2.lastSeq = st.lastSeq /\ Len(st2.chan) = n + 1
    BY <1>2, <1>3
  <2> QED  BY <1>0, <1>1, <1>2, <2>1, Zenon
<1>6. Flow(st2, l)
  <2>1. \A i \in 1..Len(st2.out) : Written(st2, i, l)
    BY <1>3 DEF Flow, Written
  <2>2. \A i \in 1..Len(st2.chan) : st2.chan[i] = EventOf(l, st2.lastSeq + i)
    BY <1>3, <1>4
  <2> QED  BY <1>3, <1>5, <2>1, <2>2 DEF Flow
<1>7. Announced(st2) <=> Announced(st)
  BY <1>3 DEF Announced
<1>8. \A e, i : Reads(st2, l, e, i) <=> Reads(st, l, e, i)
  BY <1>3 DEF Reads
<1>9. Serves(st2, pg, l, act)
  BY <1>3, <1>7, <1>8 DEF Serves, Honest, Covered, InOrder, Complete, Resets
<1> QED  BY <1>3, <1>5, <1>6, <1>9 DEF st2

\* A stream whose connection broke, and its page.
Dropped(shut) == [NoStream EXCEPT !.shut = shut]

Cut(st) == /\ st.reset
           /\ \E i \in 1..Len(st.out) : st.out[i].type = "event"
           /\ Head(st.out).type # "reset"

Cautious(st, pg) == [pg EXCEPT !.trusted = @ /\ ~Cut(st)]

\* A connection that breaks inside the replay of a reset takes the trust with it:
\* else the page has what its cursor covers.
LEMMA CutLemma ==
  ASSUME NEW st \in Streams, NEW pg \in Pages, NEW l \in Seq(Entries), NEW act, Flow(st, l),
         Serves(st, pg, l, act), st.open, Wanted \subseteq Entries, NEW shut \in Nat
  PROVE  LET st2 == Dropped(shut)
             pg2 == Cautious(st, pg)
         IN /\ st2 \in Streams /\ pg2 \in Pages /\ Flow(st2, l) /\ Serves(st2, pg2, l, act)
            /\ st2.shut = shut
<1> DEFINE st2 == Dropped(shut)
           pg2 == Cautious(st, pg)
           cut == Cut(st)
<1>1. /\ pg2 \in Pages /\ pg2.cursor = pg.cursor /\ pg2.given = pg.given
      /\ pg2.base = pg.base /\ (pg2.trusted <=> pg.trusted /\ ~cut)
  BY DEF Pages, Cautious
<1>2. /\ ~st2.open /\ ~st2.reset /\ st2.out = <<>> /\ st2.chan = <<>> /\ st2.lastSeq = 0
      /\ st2.shut = shut /\ st2 \in Streams
  <2>1. st2 = [NoStream EXCEPT !.shut = shut]
    BY DEF Dropped
  <2> HIDE DEF st2
  <2> QED  BY <2>1, NoStreamType DEF Streams
<1> HIDE DEF st2, pg2
<1>4. Len(l) \in Nat /\ st.lastSeq \in Nat /\ pg.cursor \in Nat
  BY DEF Streams, Pages, Serves, Honest
<1>5. Flow(st2, l)
  <2>1. Len(st2.out) = 0 /\ Len(st2.chan) = 0 /\ st2.lastSeq + Len(st2.chan) <= Len(l)
    BY <1>2, <1>4
  <2> QED  BY <1>2, <2>1 DEF Flow
<1>6. ASSUME pg2.trusted, NEW e \in Wanted, NewestIn(l, e) <= pg.cursor
      PROVE  Settled(pg, l, e, act)
  <2>1. pg.trusted /\ ~cut /\ pg.cursor <= st.lastSeq
    BY <1>1, <1>6 DEF Serves, Honest
  <2>2. CASE st.reset => Announced(st)
    BY <1>6, <2>1, <2>2 DEF Serves, Covered
  <2>3. CASE st.reset /\ ~Announced(st)
    <3>1. st.out \in Seq(Events \union Controls) /\ st.out # <<>>
      BY <2>3 DEF Flow, Streams
    <3>2. Head(st.out).type # "reset"
      BY <2>3, <3>1, TailLemma DEF Announced
    <3>3. \A i \in 1..Len(st.out) : st.out[i].type # "event"
      BY <2>1, <2>3, <3>2 DEF Cut
    <3>4. NewestIn(l, e) <= st.lastSeq
      <4>1. NewestIn(l, e) \in Nat
        BY <1>4, NewestLemma
      <4> QED  BY <1>4, <1>6, <2>1, <4>1
    <3>5. Settled(pg, l, e, act) \/ Reads(st, l, e, Len(st.out))
      BY <2>3, <3>4 DEF Serves, Complete
    <3> QED  BY <3>3, <3>5 DEF Reads
  <2> QED  BY <2>2, <2>3
<1>7. Covered(st2, pg2, l, act)
  BY <1>1, <1>2, <1>6 DEF Covered, Settled
<1>8. Honest(st2, pg2, l)
  BY <1>1, <1>2, <1>4 DEF Serves, Honest
<1>9. InOrder(st2, pg2, l, act) /\ Complete(st2, pg2, l, act) /\ Resets(st2, pg2, l, act)
  BY <1>2 DEF InOrder, Complete, Resets, Announced
<1>10. Serves(st2, pg2, l, act)
  BY <1>7, <1>8, <1>9 DEF Serves
<1> QED  BY <1>1, <1>2, <1>5, <1>10 DEF st2, pg2

\* Without events, a page that was given nothing misses nothing.
LEMMA EmptyLemma ==
  ASSUME NEW pg, \A e \in Entries : pg.given[e] = 0, pg.trusted => pg.cursor = 0,
         pg.base = 0, NEW act, Wanted \subseteq Entries
  PROVE  NoStream \in Streams /\ Flow(NoStream, <<>>) /\ Serves(NoStream, pg, <<>>, act)
<1>1. /\ ~NoStream.open /\ ~NoStream.reset /\ NoStream.out = <<>> /\ NoStream.chan = <<>>
      /\ NoStream.lastSeq = 0
  BY NoStreamType
<1>2. NoStream \in Streams
  BY NoStreamType
<1>3. Len(<<>>) = 0 /\ <<>> \in Seq(Entries) /\ 0 + 0 <= 0
  OBVIOUS
<1>4. \A e : NewestIn(<<>>, e) = 0
  <2> TAKE e
  <2>1. NewestIn(<<>>, e) \in 0..Len(<<>>)
    BY <1>3, NewestLemma, Zenon
  <2>2. NewestIn(<<>>, e) \in 0..0
    BY <1>3, <2>1, Zenon
  <2> QED  BY <2>2
<1>5. Flow(NoStream, <<>>)
  <2>1. \A i \in 1..0 : FALSE
    OBVIOUS
  <2> QED  BY <1>1, <1>3, <2>1 DEF Flow
<1>6. Honest(NoStream, pg, <<>>) /\ Covered(NoStream, pg, <<>>, act)
  BY <1>1, <1>3, <1>4 DEF Honest, Covered, Settled
<1> QED  BY <1>1, <1>2, <1>5, <1>6 DEF Serves, InOrder, Complete, Resets, Announced

-------------------------------------------------------------------------------
(* The steps *)

\* The first broker, and pages that have not connected.
LEMMA InitInvariant == Init => IInv
<1> SUFFICES ASSUME Init PROVE IInv
  OBVIOUS
<1>1. /\ nextSeq = 0 /\ events = <<>> /\ head = 0 /\ active = [e \in Entries |-> 0]
      /\ subscribers = {} /\ closed = FALSE /\ closing = {} /\ log = <<>>
      /\ stream = [c \in Clients |-> NoStream] /\ client = [c \in Clients |-> Page]
  BY DEF Init, EmptyBroker
<1>2. /\ Page \in Pages /\ \A e \in Entries : Page.given[e] = 0
      /\ Page.cursor = 0 /\ Page.base = 0
  BY DEF Page, Pages
<1>3. NoStream \in Streams /\ Flow(NoStream, <<>>) /\ Serves(NoStream, Page, <<>>, active)
      /\ NoStream.shut = 0
  <2>1. NoStream.shut = 0
    BY DEF NoStream
  <2> QED  BY <1>2, <2>1, EmptyLemma, SizesAssumption
<1>4. TypeOK
  <2>1. <<>> \in Seq(Events) /\ <<>> \in Seq(Entries)
    OBVIOUS
  <2> QED  BY <1>1, <1>2, <1>3, <2>1 DEF TypeOK
<1>5. Ring
  <2>1. Capacity \in Nat \ {0} /\ Len(<<>>) = 0
    BY SizesAssumption DEF Capacity
  <2> QED  BY <1>1, <2>1 DEF Ring
<1>6. Current /\ Owned /\ Fed
  BY <1>1, <1>3 DEF Current, Owned, Fed
<1> QED  BY <1>4, <1>5, <1>6 DEF IInv

\* The ring has room for an event.
LEMMA CapacityType == Capacity \in Nat \ {0}
  BY SizesAssumption DEF Capacity

\* The slot of the i-th event of n in publish order, when the oldest is at h.
Slot(h, i, n) == 1 + IF h + i >= n THEN h + i - n ELSE h + i

\* The events of the ring by their slots, before and after a step.
LEMMA EventAtSlot ==
  /\ head \in Nat /\ Len(events) \in Nat =>
       \A i \in Nat : EventAt(i) = events[Slot(head, i, Len(events))]
  /\ head' \in Nat /\ Len(events') \in Nat =>
       \A i \in Nat : EventAt(i)' = events'[Slot(head', i, Len(events'))]
  BY SMT DEF EventAt, Slot

\* Moving the head on by one slot renumbers the events by one.
LEMMA SlotLemma ==
  ASSUME NEW n \in Nat \ {0}, NEW h \in 0..(n - 1), NEW next \in Nat,
         (h + 1 = n /\ next = 0) \/ (h + 1 # n /\ next = h + 1)
  PROVE  /\ next < n /\ Slot(next, n - 1, n) = h + 1
         /\ \A i \in 0..(n - 2) : /\ Slot(next, i, n) = Slot(h, i + 1, n)
                                  /\ Slot(h, i + 1, n) \in 1..n
                                  /\ Slot(h, i + 1, n) # h + 1
<1>1. next < n /\ Slot(next, n - 1, n) = h + 1
  BY DEF Slot
<1>2. ASSUME NEW i \in 0..(n - 2)
      PROVE  /\ Slot(next, i, n) = Slot(h, i + 1, n) /\ Slot(h, i + 1, n) \in 1..n
             /\ Slot(h, i + 1, n) # h + 1
  <2>1. CASE h + 1 = n /\ next = 0
    <3>1. Slot(next, i, n) = i + 1
      BY <2>1 DEF Slot
    <3>2. Slot(h, i + 1, n) = i + 1
      BY <2>1 DEF Slot
    <3> QED  BY <2>1, <3>1, <3>2
  <2>2. CASE h + 1 # n /\ next = h + 1
    <3>1. CASE h + 1 + i >= n
      <4>1. Slot(next, i, n) = h + 1 + i - n + 1
        BY <2>2, <3>1 DEF Slot
      <4>2. Slot(h, i + 1, n) = h + 1 + i - n + 1
        BY <2>2, <3>1 DEF Slot
      <4> QED  BY <3>1, <4>1, <4>2
    <3>2. CASE ~(h + 1 + i >= n)
      <4>1. Slot(next, i, n) = h + 1 + i + 1
        BY <2>2, <3>2 DEF Slot
      <4>2. Slot(h, i + 1, n) = h + 1 + i + 1
        BY <2>2, <3>2 DEF Slot
      <4> QED  BY <3>2, <4>1, <4>2
    <3> QED  BY <3>1, <3>2
  <2> QED  BY <2>1, <2>2
<1> QED  BY <1>1, <1>2

\* A sequence with one element replaced.
LEMMA ReplaceLemma ==
  ASSUME NEW T, NEW q \in Seq(T), NEW k \in 1..Len(q), NEW x \in T
  PROVE  LET r == [q EXCEPT ![k] = x]
         IN /\ r \in Seq(T) /\ Len(r) = Len(q) /\ r[k] = x
            /\ \A i \in 1..Len(q) : i # k => r[i] = q[i]
  OBVIOUS

\* A sequence with one element more.
LEMMA AppendLemma ==
  ASSUME NEW T, NEW q \in Seq(T), NEW x \in T
  PROVE  LET r == Append(q, x)
         IN /\ r \in Seq(T) /\ Len(r) = Len(q) + 1 /\ r[Len(q) + 1] = x
            /\ \A i \in 1..Len(q) : r[i] = q[i]
  OBVIOUS

\* A new event takes the place of the oldest once the ring is full.
LEMMA RingOfNext ==
  ASSUME TypeOK, Ring, NEW e \in Entries, NEW ends \in BOOLEAN, Publish(e, ends)
  PROVE  Ring' /\ events' \in Seq(Events) /\ head' \in Nat
<1> DEFINE event == [type |-> "event", seq |-> nextSeq + 1, entry |-> e]
           n == Len(events)
<1>1. /\ n \in Nat /\ nextSeq \in Nat /\ head \in Nat /\ events \in Seq(Events)
      /\ Len(log) = nextSeq /\ log \in Seq(Entries) /\ n <= Capacity /\ n <= nextSeq
      /\ Capacity \in Nat \ {0} /\ event \in Events
  BY CapacityType DEF TypeOK, Ring, Events
<1>2. /\ nextSeq' = nextSeq + 1 /\ log' = Append(log, e)
      /\ n < Capacity => events' = Append(events, event) /\ head' = head
      /\ ~(n < Capacity) => /\ events' = [events EXCEPT ![head + 1] = event]
                            /\ head' = IF head + 1 = n THEN 0 ELSE head + 1
  BY DEF Publish
<1>3. /\ Len(log') = nextSeq' /\ EventOf(log', nextSeq + 1) = event
      /\ \A s \in 1..nextSeq : EventOf(log', s) = EventOf(log, s)
  BY <1>1, <1>2, EventOfNext DEF EventOf
<1>4. \A i \in 0..(n - 1) : events[Slot(head, i, n)] = EventOf(log', nextSeq - n + 1 + i)
  <2> TAKE i \in 0..(n - 1)
  <2>1. EventAt(i) = EventOf(log, nextSeq - n + 1 + i)
    BY DEF Ring
  <2>2. nextSeq - n + 1 + i \in 1..nextSeq
    BY <1>1
  <2>3. EventAt(i) = events[Slot(head, i, n)]
    <3>1. i \in Nat
      BY <1>1
    <3> QED  BY <1>1, <3>1, EventAtSlot
  <2> QED  BY <1>3, <2>1, <2>2, <2>3
<1> HIDE DEF event, n
<1>5. CASE n < Capacity
  <2>1. /\ events' \in Seq(Events) /\ Len(events') = n + 1 /\ events'[n + 1] = event
        /\ \A k \in 1..n : events'[k] = events[k]
    <3>1. events' = Append(events, event)
      BY <1>2, <1>5
    <3> QED  BY <1>1, <3>1, AppendLemma DEF n
  <2>2. head = 0 /\ head' = 0
    BY <1>2, <1>5 DEF Ring, n
  <2>3. ASSUME NEW i \in 0..n
        PROVE  events'[Slot(0, i, n + 1)] = EventOf(log', nextSeq - n + 1 + i)
    <3>1. Slot(0, i, n + 1) = i + 1
      BY <1>1 DEF Slot
    <3>2. CASE i = n
      <4>1. nextSeq - n + 1 + i = nextSeq + 1
        BY <1>1, <3>2
      <4> QED  BY <1>3, <2>1, <3>1, <3>2, <4>1
    <3>3. CASE i # n
      <4>1. i \in 0..(n - 1) /\ i + 1 \in 1..n /\ Slot(0, i, n) = i + 1
        BY <1>1, <3>3 DEF Slot
      <4> QED  BY <1>4, <2>1, <2>2, <3>1, <4>1
    <3> QED  BY <3>2, <3>3
  <2>4. \A i \in 0..(Len(events') - 1) :
          EventAt(i)' = EventOf(log', nextSeq' - Len(events') + 1 + i)
    <3> TAKE i \in 0..(Len(events') - 1)
    <3>1. i \in 0..n /\ nextSeq' - Len(events') + 1 + i = nextSeq - n + 1 + i
      BY <1>1, <1>2, <2>1
    <3>2. EventAt(i)' = events'[Slot(0, i, n + 1)]
      <4>1. i \in Nat /\ head' \in Nat /\ Len(events') \in Nat
        BY <1>1, <2>1, <2>2, <3>1
      <4> QED  BY <2>1, <2>2, <4>1, EventAtSlot
    <3> QED  BY <2>3, <3>1, <3>2
  <2>5. /\ Len(events') <= Capacity /\ Len(events') <= nextSeq' /\ events' # <<>>
        /\ head' < Len(events')
    BY <1>1, <1>2, <1>5, <2>1, <2>2
  <2> QED  BY <1>3, <2>1, <2>2, <2>4, <2>5 DEF Ring, Capacity
<1>6. CASE ~(n < Capacity)
  <2>1. n = Capacity /\ head < n /\ head + 1 \in 1..n
    BY <1>1, <1>6 DEF Ring, n
  <2>2. /\ events' \in Seq(Events) /\ Len(events') = n /\ events'[head + 1] = event
        /\ \A k \in 1..n : k # head + 1 => events'[k] = events[k]
    <3>1. events' = [events EXCEPT ![head + 1] = event]
      BY <1>2, <1>6
    <3>2. head + 1 \in 1..Len(events)
      BY <2>1 DEF n
    <3> QED  BY <1>1, <3>1, <3>2, ReplaceLemma DEF n
  <2>3. /\ head' \in Nat /\ head' < n /\ Slot(head', n - 1, n) = head + 1
        /\ \A i \in 0..(n - 2) : /\ Slot(head', i, n) = Slot(head, i + 1, n)
                                 /\ Slot(head, i + 1, n) \in 1..n
                                 /\ Slot(head, i + 1, n) # head + 1
    <3>1. head' \in Nat /\ ((head + 1 = n /\ head' = 0) \/ (head + 1 # n /\ head' = head + 1))
      <4>1. head' = IF head + 1 = n THEN 0 ELSE head + 1
        BY <1>2, <1>6, Zenon
      <4>2. head \in Nat /\ head + 1 \in Nat /\ 0 \in Nat
        BY <1>1
      <4>3. CASE head + 1 = n
        BY <4>1, <4>2, <4>3, Zenon
      <4>4. CASE head + 1 # n
        BY <4>1, <4>2, <4>4, Zenon
      <4> QED  BY <4>3, <4>4
    <3>2. n \in Nat \ {0} /\ head \in 0..(n - 1)
      BY <1>1, <2>1
    <3> QED  BY <3>1, <3>2, SlotLemma
  <2>4. ASSUME NEW i \in 0..(n - 1)
        PROVE  events'[Slot(head', i, n)] = EventOf(log', nextSeq - n + 2 + i)
    <3>1. CASE i = n - 1
      <4>1. Slot(head', i, n) = head + 1 /\ nextSeq - n + 2 + i = nextSeq + 1
        BY <1>1, <2>3, <3>1
      <4> QED  BY <1>3, <2>2, <4>1
    <3>2. CASE i # n - 1
      <4>0. /\ i + 1 \in 0..(n - 1) /\ nextSeq - n + 1 + (i + 1) = nextSeq - n + 2 + i
            /\ i \in 0..(n - 2)
        BY <1>1, <3>2
      <4>1. /\ Slot(head', i, n) = Slot(head, i + 1, n) /\ Slot(head, i + 1, n) \in 1..n
            /\ Slot(head, i + 1, n) # head + 1
        BY <2>3, <4>0
      <4>2. events[Slot(head, i + 1, n)] = EventOf(log', nextSeq - n + 2 + i)
        BY <1>4, <4>0
      <4> QED  BY <2>2, <4>1, <4>2
    <3> QED  BY <3>1, <3>2
  <2>5. \A i \in 0..(Len(events') - 1) :
          EventAt(i)' = EventOf(log', nextSeq' - Len(events') + 1 + i)
    <3> TAKE i \in 0..(Len(events') - 1)
    <3>1. i \in 0..(n - 1) /\ nextSeq' - Len(events') + 1 + i = nextSeq - n + 2 + i
      BY <1>1, <1>2, <2>2
    <3>2. EventAt(i)' = events'[Slot(head', i, n)]
      <4>1. i \in Nat /\ Len(events') \in Nat
        BY <1>1, <2>2, <3>1
      <4> QED  BY <2>2, <2>3, <4>1, EventAtSlot
    <3> QED  BY <2>4, <3>1, <3>2
  <2>6. Len(events') <= Capacity /\ Len(events') <= nextSeq' /\ events' # <<>>
    BY <1>1, <1>2, <2>1, <2>2
  <2> QED  BY <1>3, <2>1, <2>2, <2>3, <2>5, <2>6 DEF Ring, Capacity
<1> QED  BY <1>5, <1>6

\* Publishing: snapshot, ring and fan-out in one critical section.
LEMMA PublishInvariant ==
  ASSUME IInv, NEW e \in Entries, NEW ends \in BOOLEAN, Publish(e, ends)
  PROVE  IInv'
<1> DEFINE event == [type |-> "event", seq |-> nextSeq + 1, entry |-> e]
           v == IF ends THEN 0 ELSE event.seq
<1>1. /\ TypeOK /\ Ring /\ Current /\ Owned /\ Fed
      /\ nextSeq \in Nat /\ log \in Seq(Entries) /\ Len(log) = nextSeq
      /\ active \in [Entries -> Nat] /\ stream \in [Clients -> Streams]
      /\ client \in [Clients -> Pages] /\ subscribers \subseteq Clients
  BY DEF IInv, TypeOK, Ring
<1>2. /\ ~closed /\ nextSeq' = nextSeq + 1 /\ log' = Append(log, e)
      /\ active' = [active EXCEPT ![e] = v]
      /\ subscribers' = {c \in subscribers : Len(stream[c].chan) < SubscriberBuffer}
      /\ stream' = [c \in Clients |-> IF c \in subscribers THEN FanOut(c, event) ELSE stream[c]]
      /\ closed' = closed /\ closing' = closing /\ client' = client
  BY DEF Publish
<1>3. /\ event \in Events /\ v \in {0, nextSeq + 1} /\ v \in Nat
      /\ event = EventOf(log', nextSeq + 1)
      /\ log' \in Seq(Entries) /\ Len(log') = nextSeq + 1
  <2>1. log'[nextSeq + 1] = e
    BY <1>1, <1>2
  <2> QED  BY <1>1, <1>2, <2>1 DEF Events, EventOf
<1> HIDE DEF event, v
<1>4. Ring' /\ events' \in Seq(Events) /\ head' \in Nat
  BY <1>1, RingOfNext
<1>5. Current'
  <2> SUFFICES ASSUME NEW x \in Entries PROVE active'[x] \in {0, NewestIn(log', x)}
    BY DEF Current, NewestIn
  <2>1. CASE x = e
    BY <1>1, <1>2, <1>3, <2>1, NewestOfNext
  <2>2. CASE x # e
    <3>1. active'[x] = active[x] /\ NewestIn(log', x) = NewestIn(log, x)
      BY <1>1, <1>2, <2>2, NewestOfNext
    <3> QED  BY <1>1, <3>1 DEF Current
  <2> QED  BY <2>1, <2>2
\* What becomes of each stream.
<1>6. ASSUME NEW c \in Clients
      PROVE  /\ stream'[c] \in Streams /\ Flow(stream'[c], log')
             /\ Serves(stream'[c], client'[c], log', active')
             /\ stream'[c].open = stream[c].open
             /\ c \in subscribers' => /\ stream'[c].lastSeq + Len(stream'[c].chan) = nextSeq'
                                      /\ stream'[c].shut = stream[c].shut
             /\ c \in subscribers /\ c \notin subscribers' => stream'[c].shut = stream[c].shut + 1
             /\ c \notin subscribers => stream'[c].shut = stream[c].shut
  <2> DEFINE st == stream[c]
             pg == client[c]
  <2>1. /\ st \in Streams /\ pg \in Pages /\ Flow(st, log) /\ Serves(st, pg, log, active)
        /\ c \in subscribers => st.lastSeq + Len(st.chan) = nextSeq
    BY <1>1 DEF Fed
  <2>2. /\ stream'[c] = IF c \in subscribers THEN FanOut(c, event) ELSE st
        /\ client'[c] = pg
        /\ FanOut(c, event) = IF Len(st.chan) < SubscriberBuffer
                              THEN [st EXCEPT !.chan = Append(@, event)]
                              ELSE [st EXCEPT !.shut = @ + 1]
        /\ c \in subscribers' <=> c \in subscribers /\ Len(st.chan) < SubscriberBuffer
    BY <1>2 DEF FanOut
  <2> HIDE DEF st, pg
  <2>3. Flow(st, log') /\ Serves(st, pg, log', active')
    BY <1>1, <1>2, <2>1, FlowOfNext, ServesOfNext, SizesAssumption
  <2>4. CASE c \notin subscribers
    BY <2>1, <2>2, <2>3, <2>4 DEF st
  <2>5. CASE c \in subscribers'
    <3> DEFINE st2 == [st EXCEPT !.chan = Append(@, event)]
    <3>1. stream'[c] = st2 /\ c \in subscribers
      BY <2>2, <2>5
    <3>2. /\ st.lastSeq + Len(st.chan) + 1 <= Len(log')
          /\ event = EventOf(log', st.lastSeq + Len(st.chan) + 1)
          /\ st.lastSeq + Len(st.chan) + 1 = nextSeq'
      BY <1>1, <1>2, <1>3, <2>1, <3>1
    <3>3. /\ st2 \in Streams /\ Flow(st2, log') /\ Serves(st2, pg, log', active')
          /\ st2.shut = st.shut /\ st2.open = st.open
          /\ st2.lastSeq + Len(st2.chan) = st.lastSeq + Len(st.chan) + 1
      <4>1. /\ st \in Streams /\ log' \in Seq(Entries) /\ event \in Events
            /\ Flow(st, log') /\ Serves(st, pg, log', active')
        BY <1>3, <2>1, <2>3
      <4> QED  BY <3>2, <4>1, QueueLemma, Zenon
    <3> HIDE DEF st2
    <3> QED  BY <2>2, <2>5, <3>1, <3>2, <3>3 DEF st
  <2>6. CASE c \in subscribers /\ c \notin subscribers'
    <3> DEFINE st2 == [st EXCEPT !.shut = @ + 1]
    <3>1. stream'[c] = st2
      BY <2>2, <2>6
    <3>2. /\ st2 \in Streams /\ Flow(st2, log') /\ Serves(st2, pg, log', active')
          /\ st2.shut = st.shut + 1 /\ st2.open = st.open
      BY <2>1, <2>3, ShutLemma
    <3> HIDE DEF st2
    <3> QED  BY <2>2, <2>6, <3>1, <3>2 DEF st
  <2> QED  BY <2>2, <2>4, <2>5, <2>6
<1>7. Fed'
  BY <1>6 DEF Fed
<1>8. TypeOK'
  <2>1. stream' \in [Clients -> Streams]
    BY <1>2, <1>6
  <2>2. active' \in [Entries -> Nat] /\ nextSeq' \in Nat /\ subscribers' \subseteq Clients
    BY <1>1, <1>2, <1>3
  <2> QED  BY <1>1, <1>2, <1>3, <1>4, <2>1, <2>2 DEF TypeOK
<1>9. Owned'
  <2>1. closing' = {} /\ ~closed' /\ subscribers' \subseteq subscribers
    BY <1>1, <1>2 DEF Owned
  <2>2. \A c \in Clients : /\ stream'[c].shut <= 1
                           /\ c \in subscribers' => stream'[c].shut = 0 /\ stream'[c].open
    <3> TAKE c \in Clients
    <3>1. /\ stream[c].shut <= 1 /\ stream[c].shut \in Nat
          /\ c \in subscribers => stream[c].shut = 0 /\ stream[c].open
      BY <1>1 DEF Owned, Streams
    <3> QED  BY <1>6, <2>1, <3>1
  <2> QED  BY <2>1, <2>2 DEF Owned
<1> QED  BY <1>4, <1>5, <1>7, <1>8, <1>9 DEF IInv

\* The log and the ring stay as they are, and one stream and its page change.
LEMMA OneStream ==
  ASSUME IInv, UNCHANGED <<nextSeq, events, head, active, log>>, NEW c \in Clients,
         NEW st \in Streams, NEW pg \in Pages,
         stream' = [stream EXCEPT ![c] = st], client' = [client EXCEPT ![c] = pg],
         Flow(st, log), Serves(st, pg, log, active),
         subscribers' \subseteq subscribers \union {c}, closing' \subseteq closing,
         closed' \in BOOLEAN,
         c \in subscribers' => st.lastSeq + Len(st.chan) = nextSeq,
         Owned'
  PROVE  IInv'
<1>1. TypeOK /\ Ring /\ Current /\ Fed
  BY DEF IInv
<1>2. TypeOK'
  BY <1>1 DEF TypeOK
<1>3. Ring'
  BY <1>1 DEF Ring, EventAt
<1>4. Current'
  BY <1>1 DEF Current, NewestIn
<1>5. Fed'
  <2> SUFFICES ASSUME NEW d \in Clients
               PROVE  /\ Flow(stream'[d], log)
                      /\ d \in subscribers' => stream'[d].lastSeq + Len(stream'[d].chan) = nextSeq
                      /\ Serves(stream'[d], client'[d], log, active)
    BY DEF Fed
  <2>1. CASE d = c
    <3>1. stream'[d] = st /\ client'[d] = pg
      BY <1>1, <2>1 DEF TypeOK
    <3> QED  BY <2>1, <3>1
  <2>2. CASE d # c
    <3>1. stream'[d] = stream[d] /\ client'[d] = client[d]
      BY <1>1, <2>2 DEF TypeOK
    <3> QED  BY <1>1, <2>2, <3>1 DEF Fed
  <2> QED  BY <2>1, <2>2
<1> QED  BY <1>2, <1>3, <1>4, <1>5 DEF IInv

\* What holds of one stream and its page.
LEMMA OfStream ==
  ASSUME IInv, NEW c \in Clients
  PROVE  /\ stream[c] \in Streams /\ client[c] \in Pages /\ Flow(stream[c], log)
         /\ Serves(stream[c], client[c], log, active)
         /\ c \in subscribers => stream[c].lastSeq + Len(stream[c].chan) = nextSeq
         /\ stream \in [Clients -> Streams] /\ client \in [Clients -> Pages]
         /\ log \in Seq(Entries) /\ closed \in BOOLEAN
  BY DEF IInv, TypeOK, Fed

\* A step of a handler that leaves the subscriptions alone, the channel unclosed
\* and an open stream open.
LEMMA HandlerStep ==
  ASSUME IInv, UNCHANGED broker, NEW c \in Clients, NEW st \in Streams, NEW pg \in Pages,
         stream' = [stream EXCEPT ![c] = st], client' = [client EXCEPT ![c] = pg],
         Flow(st, log), Serves(st, pg, log, active), st.shut = stream[c].shut,
         c \in subscribers => st.open /\ st.lastSeq + Len(st.chan) = nextSeq
  PROVE  IInv'
<1>1. /\ UNCHANGED <<nextSeq, events, head, active, log>> /\ subscribers' = subscribers
      /\ closing' = closing /\ closed' = closed
  BY DEF broker
<1>2. Owned'
  <2> SUFFICES ASSUME NEW d \in Clients
               PROVE  /\ stream'[d].shut <= 1
                      /\ d \in subscribers \union closing => stream'[d].shut = 0
                      /\ d \in subscribers => stream'[d].open
    BY <1>1 DEF IInv, Owned
  <2>1. CASE d = c
    <3>1. stream'[d] = st
      BY <2>1, OfStream
    <3> QED  BY <2>1, <3>1 DEF IInv, Owned
  <2>2. CASE d # c
    <3>1. stream'[d] = stream[d]
      BY <2>2, OfStream
    <3> QED  BY <3>1 DEF IInv, Owned
  <2> QED  BY <2>1, <2>2
<1>3. closed' \in BOOLEAN
  BY <1>1, OfStream
<1> QED  BY <1>1, <1>2, <1>3, OneStream

\* The heartbeat.
LEMMA BeatInvariant ==
  ASSUME IInv, NEW c \in Clients, Beat(c)
  PROVE  IInv'
<1> DEFINE st == stream[c]
           st2 == [st EXCEPT !.out = <<[type |-> "heartbeat", seq |-> st.lastSeq]>>]
<1>1. /\ st.open /\ st.out = <<>> /\ stream' = [stream EXCEPT ![c] = st2]
      /\ UNCHANGED broker /\ client' = [client EXCEPT ![c] = client[c]]
  BY OfStream DEF Beat
<1>2. /\ st \in Streams /\ client[c] \in Pages /\ log \in Seq(Entries) /\ Flow(st, log)
      /\ Serves(st, client[c], log, active)
      /\ c \in subscribers => st.lastSeq + Len(st.chan) = nextSeq
  BY OfStream
<1> HIDE DEF st
<1>3. /\ st2 \in Streams /\ Flow(st2, log) /\ Serves(st2, client[c], log, active)
      /\ st2.lastSeq = st.lastSeq /\ st2.chan = st.chan /\ st2.shut = st.shut /\ st2.open
  BY <1>1, <1>2, BeatLemma
<1> HIDE DEF st2
<1> QED  BY <1>1, <1>2, <1>3, HandlerStep DEF st

\* The next event of the channel.
LEMMA ForwardInvariant ==
  ASSUME IInv, NEW c \in Clients, Forward(c)
  PROVE  IInv'
<1> DEFINE st == stream[c]
           st2 == Forwarded(st)
<1>1. /\ st.open /\ st.out = <<>> /\ st.chan # <<>> /\ stream' = [stream EXCEPT ![c] = st2]
      /\ UNCHANGED broker /\ client' = [client EXCEPT ![c] = client[c]]
  BY OfStream DEF Forward, Forwarded
<1>2. /\ st \in Streams /\ client[c] \in Pages /\ log \in Seq(Entries) /\ Flow(st, log)
      /\ Serves(st, client[c], log, active)
      /\ c \in subscribers => st.lastSeq + Len(st.chan) = nextSeq
  BY OfStream
<1> HIDE DEF st
<1>3. /\ st2 \in Streams /\ Flow(st2, log) /\ Serves(st2, client[c], log, active) /\ st2.open
      /\ st2.lastSeq + Len(st2.chan) = st.lastSeq + Len(st.chan) /\ st2.shut = st.shut
  BY <1>1, <1>2, ForwardLemma, SizesAssumption
<1> HIDE DEF st2
<1> QED  BY <1>1, <1>2, <1>3, HandlerStep DEF st

\* The handler of a drained, closed channel returns.
LEMMA EndOfStreamInvariant ==
  ASSUME IInv, NEW c \in Clients, EndOfStream(c)
  PROVE  IInv'
<1> DEFINE st == stream[c]
           st2 == [st EXCEPT !.open = FALSE]
<1>1. /\ st.open /\ st.out = <<>> /\ st.shut > 0 /\ stream' = [stream EXCEPT ![c] = st2]
      /\ UNCHANGED broker /\ client' = [client EXCEPT ![c] = client[c]]
  BY OfStream DEF EndOfStream
<1>2. /\ st \in Streams /\ client[c] \in Pages /\ log \in Seq(Entries) /\ Flow(st, log)
      /\ Serves(st, client[c], log, active)
  BY OfStream
<1>3. c \notin subscribers
  BY <1>1 DEF IInv, Owned
<1> HIDE DEF st
<1>4. /\ st2 \in Streams /\ Flow(st2, log) /\ Serves(st2, client[c], log, active)
      /\ st2.shut = st.shut
  BY <1>1, <1>2, EndLemma
<1> HIDE DEF st2
<1> QED  BY <1>1, <1>2, <1>3, <1>4, HandlerStep DEF st

\* The dashboard reads a message.
LEMMA DeliverInvariant ==
  ASSUME IInv, NEW c \in Clients, Deliver(c)
  PROVE  IInv'
<1> DEFINE st  == stream[c]
           pg  == client[c]
           st2 == Shortened(st)
           pg2 == Informed(st, pg)
<1>1. /\ st.open /\ st.out # <<>> /\ stream' = [stream EXCEPT ![c] = st2]
      /\ UNCHANGED broker
  BY DEF Deliver, Shortened
<1>2. client' = [client EXCEPT ![c] = pg2]
  BY DEF Deliver, Informed, Given
<1>3. /\ st \in Streams /\ pg \in Pages /\ log \in Seq(Entries) /\ Flow(st, log)
      /\ Serves(st, pg, log, active)
      /\ c \in subscribers => st.lastSeq + Len(st.chan) = nextSeq
  BY OfStream
<1> HIDE DEF st, pg
<1>4. /\ st2 \in Streams /\ pg2 \in Pages /\ Flow(st2, log) /\ Serves(st2, pg2, log, active)
      /\ st2.open /\ st2.lastSeq = st.lastSeq /\ st2.chan = st.chan /\ st2.shut = st.shut
  BY <1>1, <1>3, DeliverLemma, SizesAssumption
<1> HIDE DEF st2, pg2
<1> QED  BY <1>1, <1>2, <1>3, <1>4, HandlerStep DEF st

\* A dashboard connects: it was not subscribed, and Close has not run.
LEMMA ConnectInvariant ==
  ASSUME IInv, NEW c \in Clients, Connect(c)
  PROVE  IInv'
<1> DEFINE old == stream[c]
           pg  == client[c]
           st  == Opened(pg.cursor)
           new == Joined(pg)
<1>1. /\ ~closed /\ ~old.open /\ subscribers' = subscribers \union {c}
      /\ UNCHANGED <<nextSeq, events, head, active, closed, closing, log>>
  BY DEF Connect
<1>2. client' = [client EXCEPT ![c] = new]
  BY Zenon DEF Connect, Joined
<1>3. stream' = [stream EXCEPT ![c] = st]
  BY Zenon DEF Connect, Greeting, Opened
<1>4. /\ old \in Streams /\ pg \in Pages /\ Flow(old, log) /\ Serves(old, pg, log, active)
      /\ TypeOK /\ Ring /\ Current /\ Owned
  BY OfStream DEF IInv
<1> HIDE DEF old, pg
<1>5. /\ st \in Streams /\ new \in Pages /\ Flow(st, log) /\ Serves(st, new, log, active)
      /\ st.lastSeq + Len(st.chan) = nextSeq /\ st.shut = 0 /\ st.open
  BY <1>1, <1>4, ConnectLemma, SizesAssumption
<1> HIDE DEF st, new
<1>6. Owned'
  <2> SUFFICES ASSUME NEW d \in Clients
               PROVE  /\ stream'[d].shut <= 1
                      /\ d \in subscribers' => stream'[d].shut = 0 /\ stream'[d].open
    BY <1>1, <1>4 DEF Owned
  <2>1. CASE d = c
    BY <1>3, <1>5, <2>1, OfStream
  <2>2. CASE d # c
    <3>1. stream'[d] = stream[d]
      BY <1>3, <2>2, OfStream
    <3> QED  BY <1>1, <1>4, <2>2, <3>1 DEF Owned
  <2> QED  BY <2>1, <2>2
<1>7. /\ closed' \in BOOLEAN /\ closing' \subseteq closing
      /\ subscribers' \subseteq subscribers \union {c}
      /\ UNCHANGED <<nextSeq, events, head, active, log>>
  BY <1>1, OfStream
<1> QED  BY <1>2, <1>3, <1>5, <1>6, <1>7, OneStream

\* A connection breaks: the handler closes its channel if it is still in the map.
LEMMA DisconnectInvariant ==
  ASSUME IInv, NEW c \in Clients, Disconnect(c)
  PROVE  IInv'
<1> DEFINE st   == stream[c]
           pg   == client[c]
           shut == st.shut + IF c \in subscribers THEN 1 ELSE 0
           st2  == Dropped(shut)
           pg2  == Cautious(st, pg)
<1>1. /\ st.open /\ subscribers' = subscribers \ {c}
      /\ stream' = [stream EXCEPT ![c] = st2] /\ client' = [client EXCEPT ![c] = pg2]
      /\ UNCHANGED <<nextSeq, events, head, active, closed, closing, log>>
  BY DEF Disconnect, Dropped, Cautious, Cut, ResetCutShort
<1>2. /\ st \in Streams /\ pg \in Pages /\ log \in Seq(Entries) /\ Flow(st, log)
      /\ Serves(st, pg, log, active) /\ Owned /\ st.shut \in Nat
  BY OfStream DEF IInv, Streams
<1>3. /\ shut \in Nat /\ shut <= 1 /\ (c \in closing => shut = 0)
  BY <1>2 DEF Owned
<1> HIDE DEF st, pg, shut
<1>4. /\ st2 \in Streams /\ pg2 \in Pages /\ Flow(st2, log) /\ Serves(st2, pg2, log, active)
      /\ st2.shut = shut
  BY <1>1, <1>2, <1>3, CutLemma, SizesAssumption
<1> HIDE DEF st2, pg2
<1>5. Owned'
  <2> SUFFICES ASSUME NEW d \in Clients
               PROVE  /\ stream'[d].shut <= 1
                      /\ d \in subscribers' \union closing => stream'[d].shut = 0
                      /\ d \in subscribers' => stream'[d].open
    BY <1>1, <1>2 DEF Owned
  <2>1. CASE d = c
    BY <1>1, <1>3, <1>4, <2>1, OfStream
  <2>2. CASE d # c
    <3>1. stream'[d] = stream[d]
      BY <1>1, <2>2, OfStream
    <3> QED  BY <1>1, <1>2, <3>1 DEF Owned
  <2> QED  BY <2>1, <2>2
<1>6. /\ closed' \in BOOLEAN /\ closing' \subseteq closing
      /\ subscribers' \subseteq subscribers \union {c} /\ c \notin subscribers'
      /\ UNCHANGED <<nextSeq, events, head, active, log>>
  BY <1>1, OfStream
<1> QED  BY <1>1, <1>4, <1>5, <1>6, OneStream

\* Close reaches a channel it took out of the map.
LEMMA CloseChannelInvariant ==
  ASSUME IInv, NEW c \in Clients, CloseChannel(c)
  PROVE  IInv'
<1> DEFINE st  == stream[c]
           st2 == [st EXCEPT !.shut = @ + 1]
<1>1. /\ c \in closing /\ closing' = closing \ {c}
      /\ stream' = [stream EXCEPT ![c] = st2] /\ client' = [client EXCEPT ![c] = client[c]]
      /\ UNCHANGED <<nextSeq, events, head, active, log, subscribers, closed>>
  BY OfStream DEF CloseChannel
<1>2. /\ st \in Streams /\ client[c] \in Pages /\ Flow(st, log)
      /\ Serves(st, client[c], log, active) /\ Owned /\ st.shut = 0
      /\ closed /\ subscribers = {}
  BY <1>1, OfStream DEF IInv, Owned
<1> HIDE DEF st
<1>3. /\ st2 \in Streams /\ Flow(st2, log) /\ Serves(st2, client[c], log, active)
      /\ st2.shut = st.shut + 1
  BY <1>2, ShutLemma
<1> HIDE DEF st2
<1>4. Owned'
  <2> SUFFICES ASSUME NEW d \in Clients
               PROVE  /\ stream'[d].shut <= 1
                      /\ d \in closing' => stream'[d].shut = 0
    BY <1>1, <1>2 DEF Owned
  <2>1. CASE d = c
    <3>1. stream'[d] = st2
      BY <1>1, <2>1, OfStream
    <3> QED  BY <1>1, <1>2, <1>3, <2>1, <3>1
  <2>2. CASE d # c
    <3>1. stream'[d] = stream[d]
      BY <1>1, <2>2, OfStream
    <3> QED  BY <1>1, <1>2, <3>1 DEF Owned
  <2> QED  BY <2>1, <2>2
<1>5. /\ closed' \in BOOLEAN /\ closing' \subseteq closing
      /\ subscribers' \subseteq subscribers \union {c} /\ c \notin subscribers'
      /\ UNCHANGED <<nextSeq, events, head, active, log>>
  BY <1>1, <1>2, OfStream
<1> QED  BY <1>1, <1>2, <1>3, <1>4, <1>5, OneStream

\* Close takes the map.
LEMMA CloseInvariant ==
  ASSUME IInv, Close
  PROVE  IInv'
<1>1. /\ ~closed /\ closed' = TRUE /\ closing' = subscribers /\ subscribers' = {}
      /\ UNCHANGED <<nextSeq, events, head, active, log, stream, client>>
      /\ TypeOK /\ Ring /\ Current /\ Owned /\ Fed
  BY DEF Close, IInv
<1>2. TypeOK'
  BY <1>1 DEF TypeOK
<1>3. Ring' /\ Current'
  BY <1>1 DEF Ring, EventAt, Capacity, Current, NewestIn
<1>4. Owned' /\ Fed'
  BY <1>1 DEF Owned, Fed
<1> QED  BY <1>2, <1>3, <1>4 DEF IInv

\* A new broker starts from nothing, and only a page without a cursor is trusted.
LEMMA RestartInvariant ==
  ASSUME IInv, Restart
  PROVE  IInv'
<1>1. /\ nextSeq' = 0 /\ events' = <<>> /\ head' = 0 /\ log' = <<>>
      /\ active' = [e \in Entries |-> 0]
      /\ subscribers' = {} /\ closed' = FALSE /\ closing' = {}
      /\ stream' = [c \in Clients |-> NoStream]
  BY DEF Restart
<1>0. client' = [c \in Clients |-> [Page EXCEPT !.cursor = client[c].cursor,
                                              !.trusted = (client[c].cursor = 0)]]
  BY DEF Restart
<1>2. Page \in Pages /\ Page.base = 0 /\ \A e \in Entries : Page.given[e] = 0
  BY DEF Page, Pages
<1>3. ASSUME NEW c \in Clients
      PROVE  /\ client'[c] \in Pages /\ \A e \in Entries : client'[c].given[e] = 0
             /\ client'[c].trusted => client'[c].cursor = 0
             /\ client'[c].base = 0
  <2>1. client[c].cursor \in Nat
    BY OfStream DEF Pages
  <2>2. client'[c] = [Page EXCEPT !.cursor = client[c].cursor, !.trusted = (client[c].cursor = 0)]
    BY <1>0
  <2> QED  BY <1>2, <2>1, <2>2 DEF Pages
<1>4. NoStream.shut = 0
  BY DEF NoStream
<1>5. ASSUME NEW c \in Clients
      PROVE  /\ stream'[c] \in Streams /\ Flow(stream'[c], log') /\ stream'[c].shut = 0
             /\ Serves(stream'[c], client'[c], log', active')
  <2>1. stream'[c] = NoStream
    BY <1>1
  <2>2. /\ NoStream \in Streams /\ Flow(NoStream, <<>>)
        /\ Serves(NoStream, client'[c], <<>>, active')
    BY <1>3, EmptyLemma, SizesAssumption
  <2> QED  BY <1>1, <1>4, <2>1, <2>2
<1>6. TypeOK'
  <2>1. <<>> \in Seq(Events) /\ <<>> \in Seq(Entries) /\ 0 \in Nat
    OBVIOUS
  <2>2. stream' \in [Clients -> Streams] /\ client' \in [Clients -> Pages]
    BY <1>0, <1>1, <1>3, <1>5
  <2>3. active' \in [Entries -> Nat]
    BY <1>1
  <2> QED  BY <1>1, <2>1, <2>2, <2>3 DEF TypeOK
<1>7. Ring'
  <2>1. Capacity \in Nat \ {0} /\ Len(<<>>) = 0
    BY CapacityType
  <2>2. \A i \in 0..(Len(events') - 1) : FALSE
    BY <1>1, <2>1
  <2>3. Len(log') = nextSeq' /\ Len(events') = 0 /\ ~(nextSeq' > 0) /\ head' = 0
    BY <1>1, <2>1
  <2> QED  BY <2>1, <2>2, <2>3 DEF Ring, Capacity
<1>8. Current'
  BY <1>1 DEF Current
<1>9. Owned'
  BY <1>1, <1>5 DEF Owned
<1>10. Fed'
  BY <1>1, <1>5 DEF Fed
<1> QED  BY <1>6, <1>7, <1>8, <1>9, <1>10 DEF IInv

\* Every step preserves the invariant.
LEMMA StepInvariant == IInv /\ [Next]_vars => IInv'
<1> SUFFICES ASSUME IInv, [Next]_vars PROVE IInv'
  OBVIOUS
<1>1. CASE \E e \in Entries, ends \in BOOLEAN : Publish(e, ends)
  BY <1>1, PublishInvariant
<1>2. CASE Close
  BY <1>2, CloseInvariant
<1>3. CASE Restart
  BY <1>3, RestartInvariant
<1>4. ASSUME NEW c \in Clients,
             \/ CloseChannel(c) \/ Connect(c) \/ Beat(c) \/ Forward(c) \/ Deliver(c)
             \/ EndOfStream(c) \/ Disconnect(c)
      PROVE  IInv'
  BY <1>4, CloseChannelInvariant, ConnectInvariant, BeatInvariant, ForwardInvariant,
     DeliverInvariant, EndOfStreamInvariant, DisconnectInvariant
<1>5. CASE UNCHANGED vars
  BY <1>5 DEF vars, broker, IInv, TypeOK, Ring, EventAt, Capacity, Current, NewestIn, Owned, Fed
<1> QED  BY <1>1, <1>2, <1>3, <1>4, <1>5 DEF Next

\* The invariant of the feed holds of every behaviour: the broker, the handlers and the
\* dashboards of broker.go, handler_live.go and live-logs-logic.js.
THEOREM FeedInvariance == Spec => []IInv
<1>1. Init => IInv
  BY InitInvariant
<1>2. IInv /\ [Next]_vars => IInv'
  BY StepInvariant
<1> QED  BY <1>1, <1>2, PTL DEF Spec

\* A dashboard may ask for what follows its cursor: whatever was replayed, filtered,
\* dropped or cut, it was given the newest event of every wanted entry up to there,
\* save entries that had ended when its last snapshots were taken (replayAfterLocked in
\* broker.go, the handler, the cursor of the dashboard).
THEOREM CursorIsHonest == Spec => []CursorCovers
<1>1. IInv => CursorCovers
  <2> SUFFICES ASSUME IInv, NEW c \in Clients, client[c].trusted, ~stream[c].reset
               PROVE  /\ client[c].cursor <= nextSeq
                      /\ \A e \in Wanted : Owed(c, e) /\ Newest(e) <= client[c].cursor
                                            => client[c].given[e] = Newest(e)
    BY DEF CursorCovers
  <2>1. Serves(stream[c], client[c], log, active) /\ Len(log) = nextSeq
    BY OfStream DEF IInv, Ring
  <2>2. \A e : Newest(e) = NewestIn(log, e)
    BY DEF Newest, NewestIn
  <2>3. \A e \in Wanted : NewestIn(log, e) \in Nat /\ client[c].base \in Nat
    BY OfStream, NewestLemma, SizesAssumption DEF Pages
  <2> QED  BY <2>1, <2>2, <2>3 DEF Serves, Honest, Covered, Settled, Owed
<1> QED  BY <1>1, FeedInvariance, PTL

\* No channel is closed twice, and none that is closed is sent to: Unsubscribe, the
\* drop of a slow subscriber and Close each close it only if it is still theirs.
THEOREM NoDoubleClose == Spec => []ClosedOnce
<1>1. IInv => ClosedOnce
  BY DEF IInv, Owned, ClosedOnce
<1> QED  BY <1>1, FeedInvariance, PTL

\* A page whose connection has nothing left for it has the newest event of every
\* wanted entry that the stream owes it: what it lacks is always on its way.
NothingMissed ==
  \A c \in subscribers :
    client[c].trusted /\ stream[c].chan = <<>> /\ stream[c].out = <<>>
      => \A e \in Wanted : Owed(c, e) => client[c].given[e] = Newest(e)

\* The feed loses nothing silently: subscribe registers and replays in one critical
\* section, publishEvent never skips a subscriber it keeps, and the handler's filter
\* drops only what is not wanted.  It is what CatchesUp rests on.
THEOREM QuietIsCurrent == Spec => []NothingMissed
<1>1. IInv => NothingMissed
  <2> SUFFICES ASSUME IInv, NEW c \in subscribers, client[c].trusted,
                      stream[c].chan = <<>>, stream[c].out = <<>>, NEW e \in Wanted, Owed(c, e)
               PROVE  client[c].given[e] = Newest(e)
    BY DEF NothingMissed
  <2>1. c \in Clients /\ stream[c].open /\ e \in Entries /\ Len(log) = nextSeq /\ nextSeq \in Nat
    BY SizesAssumption DEF IInv, TypeOK, Owned, Ring
  <2>2. /\ Serves(stream[c], client[c], log, active) /\ Flow(stream[c], log)
        /\ stream[c].lastSeq + Len(stream[c].chan) = nextSeq /\ stream[c] \in Streams
        /\ log \in Seq(Entries)
    BY <2>1, OfStream
  <2>3. ~stream[c].reset
    BY <2>2 DEF Flow
  <2>4. stream[c].lastSeq = Len(log)
    <3>1. stream[c].lastSeq \in Nat /\ Len(stream[c].chan) = 0
      BY <2>2 DEF Streams
    <3> QED  BY <2>1, <2>2, <3>1
  <2>5. NewestIn(log, e) <= Len(log)
    BY <2>1, <2>2, NewestLemma
  <2>6. Settled(client[c], log, e, active) \/ Reads(stream[c], log, e, Len(stream[c].out))
    BY <2>1, <2>2, <2>3, <2>4, <2>5 DEF Serves, Complete, Announced
  <2>7. ~Reads(stream[c], log, e, Len(stream[c].out))
    BY DEF Reads
  <2>8. Newest(e) = NewestIn(log, e)
    BY DEF Newest, NewestIn
  <2>9. NewestIn(log, e) \in Nat /\ client[c].base \in Nat
    BY <2>1, <2>2, NewestLemma, OfStream DEF Pages
  <2> QED  BY <2>6, <2>7, <2>8, <2>9 DEF Settled, Owed
<1> QED  BY <1>1, FeedInvariance, PTL
===============================================================================
