--------------------------- MODULE RateLimiterProofs ---------------------------
(***************************************************************************)
(* Proofs about the limiter.  First about a single counter, for every      *)
(* period, limit and schedule of calls: WindowCounter counts what a        *)
(* counter that rolls at every boundary would, two adjacent windows admit  *)
(* no double burst, and the wait a rejected caller is told is the least    *)
(* that helps.  Then about RateLimiter, for any rules, any finite set of   *)
(* requests and any clock: the gauges are exact and bounded, every counter *)
(* of a child has a deadline, the worker sleeps through none of them, and  *)
(* what it removes counts for nothing; windows admit their limit if calls  *)
(* bring the present time; Retry-After is honest for rules with one limit. *)
(***************************************************************************)
EXTENDS RateLimiter, WindowCounter, FiniteSetTheorems, WellFoundedInduction, TLAPS

-------------------------------------------------------------------------------
(* A single counter: its invariant *)

CounterTypeOK ==
  /\ counts \in {"requests", "tokens"}
  /\ time \in Nat
  /\ counter \in Window

\* The inductive invariant: a counter never begins after the clock.
CounterInv == CounterTypeOK /\ counter.start <= time /\ NoDoubleBurst

-------------------------------------------------------------------------------
(* Arithmetic *)

LEMMA ModLemma ==
  ASSUME NEW x \in Int, NEW p \in Int, p > 0
  PROVE  x % p = x - p * (x \div p)
  BY SMTT(30)

LEMMA DivisionLemma ==
  ASSUME NEW x \in Nat, NEW p \in Nat \ {0}
  PROVE  /\ x % p \in 0..(p - 1) /\ x \div p \in Nat
         /\ p * (x \div p) + (x % p) = x
         /\ p * (x \div p) <= x /\ x < p * (x \div p) + p
<1>1. x % p \in 0..(p - 1)
  OBVIOUS
<1>2. x \div p \in Nat
  <2>1. x \div p \in Int
    OBVIOUS
  <2>2. x \div p >= 0
    OBVIOUS
  <2> QED  BY <2>1, <2>2
<1>3. x % p = x - p * (x \div p)
  BY ModLemma
<1>4. p * (x \div p) \in Int
  BY <1>2
<1>5. p * (x \div p) <= x /\ x < p * (x \div p) + p
  OBVIOUS
<1>6. p * (x \div p) + (x % p) = x
  <2>1. PICK y \in Int : y = p * (x \div p)
    BY <1>4
  <2>2. x % p = x - y
    BY <1>3, <2>1
  <2> QED  BY <1>1, <2>1, <2>2
<1> QED
  BY <1>1, <1>2, <1>5, <1>6

LEMMA ProductLemma ==
  ASSUME NEW a \in Int, NEW p \in Nat, a >= 1
  PROVE  p * a >= p
  OBVIOUS

\* A number has one quotient and one remainder.
LEMMA UniqueLemma ==
  ASSUME NEW p \in Nat \ {0}, NEW a \in Int, NEW b \in Int,
         NEW m \in 0..(p - 1), NEW n \in 0..(p - 1), p * a + m = p * b + n
  PROVE  a = b /\ m = n
<1>1. p * (a - b) = n - m /\ p * (b - a) = m - n
  OBVIOUS
<1>2. ~(a - b >= 1)
  BY <1>1, ProductLemma
<1>3. ~(b - a >= 1)
  BY <1>1, ProductLemma
<1> QED
  BY <1>2, <1>3

\* The next second is in the same window, or begins the next one.
LEMMA SecondLemma ==
  ASSUME NEW t \in Nat, NEW p \in Nat \ {0}
  PROVE  IF (t + 1) % p = 0
         THEN AlignedStart(t + 1, p) = AlignedStart(t, p) + p /\ AlignedStart(t + 1, p) = t + 1
         ELSE AlignedStart(t + 1, p) = AlignedStart(t, p) /\ (t + 1) % p = (t % p) + 1
<1> DEFINE q == t \div p
           m == t % p
           Q == (t + 1) \div p
           M == (t + 1) % p
<1>1. m \in 0..(p - 1) /\ q \in Nat /\ p * q + m = t
  BY DivisionLemma
<1>2. M \in 0..(p - 1) /\ Q \in Nat /\ p * Q + M = t + 1
  <2>1. t + 1 \in Nat
    OBVIOUS
  <2> QED  BY <2>1, DivisionLemma
<1>3. AlignedStart(t, p) = t - m /\ AlignedStart(t + 1, p) = t + 1 - M
  BY DEF AlignedStart
<1> HIDE DEF q, m, Q, M
<1>4. CASE m + 1 = p
  <2>1. q + 1 \in Int /\ Q \in Int /\ 0 \in 0..(p - 1) /\ M \in 0..(p - 1)
    BY <1>1, <1>2
  <2>2. p * (q + 1) + 0 = p * Q + M
    BY <1>1, <1>2, <1>4
  <2>3. M = 0
    BY <2>1, <2>2, UniqueLemma
  <2>4. AlignedStart(t + 1, p) = t + 1 /\ AlignedStart(t, p) = t + 1 - p
    BY <1>1, <1>3, <1>4, <2>3
  <2> QED  BY <2>3, <2>4 DEF M
<1>5. CASE m + 1 # p
  <2>1. m + 1 \in 0..(p - 1) /\ M \in 0..(p - 1) /\ q \in Int /\ Q \in Int
    BY <1>1, <1>2, <1>5
  <2>2. p * q + (m + 1) = p * Q + M
    BY <1>1, <1>2
  <2>3. M = m + 1
    <3>1. PICK k \in 0..(p - 1) : k = m + 1
      BY <2>1
    <3>2. p * q + k = p * Q + M
      BY <2>2, <3>1
    <3>3. k = M
      BY <2>1, <3>2, UniqueLemma
    <3> QED  BY <3>1, <3>3
  <2>4. AlignedStart(t + 1, p) = AlignedStart(t, p) /\ M # 0
    BY <1>1, <1>3, <2>3
  <2> QED  BY <2>3, <2>4 DEF M, m
<1> QED
  BY <1>4, <1>5

-------------------------------------------------------------------------------
(* The counter as the calls see it *)

LEMMA StartLemma ==
  ASSUME NEW t \in Nat, NEW p \in Nat \ {0}
  PROVE  /\ AlignedStart(t, p) \in Nat /\ AlignedStart(t, p) <= t /\ t < AlignedStart(t, p) + p
         /\ t - AlignedStart(t, p) = t % p
  BY DivisionLemma DEF AlignedStart

LEMMA RolledLemma ==
  ASSUME CounterTypeOK
  PROVE  /\ Rolled \in Window /\ Rolled.start = AlignedStart(time, Period)
         /\ Rolled.start <= time
  BY StartLemma, WindowAssumption DEF CounterTypeOK, Rolled, Advance, Window

\* A counter that covers the time is not rolled.
LEMMA AdvanceAgain ==
  ASSUME NEW c \in Window, NEW t \in Nat, NEW p \in Nat \ {0}, c.start = AlignedStart(t, p)
  PROVE  Advance(c, t, p) = c
  BY StartLemma DEF Advance

\* A counter that has just been rolled is not rolled again.
LEMMA RolledAgain ==
  ASSUME CounterTypeOK, time' = time, counter' \in Window, counter'.start = Rolled.start
  PROVE  Rolled' = counter'
<1>1. time \in Nat /\ Period \in Nat \ {0} /\ AlignedStart(time, Period) = counter'.start
  BY RolledLemma, WindowAssumption DEF CounterTypeOK
<1>2. counter'.start \in Nat
  BY <1>1, StartLemma
<1>3. AlignedStart(time', Period') = counter'.start /\ Period' = Period
  BY <1>1
<1>4. Rolled' = Advance(counter', time', Period')
  BY DEF Rolled
<1> QED
  BY <1>1, <1>2, <1>3, <1>4, AdvanceAgain

LEMMA UsedLemma ==
  ASSUME CounterTypeOK
  PROVE  Used = Reference!Used
<1>1. /\ Rolled.start = AlignedStart(time, Period) /\ Rolled.start <= time
      /\ time < Rolled.start + Period /\ time - Rolled.start = time % Period
      /\ Rolled.start \in Nat /\ time \in Nat
  BY RolledLemma, StartLemma, WindowAssumption DEF CounterTypeOK
<1>2. Elapsed(Rolled, time, Period) = time % Period
  BY <1>1, WindowAssumption DEF Elapsed
<1> QED
  BY <1>2 DEF Used, Estimate, Reference!Used

\* Time rolls the counter as the reference rolls it, however far behind it is.
LEMMA TickLemma ==
  ASSUME CounterTypeOK, counter.start <= time, CounterTick
  PROVE  IF time' % Period = 0
         THEN Rolled'.current = 0 /\ Rolled'.previous = Rolled.current
         ELSE Rolled'.current = Rolled.current /\ Rolled'.previous = Rolled.previous
<1> DEFINE s == AlignedStart(time, Period)
           S == AlignedStart(time + 1, Period)
<1>1. /\ time' = time + 1 /\ counter' = counter /\ time \in Nat /\ counter \in Window
      /\ Period \in Nat \ {0}
  BY WindowAssumption DEF CounterTick, CounterTypeOK
<1>2. IF (time + 1) % Period = 0 THEN S = s + Period /\ S = time + 1 ELSE S = s
  BY <1>1, SecondLemma
<1>3. s \in Nat /\ S \in Nat
  <2>1. time + 1 \in Nat
    BY <1>1
  <2> QED  BY <1>1, <2>1, StartLemma
<1>4. /\ Rolled = CASE counter.start = s -> counter
                    [] counter.start = s - Period ->
                         [start |-> s, current |-> 0, previous |-> counter.current]
                    [] OTHER -> [start |-> s, current |-> 0, previous |-> 0]
      /\ Rolled' = CASE counter.start = S -> counter
                     [] counter.start = S - Period ->
                          [start |-> S, current |-> 0, previous |-> counter.current]
                     [] OTHER -> [start |-> S, current |-> 0, previous |-> 0]
  BY <1>1 DEF Rolled, Advance
<1> HIDE DEF s, S
<1>5. CASE (time + 1) % Period = 0
  <2>1. counter.start # S /\ S = s + Period
    BY <1>1, <1>2, <1>5 DEF Window
  <2>2. CASE counter.start = s
    BY <1>1, <1>3, <1>4, <1>5, <2>1, <2>2 DEF Window
  <2>3. CASE counter.start = s - Period
    BY <1>1, <1>3, <1>4, <1>5, <2>1, <2>3 DEF Window
  <2>4. CASE counter.start # s /\ counter.start # s - Period
    BY <1>1, <1>3, <1>4, <1>5, <2>1, <2>4 DEF Window
  <2> QED  BY <2>2, <2>3, <2>4
<1>6. CASE (time + 1) % Period # 0
  <2>1. S = s
    BY <1>2, <1>6
  <2>2. Rolled' = Rolled
    BY <1>4, <2>1
  <2> QED  BY <1>1, <1>6, <2>2
<1> QED
  BY <1>5, <1>6

-------------------------------------------------------------------------------
(* Usage over time *)

\* The share of the previous window shrinks as time passes.
LEMMA ShareLemma ==
  ASSUME NEW n \in Nat, NEW p \in Nat \ {0}, NEW e \in 0..(p - 1), NEW f \in 0..(p - 1), e <= f
  PROVE  /\ (n * (p - e)) \div p \in Nat
         /\ (n * (p - f)) \div p <= (n * (p - e)) \div p
<1>1. PICK a \in Nat : a = p - e
  OBVIOUS
<1>2. PICK b \in Nat : b = p - f
  OBVIOUS
<1>3. n * a \in Nat /\ n * b \in Nat /\ n * b <= n * a
  <2>1. PICK d \in Nat : d = a - b
    BY <1>1, <1>2
  <2>2. n * a = n * b + n * d /\ n * d \in Nat
    BY <2>1
  <2> QED  BY <2>2
<1>4. PICK x \in Nat : x = n * a
  BY <1>3
<1>5. PICK y \in Nat : y = n * b
  BY <1>3
<1>6. PICK i \in Nat : i = x \div p
  BY DivisionLemma
<1>7. PICK j \in Nat : j = y \div p
  BY DivisionLemma
<1>8. p * j <= y /\ y <= x /\ x < p * i + p
  BY <1>3, <1>4, <1>5, <1>6, <1>7, DivisionLemma
<1>9. j <= i
  <2> SUFFICES ASSUME j - i >= 1 PROVE FALSE
    OBVIOUS
  <2>1. p * (j - i) >= p
    BY ProductLemma
  <2>2. p * (j - i) = p * j - p * i
    OBVIOUS
  <2> QED  BY <1>8, <2>1, <2>2
<1> QED
  BY <1>1, <1>2, <1>4, <1>5, <1>6, <1>7, <1>9

LEMMA ShareType ==
  ASSUME NEW n \in Nat, NEW p \in Nat \ {0}, NEW e \in 0..(p - 1)
  PROVE  (n * (p - e)) \div p \in Nat
<1>1. e <= e
  OBVIOUS
<1> QED
  BY <1>1, ShareLemma, Zenon

\* The usage, with the counter's window spelt out.
LEMMA UsageLemma ==
  ASSUME NEW c \in Window, NEW t \in Nat, NEW p \in Nat \ {0}
  PROVE  /\ c.start = AlignedStart(t, p) =>
              UsageAt(c, t, p) = (c.previous * (p - (t % p))) \div p + c.current
         /\ c.start = AlignedStart(t, p) - p =>
              UsageAt(c, t, p) = (c.current * (p - (t % p))) \div p
         /\ c.start \notin {AlignedStart(t, p), AlignedStart(t, p) - p} => UsageAt(c, t, p) = 0
         /\ UsageAt(c, t, p) \in Nat
<1> DEFINE s == AlignedStart(t, p)
           v == Advance(c, t, p)
<1>1. s \in Nat /\ s <= t /\ t < s + p /\ t - s = t % p
  BY StartLemma
<1>2. t % p \in 0..(p - 1)
  BY DivisionLemma
<1>3. /\ v = CASE c.start = s -> c
               [] c.start = s - p -> [start |-> s, current |-> 0, previous |-> c.current]
               [] OTHER -> [start |-> s, current |-> 0, previous |-> 0]
      /\ s # s - p
  BY <1>1 DEF Advance
<1>4. UsageAt(c, t, p) = (v.previous * (p - Elapsed(v, t, p))) \div p + v.current
  BY DEF UsageAt, Estimate
<1> HIDE DEF s, v
<1>5. v \in Window /\ v.start = s
  BY <1>1, <1>3 DEF Window
<1>6. Elapsed(v, t, p) = t % p
  BY <1>1, <1>5 DEF Elapsed
<1>7. UsageAt(c, t, p) = (v.previous * (p - (t % p))) \div p + v.current
  BY <1>4, <1>6
<1>8. UsageAt(c, t, p) \in Nat
  <2>1. v.previous \in Nat /\ v.current \in Nat
    BY <1>5 DEF Window
  <2>2. (v.previous * (p - (t % p))) \div p \in Nat
    BY <1>2, <2>1, ShareType, Zenon
  <2> QED  BY <1>7, <2>1, <2>2
<1>9. CASE c.start = s
  BY <1>3, <1>7, <1>8, <1>9 DEF s
<1>10. CASE c.start = s - p
  <2>1. v.previous = c.current /\ v.current = 0 /\ c.current \in Nat
    BY <1>3, <1>10 DEF Window
  <2>2. (c.current * (p - (t % p))) \div p \in Nat
    BY <1>2, <2>1, ShareType, Zenon
  <2>3. UsageAt(c, t, p) = (c.current * (p - (t % p))) \div p
    BY <1>7, <2>1, <2>2
  <2> QED  BY <1>3, <1>8, <1>10, <2>3 DEF s
<1>11. CASE c.start \notin {s, s - p}
  <2>1. v.previous = 0 /\ v.current = 0
    BY <1>3, <1>11
  <2>2. UsageAt(c, t, p) = 0
    <3>1. 0 * (p - (t % p)) = 0 /\ 0 \div p = 0
      BY <1>2
    <3> QED  BY <1>7, <2>1, <3>1
  <2> QED  BY <1>11, <2>2 DEF s
<1> QED
  BY <1>9, <1>10, <1>11

LEMMA WholeLemma ==
  ASSUME NEW n \in Nat, NEW p \in Nat \ {0}
  PROVE  (n * p) \div p = n
<1>1. n * p \in Nat
  OBVIOUS
<1>2. PICK x \in Nat : x = n * p
  BY <1>1
<1>3. PICK q \in Nat : q = x \div p
  BY DivisionLemma
<1>4. p * q + (x % p) = p * n + 0 /\ x % p \in 0..(p - 1)
  <2>1. p * q + (x % p) = x /\ x % p \in 0..(p - 1)
    BY <1>3, DivisionLemma, Zenon
  <2>2. x = p * n + 0
    BY <1>2
  <2> QED  BY <2>1, <2>2
<1>5. q \in Int /\ n \in Int /\ 0 \in 0..(p - 1)
  OBVIOUS
<1>6. q = n
  BY <1>4, <1>5, UniqueLemma
<1> QED
  BY <1>2, <1>3, <1>6

\* A second later the usage is no higher.
LEMMA NextSecond ==
  ASSUME NEW c \in Window, NEW t \in Nat, NEW p \in Nat \ {0}, c.start <= t
  PROVE  UsageAt(c, t + 1, p) <= UsageAt(c, t, p)
<1>1. PICK u \in Nat : u = t + 1
  OBVIOUS
<1> DEFINE s == AlignedStart(t, p)
           S == AlignedStart(u, p)
           e == t % p
           E == u % p
<1>2. /\ s \in Nat /\ S \in Nat /\ e \in 0..(p - 1) /\ E \in 0..(p - 1)
      /\ c.start \in Nat /\ c.previous \in Nat /\ c.current \in Nat
  <2>1. c.start \in Nat /\ c.previous \in Nat /\ c.current \in Nat
    BY DEF Window
  <2> QED  BY <2>1, StartLemma, DivisionLemma, Zenon
<1>3. /\ UsageAt(c, t, p) \in Nat
      /\ c.start = s => UsageAt(c, t, p) = (c.previous * (p - e)) \div p + c.current
      /\ c.start = s - p => UsageAt(c, t, p) = (c.current * (p - e)) \div p
  BY UsageLemma, Zenon
<1>4. /\ UsageAt(c, u, p) \in Nat
      /\ c.start = S => UsageAt(c, u, p) = (c.previous * (p - E)) \div p + c.current
      /\ c.start = S - p => UsageAt(c, u, p) = (c.current * (p - E)) \div p
      /\ c.start \notin {S, S - p} => UsageAt(c, u, p) = 0
  BY UsageLemma, Zenon
<1>5. IF E = 0 THEN S = s + p /\ S = t + 1 ELSE S = s /\ E = e + 1
  BY <1>1, SecondLemma
<1> HIDE DEF s, S, e, E
<1>6. CASE E # 0
  <2>1. S = s /\ e <= E
    BY <1>2, <1>5, <1>6
  <2>2. /\ (c.previous * (p - E)) \div p <= (c.previous * (p - e)) \div p
        /\ (c.current * (p - E)) \div p <= (c.current * (p - e)) \div p
    BY <1>2, <2>1, ShareLemma, Zenon
  <2>3. /\ (c.previous * (p - E)) \div p \in Nat /\ (c.previous * (p - e)) \div p \in Nat
    BY <1>2, ShareType, Zenon
  <2>4. PICK i \in Nat : i = (c.previous * (p - E)) \div p
    BY <2>3, Zenon
  <2>5. PICK j \in Nat : j = (c.previous * (p - e)) \div p
    BY <2>3, Zenon
  <2>6. CASE c.start = s
    <3>1. UsageAt(c, u, p) = i + c.current /\ UsageAt(c, t, p) = j + c.current /\ i <= j
      BY <1>3, <1>4, <2>1, <2>2, <2>4, <2>5, <2>6, Zenon
    <3> QED  BY <1>1, <1>2, <3>1
  <2>7. CASE c.start = s - p
    BY <1>1, <1>3, <1>4, <2>1, <2>2, <2>7, Zenon
  <2>8. CASE c.start \notin {s, s - p}
    <3>1. UsageAt(c, u, p) = 0
      BY <1>4, <2>1, <2>8, Zenon
    <3> QED  BY <1>1, <1>3, <3>1
  <2> QED  BY <2>6, <2>7, <2>8
<1>7. CASE E = 0
  <2>1. c.start # S
    BY <1>2, <1>5, <1>7
  <2>2. CASE c.start = s
    <3>1. c.start = S - p
      BY <1>2, <1>5, <1>7, <2>2
    <3>2. UsageAt(c, u, p) = c.current
      <4>1. p - E = p
        BY <1>7
      <4> QED  BY <1>2, <1>4, <3>1, <4>1, WholeLemma
    <3>3. PICK j \in Nat : j = (c.previous * (p - e)) \div p
      BY <1>2, ShareType, Zenon
    <3>4. UsageAt(c, t, p) = j + c.current
      BY <1>3, <2>2, <3>3, Zenon
    <3> QED  BY <1>1, <1>2, <3>2, <3>4
  <2>3. CASE c.start # s
    <3>1. UsageAt(c, u, p) = 0
      BY <1>2, <1>4, <1>5, <1>7, <2>1, <2>3
    <3> QED  BY <1>1, <1>3, <3>1
  <2> QED  BY <2>2, <2>3
<1> QED
  BY <1>6, <1>7

\* A nonempty set of numbers has a least one.
LEMMA LeastLemma ==
  ASSUME NEW T \in SUBSET Nat, T # {}
  PROVE  \E t \in T : \A u \in T : t <= u
<1> DEFINE Less == {pair \in Nat \X Nat : pair[1] < pair[2]}
<1>1. IsWellFoundedOn(Less, Nat)
  BY NatLessThanWellFounded DEF OpToRel
<1>2. PICK t \in T : \A u \in T : <<u, t>> \notin Less
  <2> HIDE DEF Less
  <2> QED  BY <1>1, WFMin, Zenon
<1>3. ASSUME NEW u \in T, u < t PROVE FALSE
  <2>1. <<u, t>> \in Nat \X Nat /\ <<u, t>>[1] = u /\ <<u, t>>[2] = t
    OBVIOUS
  <2>2. <<u, t>> \in Less
    BY <1>3, <2>1
  <2> QED  BY <1>2, <2>2
<1> QED  BY <1>3

\* Absent new arrivals usage does not grow, which is what the binary search of
\* retryAfter relies on: of the later times at which it were higher the first
\* would follow a second at which it is not.
THEOREM UsageFalls ==
  ASSUME NEW c \in Window, NEW p \in Nat \ {0}, NEW t \in Nat, NEW u \in Nat,
         c.start <= t, t <= u
  PROVE  UsageAt(c, u, p) <= UsageAt(c, t, p)
<1> DEFINE Higher == {x \in Nat : t <= x /\ UsageAt(c, x, p) > UsageAt(c, t, p)}
<1>1. \A x \in Nat : UsageAt(c, x, p) \in Nat
  BY UsageLemma, Zenon
<1>2. Higher = {}
  <2> SUFFICES ASSUME Higher # {} PROVE FALSE
    OBVIOUS
  <2>1. Higher \in SUBSET Nat
    OBVIOUS
  <2>2. PICK x \in Higher : \A y \in Higher : x <= y
    <3> HIDE DEF Higher
    <3> QED  BY <2>1, LeastLemma, Zenon
  <2>3. x # t
    BY <1>1, <2>2
  <2>4. PICK y \in Nat : x = y + 1
    <3>1. x - 1 \in Nat /\ x = (x - 1) + 1
      BY <2>2, <2>3
    <3> QED  BY <3>1
  <2>5. y \notin Higher /\ t <= y /\ c.start <= y
    BY <2>2, <2>3, <2>4 DEF Window
  <2>6. UsageAt(c, y + 1, p) <= UsageAt(c, y, p)
    BY <2>5, NextSecond, Zenon
  <2>7. UsageAt(c, x, p) <= UsageAt(c, y, p) /\ UsageAt(c, y, p) <= UsageAt(c, t, p)
    BY <1>1, <2>4, <2>5, <2>6
  <2>8. UsageAt(c, x, p) > UsageAt(c, t, p) /\ x \in Nat
    BY <2>2
  <2> HIDE DEF Higher
  <2> QED  BY <1>1, <2>7, <2>8
<1> QED
  BY <1>1, <1>2

\* Two periods after its start a counter counts for nothing.
THEOREM UsageEnds ==
  ASSUME NEW c \in Window, NEW p \in Nat \ {0}, NEW t \in Nat, c.start + 2 * p <= t
  PROVE  UsageAt(c, t, p) = 0
<1>1. AlignedStart(t, p) \in Nat /\ t < AlignedStart(t, p) + p /\ c.start \in Nat
  BY StartLemma DEF Window
<1>2. c.start \notin {AlignedStart(t, p), AlignedStart(t, p) - p}
  BY <1>1
<1> QED
  BY <1>2, UsageLemma, Zenon

-------------------------------------------------------------------------------
(* The search for Retry-After *)

\* What the search computes: the first member of B in a range, or its end.
Solves(f, N, B) ==
  f = [range \in (1..N) \X (1..N) |->
         LET lo  == range[1]
             hi  == range[2]
             mid == (lo + hi) \div 2
         IN  IF lo >= hi THEN lo
             ELSE IF mid \in B THEN f[<<lo, mid>>] ELSE f[<<mid + 1, hi>>]]

First(lo, hi, B) ==
  CHOOSE d \in lo..hi : /\ d \in B \/ d = hi
                        /\ \A e \in lo..hi : e \in B \/ e = hi => d <= e

LEMMA FirstLemma ==
  ASSUME NEW B, NEW lo \in Nat, NEW hi \in Nat, lo <= hi
  PROVE  /\ First(lo, hi, B) \in lo..hi
         /\ First(lo, hi, B) \in B \/ First(lo, hi, B) = hi
         /\ \A e \in lo..hi : e \in B \/ e = hi => First(lo, hi, B) <= e
<1> DEFINE T == {d \in lo..hi : d \in B \/ d = hi}
<1>1. T \in SUBSET Nat /\ hi \in T
  OBVIOUS
<1>2. PICK d \in T : \A e \in T : d <= e
  <2> HIDE DEF T
  <2> QED  BY <1>1, LeastLemma, Zenon
<1>3. \E x \in lo..hi : /\ x \in B \/ x = hi
                        /\ \A e \in lo..hi : e \in B \/ e = hi => x <= e
  BY <1>2
<1> QED
  BY <1>3, Zenon DEF First

LEMMA FirstUnique ==
  ASSUME NEW B, NEW lo \in Nat, NEW hi \in Nat, lo <= hi, NEW d \in lo..hi,
         d \in B \/ d = hi, \A e \in lo..hi : e \in B \/ e = hi => d <= e
  PROVE  First(lo, hi, B) = d
<1>1. First(lo, hi, B) \in lo..hi /\ First(lo, hi, B) <= d /\ d <= First(lo, hi, B)
  BY FirstLemma
<1> QED
  BY <1>1

LEMMA MiddleLemma ==
  ASSUME NEW N \in Nat, NEW lo \in 1..N, NEW hi \in 1..N, lo < hi
  PROVE  (lo + hi) \div 2 \in lo..(hi - 1)
  OBVIOUS

\* The search has a solution.
LEMMA SearchExists ==
  ASSUME NEW N \in Nat, NEW B \in SUBSET Nat,
         \A d \in B, e \in 1..N : d <= e => e \in B
  PROVE  \E f : Solves(f, N, B)
<1> DEFINE f == [range \in (1..N) \X (1..N) |->
                   IF range[1] >= range[2] THEN range[1] ELSE First(range[1], range[2], B)]
<1>1. ASSUME NEW lo \in 1..N, NEW hi \in 1..N
      PROVE  f[<<lo, hi>>] = IF lo >= hi THEN lo ELSE First(lo, hi, B)
  OBVIOUS
<1>2. ASSUME NEW lo \in 1..N, NEW hi \in 1..N, lo <= hi
      PROVE  f[<<lo, hi>>] = First(lo, hi, B)
  <2>1. CASE lo < hi
    BY <1>1, <2>1
  <2>2. CASE lo = hi
    <3>1. First(lo, hi, B) \in lo..hi
      BY <2>2, FirstLemma
    <3> QED  BY <1>1, <2>2, <3>1
  <2> QED  BY <1>2, <2>1, <2>2
<1> HIDE DEF f
<1>3. ASSUME NEW lo \in 1..N, NEW hi \in 1..N, NEW mid, mid = (lo + hi) \div 2
      PROVE  f[<<lo, hi>>] = IF lo >= hi THEN lo
                             ELSE IF mid \in B THEN f[<<lo, mid>>] ELSE f[<<mid + 1, hi>>]
  <2>1. CASE lo >= hi
    BY <1>1, <2>1
  <2>2. CASE lo < hi
    <3>1. mid \in lo..(hi - 1) /\ mid \in 1..N /\ mid + 1 \in 1..N
      <4>1. mid \in lo..(hi - 1)
        BY <1>3, <2>2, MiddleLemma, Zenon
      <4> QED  BY <4>1
    <3>2. PICK d \in lo..hi : d = First(lo, hi, B)
      BY <2>2, FirstLemma
    <3>3. d \in B \/ d = hi
      BY <2>2, <3>2, FirstLemma
    <3>4. \A e \in lo..hi : e \in B \/ e = hi => d <= e
      BY <2>2, <3>2, FirstLemma
    <3>5. f[<<lo, hi>>] = d
      BY <1>2, <2>2, <3>2
    <3>6. CASE mid \in B
      <4>1. d \in lo..mid /\ (d \in B \/ d = mid)
        BY <3>1, <3>3, <3>4, <3>6
      <4>2. \A e \in lo..mid : e \in B \/ e = mid => d <= e
        BY <3>1, <3>4, <3>6
      <4>3. First(lo, mid, B) = d
        BY <3>1, <4>1, <4>2, FirstUnique
      <4>4. f[<<lo, mid>>] = d
        BY <1>2, <3>1, <4>3
      <4> QED  BY <2>2, <3>5, <3>6, <4>4
    <3>7. CASE mid \notin B
      <4>1. d > mid
        BY <3>1, <3>3, <3>7
      <4>2. PICK n \in 1..N : n = mid + 1
        BY <3>1
      <4>3. d \in n..hi /\ n <= hi
        BY <3>1, <4>1, <4>2
      <4>4. \A e \in n..hi : e \in B \/ e = hi => d <= e
        BY <3>1, <3>4, <4>2
      <4>5. First(n, hi, B) = d
        BY <3>3, <4>3, <4>4, FirstUnique
      <4>6. f[<<n, hi>>] = d
        BY <1>2, <4>3, <4>5
      <4> QED  BY <2>2, <3>5, <3>7, <4>2, <4>6
    <3> QED  BY <3>6, <3>7
  <2> QED  BY <2>1, <2>2
<1>4. Solves(f, N, B)
  <2> DEFINE F(range) == LET lo  == range[1]
                             hi  == range[2]
                             mid == (lo + hi) \div 2
                         IN  IF lo >= hi THEN lo
                             ELSE IF mid \in B THEN f[<<lo, mid>>] ELSE f[<<mid + 1, hi>>]
  <2>1. ASSUME NEW range \in (1..N) \X (1..N) PROVE f[range] = F(range)
    <3>1. PICK lo \in 1..N, hi \in 1..N : range = <<lo, hi>>
      OBVIOUS
    <3>2. PICK mid : mid = (lo + hi) \div 2
      OBVIOUS
    <3> QED  BY <1>3, <3>1, <3>2
  <2>2. f = [range \in (1..N) \X (1..N) |-> f[range]]
    BY DEF f
  <2>3. f = [range \in (1..N) \X (1..N) |-> F(range)]
    <3> HIDE DEF F
    <3> QED  BY <2>1, <2>2
  <2> QED  BY <2>3 DEF Solves
<1> QED
  BY <1>4

\* A solution finds the first member of B in a range that ends in B: the smallest
\* range in which it did not would be cut down to a smaller one.
LEMMA SearchFinds ==
  ASSUME NEW N \in Nat, NEW B \in SUBSET Nat, NEW f, Solves(f, N, B),
         \A d \in B, e \in 1..N : d <= e => e \in B,
         NEW lo \in 1..N, NEW hi \in 1..N, lo <= hi, hi \in B
  PROVE  /\ f[<<lo, hi>>] \in lo..hi /\ f[<<lo, hi>>] \in B
         /\ \A d \in 1..(f[<<lo, hi>>] - 1) : lo <= d => d \notin B
<1> DEFINE Right(a, b) == /\ f[<<a, b>>] \in a..b /\ f[<<a, b>>] \in B
                          /\ \A d \in 1..(f[<<a, b>>] - 1) : a <= d => d \notin B
           Wrong == {n \in Nat : \E a, b \in 1..N : /\ a <= b /\ b \in B /\ n = b - a
                                                    /\ ~Right(a, b)}
<1>1. ASSUME NEW a \in 1..N, NEW b \in 1..N, NEW mid, mid = (a + b) \div 2
      PROVE  f[<<a, b>>] = IF a >= b THEN a
                           ELSE IF mid \in B THEN f[<<a, mid>>] ELSE f[<<mid + 1, b>>]
  BY <1>1 DEF Solves
<1>2. Wrong = {}
  <2> SUFFICES ASSUME Wrong # {} PROVE FALSE
    OBVIOUS
  <2>1. PICK n \in Wrong : \A m \in Wrong : n <= m
    <3>1. Wrong \in SUBSET Nat
      OBVIOUS
    <3> HIDE DEF Wrong
    <3> QED  BY <3>1, LeastLemma, Zenon
  <2>2. PICK a \in 1..N, b \in 1..N : /\ a <= b /\ b \in B /\ n = b - a
                                      /\ ~Right(a, b)
    <3> HIDE DEF Right
    <3> QED  OBVIOUS
  <2>3. ASSUME NEW x \in 1..N, NEW y \in 1..N, x <= y, y \in B, y - x < n
        PROVE  Right(x, y)
    <3> HIDE DEF Right
    <3>1. y - x \in Nat
      BY <2>3
    <3>2. y - x \notin Wrong
      <4>1. n \in Nat
        OBVIOUS
      <4> HIDE DEF Wrong
      <4> QED  BY <2>1, <2>3, <3>1, <4>1
    <3> QED  BY <2>3, <3>1, <3>2
  <2>4. CASE a = b
    <3>1. f[<<a, b>>] = a
      <4>1. PICK mid : mid = (a + b) \div 2
        OBVIOUS
      <4>2. a >= b
        BY <2>4
      <4>3. f[<<a, b>>] = IF a >= b THEN a
                          ELSE IF mid \in B THEN f[<<a, mid>>] ELSE f[<<mid + 1, b>>]
        BY <1>1, <4>1
      <4> QED  BY <4>2, <4>3, Zenon
    <3> QED  BY <2>2, <2>4, <3>1
  <2>5. CASE a # b
    <3>1. PICK mid \in 1..N : mid = (a + b) \div 2 /\ mid \in a..(b - 1)
      <4>1. a < b
        BY <2>2, <2>5
      <4>2. (a + b) \div 2 \in a..(b - 1)
        BY <4>1, MiddleLemma, Zenon
      <4> QED  BY <4>2
    <3>2. f[<<a, b>>] = IF mid \in B THEN f[<<a, mid>>] ELSE f[<<mid + 1, b>>]
      BY <1>1, <2>2, <2>5, <3>1
    <3>3. CASE mid \in B
      <4>1. Right(a, mid)
        <5>1. a <= mid /\ mid - a < n
          BY <2>2, <3>1
        <5> HIDE DEF Right
        <5> QED  BY <2>3, <3>3, <5>1
      <4> QED  BY <2>2, <3>1, <3>2, <3>3, <4>1
    <3>4. CASE mid \notin B
      <4>1. PICK m \in 1..N : m = mid + 1
        BY <3>1
      <4>2. Right(m, b)
        <5>1. m <= b /\ b - m < n
          BY <2>2, <3>1, <4>1
        <5> HIDE DEF Right
        <5> QED  BY <2>2, <2>3, <5>1
      <4>3. \A d \in 1..mid : d \notin B
        BY <3>4
      <4>4. f[<<a, b>>] = f[<<m, b>>]
        BY <3>2, <3>4, <4>1
      <4>5. PICK x \in m..b : x = f[<<m, b>>]
        BY <4>2
      <4>6. x \in B /\ \A d \in 1..(x - 1) : m <= d => d \notin B
        BY <4>2, <4>5
      <4>7. \A d \in 1..(x - 1) : d \notin B
        BY <3>1, <4>1, <4>3, <4>6
      <4>8. x \in a..b
        BY <3>1, <4>1
      <4> QED  BY <2>2, <4>4, <4>5, <4>6, <4>7, <4>8
    <3> QED  BY <3>3, <3>4
  <2> QED  BY <2>4, <2>5
<1>3. hi - lo \in Nat /\ hi - lo \notin Wrong
  <2> HIDE DEF Wrong
  <2> QED  BY <1>2
<1>4. Right(lo, hi)
  <2> HIDE DEF Right
  <2> QED  BY <1>3
<1> QED
  BY <1>4

\* Retry-After is the least wait after which usage is below the limit, for every
\* counter that does not begin after the present, every period and every limit.
THEOREM RetryAfterIsLeast ==
  ASSUME NEW c \in Window, NEW t \in Nat, NEW p \in Nat \ {0}, NEW l \in Nat \ {0},
         c.start <= t
  PROVE  /\ RetryAfter(c, t, p, l) \in 1..(2 * p)
         /\ UsageAt(c, t + RetryAfter(c, t, p, l), p) < l
         /\ \A d \in 1..(RetryAfter(c, t, p, l) - 1) : UsageAt(c, t + d, p) >= l
<1> DEFINE B == {d \in Nat : UsageAt(c, t + d, p) < l}
           R(f) == f = [range \in (1..(2 * p)) \X (1..(2 * p)) |->
                          LET lo  == range[1]
                              hi  == range[2]
                              mid == (lo + hi) \div 2
                          IN  IF lo >= hi THEN lo
                              ELSE IF UsageAt(c, t + mid, p) < l
                                   THEN f[<<lo, mid>>] ELSE f[<<mid + 1, hi>>]]
           s == CHOOSE f : R(f)
<1>1. RetryAfter(c, t, p, l) = s[<<1, 2 * p>>]
  BY Zenon DEF RetryAfter
<1>2. PICK N \in Nat : N = 2 * p
  OBVIOUS
<1>3. 1 \in 1..N /\ N \in 1..N /\ 1 <= N
  BY <1>2
<1>4. \A d \in Nat : UsageAt(c, t + d, p) \in Nat
  <2> TAKE d \in Nat
  <2>1. t + d \in Nat
    OBVIOUS
  <2> QED  BY <2>1, UsageLemma, Zenon
<1>5. \A d \in B, e \in 1..N : d <= e => e \in B
  <2> SUFFICES ASSUME NEW d \in B, NEW e \in 1..N, d <= e PROVE e \in B
    OBVIOUS
  <2>1. /\ d \in Nat /\ e \in Nat /\ t + d \in Nat /\ t + e \in Nat
        /\ c.start <= t + d /\ t + d <= t + e
    BY DEF Window
  <2>2. UsageAt(c, t + e, p) <= UsageAt(c, t + d, p)
    BY <2>1, UsageFalls, Zenon
  <2>3. UsageAt(c, t + d, p) < l
    OBVIOUS
  <2> QED  BY <1>4, <2>1, <2>2, <2>3
<1>6. N \in B
  <2>1. t + N \in Nat /\ c.start + 2 * p <= t + N
    BY <1>2 DEF Window
  <2>2. UsageAt(c, t + N, p) = 0
    BY <2>1, UsageEnds, Zenon
  <2> QED  BY <2>2
<1>7. ASSUME NEW lo \in 1..N, NEW hi \in 1..N
      PROVE  (lo + hi) \div 2 \in B <=> UsageAt(c, t + (lo + hi) \div 2, p) < l
  <2>1. (lo + hi) \div 2 \in Nat
    OBVIOUS
  <2> QED  BY <2>1
<1> HIDE DEF B
<1>8. \A f : R(f) <=> Solves(f, N, B)
  <2> TAKE f
  <2> DEFINE F(range) == LET lo  == range[1]
                             hi  == range[2]
                             mid == (lo + hi) \div 2
                         IN  IF lo >= hi THEN lo
                             ELSE IF UsageAt(c, t + mid, p) < l
                                  THEN f[<<lo, mid>>] ELSE f[<<mid + 1, hi>>]
             G(range) == LET lo  == range[1]
                             hi  == range[2]
                             mid == (lo + hi) \div 2
                         IN  IF lo >= hi THEN lo
                             ELSE IF mid \in B THEN f[<<lo, mid>>] ELSE f[<<mid + 1, hi>>]
  <2>1. ASSUME NEW range \in (1..N) \X (1..N) PROVE F(range) = G(range)
    <3>1. range[1] \in 1..N /\ range[2] \in 1..N
      OBVIOUS
    <3>2. (range[1] + range[2]) \div 2 \in B
            <=> UsageAt(c, t + (range[1] + range[2]) \div 2, p) < l
      BY <1>7, <3>1, Zenon
    <3> QED  BY <3>2, Zenon
  <2>2. [range \in (1..N) \X (1..N) |-> F(range)] = [range \in (1..N) \X (1..N) |-> G(range)]
    <3> HIDE DEF F, G
    <3> QED  BY <2>1
  <2>3. R(f) <=> f = [range \in (1..N) \X (1..N) |-> F(range)]
    BY <1>2, Zenon
  <2>4. Solves(f, N, B) <=> f = [range \in (1..N) \X (1..N) |-> G(range)]
    BY Zenon DEF Solves
  <2> HIDE DEF F, G, R
  <2> QED  BY <2>2, <2>3, <2>4
<1>9. Solves(s, N, B)
  <2>1. B \in SUBSET Nat
    BY DEF B
  <2>2. \E f : Solves(f, N, B)
    BY <1>5, <2>1, SearchExists, Zenon
  <2>3. R(s)
    <3> HIDE DEF R
    <3> QED  BY <1>8, <2>2, Zenon
  <2> HIDE DEF R, s
  <2> QED  BY <1>8, <2>3
<1> HIDE DEF R, s
<1>10. /\ s[<<1, N>>] \in 1..N /\ s[<<1, N>>] \in B
       /\ \A d \in 1..(s[<<1, N>>] - 1) : 1 <= d => d \notin B
  <2>1. B \in SUBSET Nat
    BY DEF B
  <2> QED  BY <1>3, <1>5, <1>6, <1>9, <2>1, SearchFinds, Zenon
<1>11. PICK x \in 1..N : x = RetryAfter(c, t, p, l)
  BY <1>1, <1>2, <1>10
<1>12. x \in B /\ \A d \in 1..(x - 1) : d \in Nat /\ d \notin B
  BY <1>1, <1>2, <1>10, <1>11
<1>13. UsageAt(c, t + x, p) < l
  BY <1>12 DEF B
<1>14. \A d \in 1..(x - 1) : UsageAt(c, t + d, p) >= l
  <2> SUFFICES ASSUME NEW d \in 1..(x - 1) PROVE UsageAt(c, t + d, p) >= l
    OBVIOUS
  <2>1. d \in Nat /\ ~(UsageAt(c, t + d, p) < l)
    BY <1>12 DEF B
  <2>2. PICK n \in Nat : n = UsageAt(c, t + d, p)
    BY <1>4, <2>1
  <2> QED  BY <2>1, <2>2
<1> QED
  BY <1>2, <1>11, <1>13, <1>14

-------------------------------------------------------------------------------
(* The invariant *)

LEMMA CounterInitLemma ==
  CounterInit => CounterInv
<1> SUFFICES ASSUME CounterInit PROVE CounterInv
  OBVIOUS
<1>1. /\ CounterTypeOK /\ counter.start = time /\ time = 0
      /\ counter.current = 0 /\ counter.previous = 0
  BY DEF CounterInit, CounterTypeOK, NewWindow, Window
<1>2. Rolled.current = 0 /\ Rolled.previous = 0
  BY <1>1 DEF Rolled, Advance
<1>3. time % Period \in 0..(Period - 1)
  BY <1>1, DivisionLemma, WindowAssumption
<1> QED
  BY <1>1, <1>2, <1>3, WindowAssumption DEF CounterInv, NoDoubleBurst

\* Every call leaves a counter that is rolled to this moment.
LEMMA CallLemma ==
  ASSUME CounterTypeOK, CounterAdmit \/ CounterLook \/ CounterCharge
  PROVE  /\ counter' \in Window /\ counter'.start = Rolled.start
         /\ counter'.previous = Rolled.previous
         /\ time' = time /\ counts' = counts
         /\ CounterTypeOK' /\ counter'.start <= time'
<1>1. /\ Rolled \in Window /\ Rolled.start <= time
  BY RolledLemma
<1>2. CASE CounterAdmit
  BY <1>1, <1>2 DEF CounterAdmit, CounterTypeOK, Window
<1>3. CASE CounterLook
  BY <1>1, <1>3 DEF CounterLook, CounterTypeOK, Window
<1>4. CASE CounterCharge
  BY <1>1, <1>4, WindowAssumption DEF CounterCharge, CounterTypeOK, Window
<1> QED
  BY <1>2, <1>3, <1>4

\* An estimate below the limit leaves room for one more in both windows together.
LEMMA RoomLemma ==
  ASSUME NEW prev \in Nat, NEW cur \in Nat, NEW p \in Nat \ {0}, NEW e \in 0..(p - 1),
         NEW l \in Nat, (prev * (p - e)) \div p + cur < l
  PROVE  cur + 1 <= l /\ (prev + cur + 1 - l) * p < prev * e + p
<1>1. prev * (p - e) \in Nat /\ prev * (p - e) = prev * p - prev * e
  OBVIOUS
<1>2. PICK x \in Nat : x = prev * (p - e)
  BY <1>1
<1>3. PICK q \in Nat : q = x \div p
  BY DivisionLemma
<1>4. x < p * q + p /\ q + cur < l
  BY <1>2, <1>3, DivisionLemma
<1>5. p * q <= p * (l - 1 - cur)
  <2>1. PICK d \in Nat : d = l - 1 - cur - q
    BY <1>4
  <2>2. p * (l - 1 - cur) = p * q + p * d /\ p * d >= 0
    BY <2>1
  <2> QED  BY <2>2
<1>6. (prev + cur + 1 - l) * p = prev * p - p * (l - 1 - cur)
  OBVIOUS
<1> QED
  BY <1>1, <1>2, <1>4, <1>5, <1>6

\* Time alone: at a boundary the window that ends is within the limit, and within
\* a window the share of the elapsed time grows.
LEMMA TimeLemma ==
  ASSUME NEW prev \in Nat, NEW p \in Nat \ {0}, NEW e \in Nat, NEW l \in Nat
  PROVE  /\ prev * e <= prev * (e + 1)
         /\ prev <= l => (prev + 0 - l) * p < prev * 0 + p
<1>1. prev * (e + 1) = prev * e + prev
  OBVIOUS
<1>2. ASSUME prev <= l PROVE (prev + 0 - l) * p < prev * 0 + p
  <2>1. PICK d \in Nat : d = l - prev
    BY <1>2
  <2>2. (prev + 0 - l) * p = 0 - d * p /\ d * p >= 0
    BY <2>1
  <2> QED  BY <2>2
<1> QED
  BY <1>1, <1>2

LEMMA CounterStepLemma ==
  CounterInv /\ [CounterNext]_counterVars => CounterInv'
<1> SUFFICES ASSUME CounterInv, [CounterNext]_counterVars PROVE CounterInv'
  OBVIOUS
<1>0. /\ CounterTypeOK /\ counter.start <= time /\ NoDoubleBurst
      /\ Rolled \in Window /\ Period \in Nat \ {0} /\ Limit \in Nat \ {0} /\ time \in Nat
      /\ time % Period \in 0..(Period - 1)
  BY RolledLemma, WindowAssumption, DivisionLemma DEF CounterInv, CounterTypeOK
<1>1. CASE CounterAdmit
  <2>1. /\ CounterTypeOK' /\ counter'.start <= time' /\ Rolled' = counter'
        /\ time' = time /\ counts' = counts
    BY <1>0, <1>1, CallLemma, RolledAgain
  <2>2. counts = "requests" =>
          Rolled'.current = Rolled.current + 1 /\ Rolled'.previous = Rolled.previous
    BY <1>0, <1>1, <2>1 DEF CounterAdmit, Window
  <2>3. /\ Rolled.current + 1 <= Limit
        /\ (Rolled.previous + Rolled.current + 1 - Limit) * Period
             < Rolled.previous * (time % Period) + Period
    <3>1. Reference!Used < Limit
      BY <1>0, <1>1, UsedLemma DEF CounterAdmit
    <3>2. Rolled.previous \in Nat /\ Rolled.current \in Nat
      BY <1>0 DEF Window
    <3>3. (Rolled.previous * (Period - (time % Period))) \div Period + Rolled.current < Limit
      BY <3>1 DEF Reference!Used
    <3> QED  BY <1>0, <3>2, <3>3, RoomLemma
  <2>4. NoDoubleBurst'
    <3>1. Rolled.previous + (Rolled.current + 1) - Limit = Rolled.previous + Rolled.current + 1 - Limit
      BY <1>0 DEF Window
    <3> QED  BY <2>1, <2>2, <2>3, <3>1 DEF NoDoubleBurst
  <2> QED  BY <2>1, <2>4 DEF CounterInv
<1>2. CASE CounterLook
  <2>1. /\ CounterTypeOK' /\ counter'.start <= time' /\ Rolled' = counter'
        /\ time' = time /\ counts' = counts
    BY <1>0, <1>2, CallLemma, RolledAgain
  <2>2. NoDoubleBurst'
    BY <1>0, <1>2, <2>1 DEF CounterLook, NoDoubleBurst
  <2> QED  BY <2>1, <2>2 DEF CounterInv
<1>3. CASE CounterCharge
  <2>1. CounterTypeOK' /\ counter'.start <= time' /\ counts' = "tokens"
    BY <1>0, <1>3, CallLemma DEF CounterCharge
  <2> QED  BY <2>1 DEF CounterInv, NoDoubleBurst
<1>4. CASE CounterTick
  <2>1. CounterTypeOK' /\ counter'.start <= time' /\ counts' = counts /\ time' = time + 1
    BY <1>0, <1>4 DEF CounterTick, CounterTypeOK, Window
  <2>2. ASSUME counts = "requests"
        PROVE  /\ Rolled'.current <= Limit
               /\ (Rolled'.previous + Rolled'.current - Limit) * Period
                    < Rolled'.previous * (time' % Period) + Period
    <3>1. PICK c \in Nat : c = Rolled.current
      BY <1>0 DEF Window
    <3>2. PICK r \in Nat : r = Rolled.previous
      BY <1>0 DEF Window
    <3>3. c <= Limit /\ (r + c - Limit) * Period < r * (time % Period) + Period
      BY <1>0, <2>2, <3>1, <3>2 DEF NoDoubleBurst
    <3>4. CASE time' % Period = 0
      <4>1. Rolled'.current = 0 /\ Rolled'.previous = c
        BY <1>0, <1>4, <3>1, <3>4, TickLemma
      <4>2. (c + 0 - Limit) * Period < c * 0 + Period
        BY <1>0, <3>3, TimeLemma
      <4> QED  BY <1>0, <3>4, <4>1, <4>2
    <3>5. CASE time' % Period # 0
      <4>1. Rolled'.current = c /\ Rolled'.previous = r
        BY <1>0, <1>4, <3>1, <3>2, <3>5, TickLemma
      <4>2. time' % Period = (time % Period) + 1
        BY <1>0, <2>1, <3>5, SecondLemma
      <4>3. PICK e \in Nat : e = time % Period
        BY <1>0
      <4>4. r * e <= r * (e + 1)
        BY <1>0, <4>3, TimeLemma
      <4>5. (r + c - Limit) * Period < r * (e + 1) + Period
        BY <1>0, <3>3, <4>3, <4>4
      <4> QED  BY <3>3, <4>1, <4>2, <4>3, <4>5
    <3> QED  BY <3>4, <3>5
  <2> QED  BY <2>1, <2>2 DEF CounterInv, NoDoubleBurst
<1>5. CASE UNCHANGED counterVars
  <2>1. Rolled' = Rolled
    BY <1>5 DEF counterVars, Rolled
  <2> QED  BY <1>0, <1>5, <2>1 DEF counterVars, CounterInv, CounterTypeOK, NoDoubleBurst
<1> QED
  BY <1>1, <1>2, <1>3, <1>4, <1>5 DEF CounterNext

THEOREM CounterInvariance == CounterSpec => []CounterInv
<1>1. CounterInit => CounterInv
  BY CounterInitLemma
<1>2. CounterInv /\ [CounterNext]_counterVars => CounterInv'
  BY CounterStepLemma
<1> QED
  BY <1>1, <1>2, PTL DEF CounterSpec

\* No double burst at a boundary, for every period and limit: the estimate that a
\* call checks bounds what two adjacent windows admit together.
THEOREM BurstsDoNotDouble == CounterSpec => []NoDoubleBurst
<1>1. CounterInv => NoDoubleBurst
  BY DEF CounterInv
<1> QED
  BY <1>1, CounterInvariance, PTL

\* Retry-After is the least wait after which a retry would be admitted, for every
\* period and limit, whatever the counter has been charged.
THEOREM RetryIsLeastAlways == CounterSpec => []RetryIsLeast
<1>1. CounterInv => RetryIsLeast
  <2> SUFFICES ASSUME CounterInv PROVE RetryIsLeast
    OBVIOUS
  <2>1. /\ counter \in Window /\ time \in Nat /\ counter.start <= time
        /\ Period \in Nat \ {0} /\ Limit \in Nat \ {0}
    BY WindowAssumption DEF CounterInv, CounterTypeOK
  <2> DEFINE wait == RetryAfter(counter, time, Period, Limit)
  <2>2. /\ UsageAt(counter, time + wait, Period) < Limit
        /\ \A d \in 1..(wait - 1) : UsageAt(counter, time + d, Period) >= Limit
    BY <2>1, RetryAfterIsLeast, Zenon
  <2> QED  BY <2>2, Zenon DEF RetryIsLeast
<1> QED
  BY <1>1, CounterInvariance, PTL

-------------------------------------------------------------------------------
(* The refinement *)

LEMMA ReferenceStep ==
  CounterInv /\ [CounterNext]_counterVars => [Reference!Next]_(Reference!vars)
<1> SUFFICES ASSUME CounterInv, [CounterNext]_counterVars PROVE [Reference!Next]_(Reference!vars)
  OBVIOUS
<1>0. CounterTypeOK /\ counter.start <= time /\ Rolled \in Window
  BY RolledLemma DEF CounterInv
<1>1. CASE CounterAdmit
  <2>1. Rolled' = counter' /\ time' = time /\ counts' = counts
    BY <1>0, <1>1, CallLemma, RolledAgain
  <2>2. Reference!Used < Limit
    BY <1>0, <1>1, UsedLemma DEF CounterAdmit
  <2>3. CASE counts = "requests"
    <3>1. Rolled'.current = Rolled.current + 1 /\ Rolled'.previous = Rolled.previous
      BY <1>0, <1>1, <2>1, <2>3 DEF CounterAdmit, Window
    <3> QED  BY <2>1, <2>2, <2>3, <3>1 DEF Reference!Next, Reference!Admit
  <2>4. CASE counts # "requests"
    <3>1. Rolled'.current = Rolled.current /\ Rolled'.previous = Rolled.previous
      BY <1>0, <1>1, <2>1, <2>4 DEF CounterAdmit, Window
    <3> QED  BY <2>1, <3>1 DEF Reference!vars
  <2> QED  BY <2>3, <2>4
<1>2. CASE CounterLook
  <2>1. Rolled' = counter' /\ time' = time /\ counts' = counts
    BY <1>0, <1>2, CallLemma, RolledAgain
  <2> QED  BY <1>2, <2>1 DEF CounterLook, Reference!vars
<1>3. CASE CounterCharge
  <2>1. Rolled' = counter' /\ time' = time /\ counts' = counts
    BY <1>0, <1>3, CallLemma, RolledAgain
  <2>2. PICK n \in Charges : /\ Rolled.current + n <= MaxCharged
                             /\ counter' = [Rolled EXCEPT !.current = @ + n]
    BY <1>3 DEF CounterCharge
  <2>3. Rolled'.current = Rolled.current + n /\ Rolled'.previous = Rolled.previous
    BY <1>0, <2>1, <2>2 DEF Window
  <2> QED  BY <1>3, <2>1, <2>2, <2>3 DEF CounterCharge, Reference!Next, Reference!Charge
<1>4. CASE CounterTick
  <2>1. IF time' % Period = 0
        THEN Rolled'.current = 0 /\ Rolled'.previous = Rolled.current
        ELSE Rolled'.current = Rolled.current /\ Rolled'.previous = Rolled.previous
    BY <1>0, <1>4, TickLemma
  <2> QED  BY <1>4, <2>1 DEF CounterTick, Reference!Next, Reference!Tick
<1>5. CASE UNCHANGED counterVars
  <2>1. Rolled' = Rolled
    BY <1>5 DEF counterVars, Rolled
  <2> QED  BY <1>5, <2>1 DEF counterVars, Reference!vars
<1> QED
  BY <1>1, <1>2, <1>3, <1>4, <1>5 DEF CounterNext

\* The lazily rolled counter implements the one that rolls at every boundary, for
\* every period, limit and schedule of calls.
THEOREM LazyRollingIsExact == CounterSpec => CountsWhatHappened
<1>1. CounterInit => Reference!Init
  <2> SUFFICES ASSUME CounterInit PROVE Reference!Init
    OBVIOUS
  <2>1. counter.current = 0 /\ counter.previous = 0 /\ time = 0
    BY DEF CounterInit, NewWindow
  <2>2. Rolled.current = 0 /\ Rolled.previous = 0
    BY <2>1 DEF Rolled, Advance
  <2> QED  BY <2>1, <2>2 DEF CounterInit, Reference!Init
<1>2. CounterInv /\ [CounterNext]_counterVars => [Reference!Next]_(Reference!vars)
  BY ReferenceStep
<1> QED
  BY <1>1, <1>2, CounterInvariance, PTL DEF CounterSpec, CountsWhatHappened, Reference!Spec

-------------------------------------------------------------------------------
(* The limiter: its invariant *)

\* Only the windows of children have deadlines, two periods after their start or
\* later.
Deadlines == \A id \in Queue : /\ id[2].part # NoChild /\ id[2].period # PeriodConcurrent
                               /\ expiry[id].start + 2 * id[2].period <= expiry[id].at

\* No counter begins after the present.
Begun == \A id \in Ids : win[id].start <= clock

\* The inductive invariant.  ChildrenTracked and Deadlines bound the age of what
\* is due; the gauges are exact, so that admit's check bounds their holders.
IInv == /\ TypeOK /\ clock >= StartTime
        /\ GaugesExact /\ ConcurrencyBound
        /\ ChildrenTracked /\ NoLostWakeup /\ Deadlines /\ Begun

-------------------------------------------------------------------------------
(* Keys *)

LEMMA KeyLemma ==
  ASSUME NEW rule \in Rules, NEW child \in Partitions
  PROVE  /\ KeyOf(rule, child) \in Keys
         /\ KeyOf(rule, child).name = rule.name /\ KeyOf(rule, child).period = rule.period
  BY DEF Keys, KeyOf

LEMMA IdLemma ==
  ASSUME NEW id \in Ids
  PROVE  /\ id[2] \in Keys /\ id[2].period \in Nat
         /\ id[2].period + MaxDelay <= StartTime
<1>1. PICK rule \in Rules, child \in Partitions : id[2] = KeyOf(rule, child)
  BY DEF Ids, Keys
<1>2. rule.period \in Nat /\ rule.period + MaxDelay <= StartTime
  BY RuleAssumption, LimiterAssumption DEF Definition
<1> QED  BY <1>1, <1>2, KeyLemma

\* Two rules have a key in common only if they are the same rule.
LEMMA SameKey ==
  ASSUME NEW a \in Rules, NEW b \in Rules, NEW c \in Partitions, NEW d \in Partitions,
         KeyOf(a, c) = KeyOf(b, d)
  PROVE  a = b
  BY KeyLemma, RuleAssumption

LEMMA MatchingLemma ==
  ASSUME NEW rules \in Matches, NEW child
  PROVE  Matching(rules, child) \subseteq Rules
  BY RuleAssumption DEF Matching

-------------------------------------------------------------------------------
(* Windows *)

\* A counter that has been advanced covers now.
LEMMA AdvanceLemma ==
  ASSUME NEW w \in Window, NEW now \in Nat, NEW period \in Nat \ {0}
  PROVE  /\ Advance(w, now, period) \in Window
         /\ Advance(w, now, period).start = AlignedStart(now, period)
  BY StartLemma DEF Advance, Window

\* The estimate counts the current window in full.
LEMMA UsageCovers ==
  ASSUME NEW w \in Window, NEW now \in Nat, NEW period \in Nat \ {0}
  PROVE  /\ UsageAt(w, now, period) \in Int
         /\ Advance(w, now, period).current <= UsageAt(w, now, period)
<1>1. PICK v \in Window : v = Advance(w, now, period) /\ v.start = AlignedStart(now, period)
  BY AdvanceLemma
<1>2. v.start \in Nat /\ v.start <= now /\ v.start > now - period
  BY <1>1, StartLemma
<1>3. PICK left \in Nat : left = period - Elapsed(v, now, period)
  BY <1>2 DEF Elapsed
<1>4. v.previous \in Nat /\ v.current \in Nat
  BY DEF Window
<1>5. PICK share \in Nat : share = v.previous * left
  BY <1>4
<1>6. share \div period \in Int /\ share \div period >= 0
  OBVIOUS
<1>7. UsageAt(w, now, period) = (share \div period) + v.current
  BY <1>1, <1>3, <1>5 DEF UsageAt, Estimate
<1> QED  BY <1>1, <1>4, <1>6, <1>7

-------------------------------------------------------------------------------
(* Deadlines and the worker *)

\* Signal leaves a worker that has been told of any change.
LEMMA SignalLemma ==
  ASSUME worker \in Worker, NEW newExpiry, worker' = Signal(newExpiry), expiry' = newExpiry
  PROVE  /\ worker' \in Worker /\ worker'.closed = worker.closed
         /\ NoLostWakeup => NoLostWakeup'
<1>1. CASE newExpiry = expiry
  BY <1>1 DEF Signal, NoLostWakeup, Queue
<1>2. CASE newExpiry # expiry
  BY <1>2 DEF Signal, NoLostWakeup, Worker
<1> QED  BY <1>1, <1>2

\* A call that rolls window counters gives each child's counter that it rolls a
\* deadline, and tells the worker.
LEMMA RollLemma ==
  ASSUME IInv, NEW ids \in SUBSET Ids, \A id \in ids : id[2].period # PeriodConcurrent,
         NEW now \in Now, NEW add \in [Ids -> Nat], Roll(ids, now, add), clock' = clock
  PROVE  /\ win' \in [Ids -> Window] /\ expiry' \in [Ids -> [start : Nat, at : Nat]]
         /\ worker' \in Worker
         /\ ChildrenTracked' /\ NoLostWakeup' /\ Deadlines' /\ Begun'
<1> DEFINE rolled(id) == Advance(win[id], now, id[2].period)
           newWin == [id \in Ids |-> IF id \in ids
                                    THEN [rolled(id) EXCEPT !.current = @ + add[id]]
                                    ELSE win[id]]
<1>1. win' = newWin /\ expiry' = Tracked(ids, newWin) /\ worker' = Signal(expiry')
  BY DEF Roll
<1>2. TypeOK /\ clock \in Nat /\ now \in Nat /\ now <= clock
  BY LimiterAssumption DEF IInv, TypeOK, Now
<1>3. ASSUME NEW id \in ids
      PROVE  /\ id[2].period \in Nat \ {0} /\ rolled(id) \in Window
             /\ rolled(id).start \in Nat \ {0} /\ rolled(id).start <= clock
             /\ newWin[id] \in Window /\ newWin[id].start = rolled(id).start
  <2>1. id[2].period \in Nat \ {0} /\ id[2].period + MaxDelay <= StartTime
    BY IdLemma DEF PeriodConcurrent
  <2>2. rolled(id) \in Window /\ rolled(id).start = AlignedStart(now, id[2].period)
    <3>1. win[id] \in Window
      BY <1>2 DEF TypeOK
    <3>2. now \in Nat
      BY <1>2
    <3> QED  BY <2>1, <3>1, <3>2, AdvanceLemma, Zenon
  <2>3. now >= id[2].period
    BY <1>2, <2>1, LimiterAssumption DEF Now, IInv
  <2>4. rolled(id).start \in Nat \ {0} /\ rolled(id).start <= clock
    <3> HIDE DEF rolled
    <3> DEFINE start == AlignedStart(now, id[2].period)
    <3>1. start \in Nat /\ start <= now /\ now < start + id[2].period
      BY <1>2, <2>1, StartLemma, Zenon
    <3>2. rolled(id).start = start
      BY <2>2
    <3> HIDE DEF start
    <3> QED  BY <1>2, <2>1, <2>3, <3>1, <3>2
  <2>5. newWin[id] = [rolled(id) EXCEPT !.current = @ + add[id]]
    OBVIOUS
  <2>6. rolled(id).current + add[id] \in Nat
    <3> HIDE DEF rolled
    <3> QED  BY <2>2 DEF Window
  <2>7. newWin[id] \in Window /\ newWin[id].start = rolled(id).start
    <3> HIDE DEF rolled, newWin
    <3> QED  BY <2>2, <2>5, <2>6 DEF Window
  <2> QED  BY <2>1, <2>2, <2>4, <2>7
<1>4. \A id \in Ids \ ids : newWin[id] = win[id]
  OBVIOUS
<1>5. win' \in [Ids -> Window]
  <2>1. \A id \in Ids : newWin[id] \in Window
    BY <1>2, <1>3, <1>4 DEF TypeOK
  <2> QED  BY <1>1, <2>1
<1> HIDE DEF rolled
<1>6. ASSUME NEW id \in Ids
      PROVE  expiry'[id] \in {expiry[id], [start |-> newWin[id].start, at |-> clock + 2 * id[2].period]}
  BY <1>1 DEF Tracked
<1>7. expiry' \in [Ids -> [start : Nat, at : Nat]]
  <2>1. ASSUME NEW id \in Ids PROVE expiry'[id] \in [start : Nat, at : Nat]
    <3> HIDE DEF newWin
    <3>1. newWin[id].start \in Nat
      BY <1>1, <1>5 DEF Window
    <3>2. clock + 2 * id[2].period \in Nat
      BY <1>2, IdLemma
    <3> QED  BY <1>2, <1>6, <3>1, <3>2 DEF TypeOK
  <2>2. expiry' = [id \in Ids |-> expiry'[id]]
    BY <1>1 DEF Tracked
  <2> QED  BY <2>1, <2>2
<1>8. /\ worker' \in Worker /\ worker'.closed = worker.closed /\ NoLostWakeup'
  BY <1>1, <1>2, SignalLemma DEF IInv, TypeOK
<1>9. ChildrenTracked'
  <2> SUFFICES ASSUME ~worker.closed, NEW id \in Ids, id[2].part # NoChild
               PROVE  expiry'[id].start = newWin[id].start
    BY <1>1, <1>8 DEF ChildrenTracked
  <2>1. expiry[id].start = win[id].start
    BY DEF IInv, ChildrenTracked
  <2>2. CASE id \notin ids
    BY <1>1, <1>4, <2>1, <2>2 DEF Tracked
  <2>3. CASE id \in ids
    <3>1. newWin[id].start # 0
      BY <1>3, <2>3
    <3> HIDE DEF newWin
    <3> QED  BY <1>1, <2>3, <3>1 DEF Tracked
  <2> QED  BY <2>2, <2>3
<1>10. Deadlines'
  <2> SUFFICES ASSUME NEW id \in Ids, expiry'[id] # Untracked
               PROVE  /\ id[2].part # NoChild /\ id[2].period # PeriodConcurrent
                      /\ expiry'[id].start + 2 * id[2].period <= expiry'[id].at
    BY DEF Deadlines, Queue
  <2>1. CASE expiry'[id] = expiry[id]
    BY <2>1 DEF IInv, Deadlines, Queue
  <2>2. CASE expiry'[id] # expiry[id]
    <3>1. /\ id \in ids /\ id[2].part # NoChild
          /\ expiry'[id] = [start |-> newWin[id].start, at |-> clock + 2 * id[2].period]
      BY <1>1, <2>2 DEF Tracked
    <3>2. newWin[id].start \in Nat /\ newWin[id].start <= clock /\ id[2].period \in Nat
      BY <1>3, <3>1
    <3> HIDE DEF newWin
    <3> QED  BY <1>2, <3>1, <3>2
  <2> QED  BY <2>1, <2>2
<1>11. Begun'
  <2>1. \A id \in Ids : newWin[id].start <= clock
    <3> HIDE DEF newWin
    <3> QED  BY <1>3, <1>4 DEF IInv, Begun
  <2> QED  BY <1>1, <2>1 DEF Begun
<1> QED  BY <1>5, <1>7, <1>8, <1>9, <1>10, <1>11
-------------------------------------------------------------------------------
(* Gauges *)

LEMMA HoldersFinite ==
  ASSUME NEW key
  PROVE  IsFiniteSet(Holders(key)) /\ Cardinality(Holders(key)) \in Nat
  BY LimiterAssumption, FS_Subset, FS_CardinalityType DEF Holders

LEMMA GaugesKept ==
  ASSUME GaugesExact, ConcurrencyBound, UNCHANGED <<inFlight, req>>
  PROVE  GaugesExact' /\ ConcurrencyBound'
  BY DEF GaugesExact, ConcurrencyBound, Holders

\* An admitted request takes a slot of each gauge whose rule still had one.
LEMMA AdmitLemma ==
  ASSUME IInv, NEW r \in Requests, NEW rules \in Matches, NEW child \in Partitions,
         NEW now, Admit(r, rules, child, now)
  PROVE  /\ inFlight' \in [Keys -> Nat]
         /\ req' \in [Requests -> [phase : {"idle", "admitted", "released"}, held : SUBSET Keys]]
         /\ GaugesExact' /\ ConcurrencyBound'
<1> DEFINE matching == Matching(rules, child)
           held     == {KeyOf(rule, child) : rule \in GaugeRules(matching)}
<1>1. /\ req[r].phase = "idle" /\ \A rule \in matching : ~Breached(rule, child, now)
      /\ inFlight' = [key \in Keys |-> IF key \in held THEN inFlight[key] + 1 ELSE inFlight[key]]
      /\ req' = [req EXCEPT ![r] = [phase |-> "admitted", held |-> held]]
  BY DEF Admit
<1>2. TypeOK /\ matching \subseteq Rules /\ held \subseteq Keys
  BY MatchingLemma, KeyLemma DEF IInv, GaugeRules
<1>3. \A rule \in Rules : KeyOf(rule, child) \in held =>
        rule \in matching /\ rule.period = PeriodConcurrent
  BY <1>2, SameKey DEF GaugeRules
<1> HIDE DEF matching, held
<1>4. inFlight' \in [Keys -> Nat]
  BY <1>1, <1>2 DEF TypeOK
<1>5. req' \in [Requests -> [phase : {"idle", "admitted", "released"}, held : SUBSET Keys]]
  BY <1>1, <1>2 DEF TypeOK
<1>6. ASSUME NEW key \in Keys
      PROVE  /\ inFlight'[key] = Cardinality(Holders(key)')
             /\ key \notin held => Holders(key)' = Holders(key)
  <2>1. inFlight[key] = Cardinality(Holders(key)) /\ r \notin Holders(key)
    BY <1>1 DEF IInv, GaugesExact, Holders
  <2>2. CASE key \in held
    <3>1. Holders(key)' = Holders(key) \union {r}
      BY <1>1, <1>2, <2>2 DEF Holders, TypeOK
    <3>2. Cardinality(Holders(key) \union {r}) = Cardinality(Holders(key)) + 1
      BY <2>1, HoldersFinite, FS_AddElement
    <3> QED  BY <1>1, <2>1, <2>2, <3>1, <3>2
  <2>3. CASE key \notin held
    <3>1. Holders(key)' = Holders(key)
      BY <1>1, <1>2, <2>3 DEF Holders, TypeOK
    <3> QED  BY <1>1, <2>1, <2>3, <3>1
  <2> QED  BY <2>2, <2>3
<1>7. GaugesExact'
  BY <1>6 DEF GaugesExact
<1>8. ConcurrencyBound'
  <2> SUFFICES ASSUME NEW rule \in GaugeRules(Rules), NEW c \in Partitions
               PROVE  Cardinality(Holders(KeyOf(rule, c))') <= rule.maxRequests
    BY DEF ConcurrencyBound
  <2> DEFINE key == KeyOf(rule, c)
  <2>1. /\ rule \in Rules /\ rule.period = PeriodConcurrent /\ rule.maxRequests \in Nat
        /\ key \in Keys
    BY KeyLemma, RuleAssumption DEF GaugeRules, Definition
  <2>2. Cardinality(Holders(key)) <= rule.maxRequests
    BY DEF IInv, ConcurrencyBound
  <2>3. CASE key \notin held
    BY <1>6, <2>1, <2>2, <2>3
  <2>4. CASE key \in held
    <3>1. PICK other \in matching : key = KeyOf(other, child) /\ other \in Rules
      BY <1>2, <2>4 DEF held, GaugeRules
    <3>2. other = rule
      BY <2>1, <3>1, SameKey
    <3>3. ~(inFlight[key] >= rule.maxRequests)
      BY <1>1, <2>1, <3>1, <3>2 DEF Breached
    <3>4. inFlight'[key] = inFlight[key] + 1 /\ inFlight[key] \in Nat
      BY <1>1, <1>2, <2>1, <2>4 DEF TypeOK
    <3>5. inFlight'[key] = Cardinality(Holders(key)')
      BY <1>6, <2>1
    <3>6. inFlight'[key] <= rule.maxRequests
      <4> HIDE DEF key
      <4> QED  BY <2>1, <3>3, <3>4
    <3> QED  BY <3>5, <3>6
  <2> QED  BY <2>3, <2>4
<1> QED  BY <1>4, <1>5, <1>7, <1>8

\* Release gives back exactly the slots that the request still holds.
LEMMA ReleaseLemma ==
  ASSUME IInv, NEW r \in Requests, Release(r)
  PROVE  /\ inFlight' \in [Keys -> Nat]
         /\ req' \in [Requests -> [phase : {"idle", "admitted", "released"}, held : SUBSET Keys]]
         /\ GaugesExact' /\ ConcurrencyBound'
<1>1. TypeOK
  BY DEF IInv
<1>2. ASSUME NEW key \in Keys
      PROVE  /\ inFlight'[key] \in Nat
             /\ inFlight'[key] = Cardinality(Holders(key)')
             /\ Cardinality(Holders(key)') <= Cardinality(Holders(key))
  <2>1. inFlight[key] = Cardinality(Holders(key)) /\ Cardinality(Holders(key)) \in Nat
    BY HoldersFinite DEF IInv, GaugesExact
  <2>2. Holders(key)' = Holders(key) \ {r}
    BY <1>1 DEF Release, Holders, TypeOK
  <2>3. CASE r \in Holders(key)
    <3>1. Cardinality(Holders(key) \ {r}) = Cardinality(Holders(key)) - 1
      BY <2>3, HoldersFinite, FS_RemoveElement
    <3>2. Cardinality(Holders(key)) # 0
      BY <2>3, HoldersFinite, FS_EmptySet
    <3>3. inFlight[key] > 0 /\ req[r].phase = "admitted" /\ key \in req[r].held
      BY <2>1, <2>3, <3>2 DEF Holders
    <3>4. inFlight'[key] = inFlight[key] - 1
      BY <3>3 DEF Release
    <3> QED  BY <2>1, <2>2, <3>1, <3>3, <3>4
  <2>4. CASE r \notin Holders(key)
    <3>1. inFlight'[key] = inFlight[key]
      BY <2>4 DEF Release, Holders
    <3>2. Holders(key)' = Holders(key)
      BY <2>2, <2>4
    <3> QED  BY <2>1, <3>1, <3>2
  <2> QED  BY <2>3, <2>4
<1>3. inFlight' \in [Keys -> Nat]
  <2>1. inFlight' = [key \in Keys |-> inFlight'[key]]
    BY DEF Release
  <2> QED  BY <1>2, <2>1
<1>4. req' \in [Requests -> [phase : {"idle", "admitted", "released"}, held : SUBSET Keys]]
  BY <1>1 DEF Release, TypeOK
<1>5. GaugesExact'
  BY <1>2 DEF GaugesExact
<1>6. ConcurrencyBound'
  <2> SUFFICES ASSUME NEW rule \in GaugeRules(Rules), NEW c \in Partitions
               PROVE  Cardinality(Holders(KeyOf(rule, c))') <= rule.maxRequests
    BY DEF ConcurrencyBound
  <2>1. rule.maxRequests \in Nat /\ KeyOf(rule, c) \in Keys
    BY KeyLemma, RuleAssumption DEF GaugeRules, Definition
  <2>2. Cardinality(Holders(KeyOf(rule, c))) <= rule.maxRequests
    BY DEF IInv, ConcurrencyBound
  <2>3. Cardinality(Holders(KeyOf(rule, c))) \in Nat
    BY HoldersFinite
  <2> QED  BY <1>2, <2>1, <2>2, <2>3
<1> QED  BY <1>3, <1>4, <1>5, <1>6

\* A reservation that is dropped held no slot any more.
LEMMA ForgetLemma ==
  ASSUME IInv, NEW r \in Requests, Forget(r)
  PROVE  /\ req' \in [Requests -> [phase : {"idle", "admitted", "released"}, held : SUBSET Keys]]
         /\ GaugesExact' /\ ConcurrencyBound'
<1>1. req' \in [Requests -> [phase : {"idle", "admitted", "released"}, held : SUBSET Keys]]
  BY DEF IInv, TypeOK, Forget, Idle
<1>2. \A key \in Keys : Holders(key)' = Holders(key)
  BY DEF IInv, TypeOK, Forget, Idle, Holders
<1>3. GaugesExact'
  BY <1>2 DEF IInv, GaugesExact, Forget
<1>4. ConcurrencyBound'
  BY <1>2, KeyLemma DEF IInv, ConcurrencyBound, GaugeRules
<1> QED  BY <1>1, <1>3, <1>4
-------------------------------------------------------------------------------
(* Removing counters *)

\* Counters that are removed together with their deadlines leave no others.
LEMMA RemoveLemma ==
  ASSUME IInv, NEW ids \in SUBSET Ids,
         win' = [id \in Ids |-> IF id \in ids THEN NewWindow ELSE win[id]],
         expiry' = [id \in Ids |-> IF id \in ids THEN Untracked ELSE expiry[id]],
         worker.closed => worker'.closed, clock' = clock
  PROVE  /\ win' \in [Ids -> Window] /\ expiry' \in [Ids -> [start : Nat, at : Nat]]
         /\ Queue' = Queue \ ids
         /\ ChildrenTracked' /\ Deadlines' /\ Begun'
<1>1. NewWindow \in Window /\ Untracked \in [start : Nat, at : Nat]
  BY DEF NewWindow, Window, Untracked
<1>2. NewWindow.start = 0 /\ Untracked.start = 0
  BY DEF NewWindow, Untracked
<1>3. TypeOK /\ ChildrenTracked /\ Deadlines
  BY DEF IInv
<1> HIDE DEF NewWindow, Untracked
<1>4. win' \in [Ids -> Window] /\ expiry' \in [Ids -> [start : Nat, at : Nat]]
  BY <1>1, <1>3 DEF TypeOK
<1>5. Queue' = Queue \ ids
  BY DEF Queue
<1>6. ChildrenTracked'
  BY <1>2, <1>3 DEF ChildrenTracked
<1>7. Deadlines'
  BY <1>3, <1>5 DEF Deadlines, Queue
<1>8. Begun'
  <2>1. Begun /\ clock \in Nat
    BY <1>3 DEF IInv, TypeOK
  <2> QED  BY <1>2, <2>1 DEF Begun
<1> QED  BY <1>4, <1>5, <1>6, <1>7, <1>8

\* A worker that goes to sleep sets its timer to the earliest deadline.
LEMMA ScanLemma ==
  ASSUME IInv, Scan
  PROVE  /\ win' \in [Ids -> Window] /\ expiry' \in [Ids -> [start : Nat, at : Nat]]
         /\ worker' \in Worker
         /\ ChildrenTracked' /\ NoLostWakeup' /\ Deadlines' /\ Begun'
<1>1. PICK batch \in SUBSET Due :
        /\ win' = [id \in Ids |-> IF id \in batch THEN NewWindow ELSE win[id]]
        /\ expiry' = [id \in Ids |-> IF id \in batch THEN Untracked ELSE expiry[id]]
        /\ worker' =
             CASE Due \ batch # {} -> worker
               [] Due \ batch = {} /\ Queue = batch ->
                    [worker EXCEPT !.phase = "wait", !.until = MaxTime + 1]
               [] Due \ batch = {} /\ Queue # batch ->
                    [worker EXCEPT !.phase = "wait",
                                   !.until = CHOOSE t \in {expiry[id].at : id \in Queue \ batch} :
                                               \A id \in Queue \ batch : t <= expiry[id].at]
  BY DEF Scan
<1>2. TypeOK /\ worker \in Worker /\ worker.phase = "scan" /\ batch \subseteq Queue /\ batch \in SUBSET Ids
  BY DEF IInv, TypeOK, Scan, Due, Queue
<1> DEFINE times    == {expiry[id].at : id \in Queue \ batch}
           earliest == CHOOSE t \in times : \A id \in Queue \ batch : t <= expiry[id].at
<1>3. \/ worker' = worker
      \/ Queue = batch /\ worker' = [worker EXCEPT !.phase = "wait", !.until = MaxTime + 1]
      \/ Queue # batch /\ worker' = [worker EXCEPT !.phase = "wait", !.until = earliest]
  BY <1>1, Zenon
<1>4. ASSUME Queue # batch
      PROVE  earliest \in Nat /\ \A id \in Queue \ batch : earliest <= expiry[id].at
  <2>1. times \in SUBSET Nat /\ times # {}
    <3>1. \A id \in Queue \ batch : expiry[id].at \in Nat
      BY <1>2 DEF TypeOK, Queue
    <3>2. PICK id \in Queue \ batch : TRUE
      BY <1>2, <1>4
    <3> QED  BY <3>1, <3>2
  <2>2. PICK t \in times : \A u \in times : t <= u
    <3> HIDE DEF times
    <3> QED  BY <2>1, LeastLemma, Zenon
  <2>3. \A id \in Queue \ batch : t <= expiry[id].at
    BY <2>2
  <2>4. earliest \in times /\ \A id \in Queue \ batch : earliest <= expiry[id].at
    <3> HIDE DEF times
    <3> QED  BY <2>2, <2>3
  <2> HIDE DEF earliest
  <2> QED  BY <2>1, <2>4
<1> HIDE DEF times, earliest
<1>5. worker' \in Worker /\ worker'.closed = worker.closed /\ worker'.wake = worker.wake
  <2>1. MaxTime + 1 \in Nat
    BY LimiterAssumption
  <2> QED  BY <1>2, <1>3, <1>4, <2>1 DEF Worker
<1>6. /\ win' \in [Ids -> Window] /\ expiry' \in [Ids -> [start : Nat, at : Nat]]
      /\ Queue' = Queue \ batch /\ ChildrenTracked' /\ Deadlines' /\ Begun'
  BY <1>1, <1>2, <1>5, RemoveLemma DEF Scan
<1>7. NoLostWakeup'
  <2> SUFFICES ASSUME worker'.phase = "wait", NEW id \in Queue \ batch
               PROVE  worker'.until <= expiry'[id].at
    BY <1>6 DEF NoLostWakeup
  <2>1. expiry'[id] = expiry[id]
    BY <1>1 DEF Queue
  <2>2. Queue # batch /\ worker'.until = earliest
    BY <1>2, <1>3 DEF Worker
  <2> QED  BY <1>4, <2>1, <2>2
<1> QED  BY <1>5, <1>6, <1>7

\* A reset tells the worker of the deadlines that it removes.
LEMMA ResetLemma ==
  ASSUME IInv, NEW rule \in Rules, Reset(rule)
  PROVE  /\ win' \in [Ids -> Window] /\ expiry' \in [Ids -> [start : Nat, at : Nat]]
         /\ worker' \in Worker
         /\ ChildrenTracked' /\ NoLostWakeup' /\ Deadlines' /\ Begun'
<1> DEFINE ids == {id \in Ids : id[2].name = rule.name /\ id[2].period = rule.period}
<1>1. /\ win' = [id \in Ids |-> IF id \in ids THEN NewWindow ELSE win[id]]
      /\ expiry' = [id \in Ids |-> IF id \in ids THEN Untracked ELSE expiry[id]]
      /\ worker' = Signal(expiry')
  BY DEF Reset
<1>2. worker' \in Worker /\ worker'.closed = worker.closed /\ NoLostWakeup'
  BY <1>1, SignalLemma DEF IInv, TypeOK
<1>3. ids \in SUBSET Ids
  OBVIOUS
<1> HIDE DEF ids
<1> QED  BY <1>1, <1>2, <1>3, RemoveLemma DEF Reset

LEMMA ResetAllLemma ==
  ASSUME IInv, ResetAll
  PROVE  /\ win' \in [Ids -> Window] /\ expiry' \in [Ids -> [start : Nat, at : Nat]]
         /\ worker' \in Worker
         /\ ChildrenTracked' /\ NoLostWakeup' /\ Deadlines' /\ Begun'
<1>1. worker' \in Worker /\ worker'.closed = worker.closed
  BY DEF IInv, TypeOK, ResetAll, Worker
<1>2. /\ win' = [id \in Ids |-> IF id \in Ids THEN NewWindow ELSE win[id]]
      /\ expiry' = [id \in Ids |-> IF id \in Ids THEN Untracked ELSE expiry[id]]
  BY DEF ResetAll
<1>3. /\ win' \in [Ids -> Window] /\ expiry' \in [Ids -> [start : Nat, at : Nat]]
      /\ Queue' = Queue \ Ids /\ ChildrenTracked' /\ Deadlines' /\ Begun'
  BY <1>1, <1>2, RemoveLemma DEF ResetAll
<1>4. NoLostWakeup'
  BY <1>3 DEF NoLostWakeup, Queue
<1> QED  BY <1>1, <1>3, <1>4
-------------------------------------------------------------------------------
(* Invariance *)

LEMMA VisitedLemma ==
  ASSUME NEW rules \in SUBSET Rules, NEW child, NEW now
  PROVE  /\ Visited(rules, child, now) \in SUBSET Ids
         /\ \A id \in Visited(rules, child, now) : id[2].period # PeriodConcurrent
<1>1. ASSUME NEW id \in Visited(rules, child, now) PROVE id \in Ids /\ id[2].period # PeriodConcurrent
  <2>1. id \in Ids
    BY DEF Visited
  <2>2. PICK rule \in WindowRules(rules) : id[2] = KeyOf(rule, child)
    BY DEF Visited
  <2>3. id[2].period = rule.period
    BY <2>2 DEF KeyOf
  <2> QED  BY <2>1, <2>2, <2>3 DEF WindowRules
<1> QED  BY <1>1

\* A call that rolls counters and leaves the gauges keeps the invariant.
LEMMA RollStep ==
  ASSUME IInv, NEW ids \in SUBSET Ids, \A id \in ids : id[2].period # PeriodConcurrent,
         NEW now \in Now, NEW add \in [Ids -> Nat], Roll(ids, now, add),
         UNCHANGED <<clock, inFlight, req, served>>
  PROVE  IInv'
<1>1. /\ win' \in [Ids -> Window] /\ expiry' \in [Ids -> [start : Nat, at : Nat]]
      /\ worker' \in Worker
      /\ ChildrenTracked' /\ NoLostWakeup' /\ Deadlines' /\ Begun'
  BY RollLemma
<1>2. GaugesExact' /\ ConcurrencyBound'
  BY GaugesKept DEF IInv
<1> QED  BY <1>1, <1>2 DEF IInv, TypeOK

LEMMA InitInvariant == Init => IInv
<1> SUFFICES ASSUME Init PROVE IInv
  OBVIOUS
<1>1. TypeOK /\ clock >= StartTime
  BY LimiterAssumption DEF Init, TypeOK, NewWindow, Window, Untracked, Worker, Idle
<1>2. \A key \in Keys : Holders(key) = {}
  BY DEF Init, Holders, Idle
<1>3. GaugesExact
  BY <1>2, FS_EmptySet DEF Init, GaugesExact
<1>4. ConcurrencyBound
  <2> SUFFICES ASSUME NEW rule \in GaugeRules(Rules), NEW child \in Partitions
               PROVE  Cardinality(Holders(KeyOf(rule, child))) <= rule.maxRequests
    BY DEF ConcurrencyBound
  <2>1. rule.maxRequests \in Nat /\ KeyOf(rule, child) \in Keys
    BY KeyLemma, RuleAssumption DEF GaugeRules, Definition
  <2> QED  BY <1>2, <2>1, FS_EmptySet
<1>5. ChildrenTracked /\ NoLostWakeup /\ Deadlines
  BY DEF Init, ChildrenTracked, NoLostWakeup, Deadlines, Queue, NewWindow, Untracked
<1>6. Begun
  BY <1>1 DEF Init, Begun, NewWindow, TypeOK
<1> QED  BY <1>1, <1>3, <1>4, <1>5, <1>6 DEF IInv

LEMMA StepInvariant == IInv /\ [Next]_vars => IInv'
<1> SUFFICES ASSUME IInv, [Next]_vars PROVE IInv'
  OBVIOUS
<1> USE DEF PeriodConcurrent
<1>none. [id \in Ids |-> 0] \in [Ids -> Nat]
  OBVIOUS
<1>1. ASSUME NEW r \in Requests, NEW rules \in Matches, NEW child \in Partitions,
             NEW now \in Now, Admit(r, rules, child, now)
      PROVE  IInv'
  <2> DEFINE matching == Matching(rules, child)
             counted  == {<<"requests", KeyOf(rule, child)>> :
                            rule \in {x \in WindowRules(matching) : x.maxRequests # NoLimit}}
             add      == [id \in Ids |-> IF id \in counted THEN 1 ELSE 0]
             ids      == Visited(matching, child, now)
  <2>1. Roll(ids, now, add) /\ clock' = clock
    BY <1>1 DEF Admit
  <2>2. ids \in SUBSET Ids /\ \A id \in ids : id[2].period # PeriodConcurrent
    BY MatchingLemma, VisitedLemma
  <2>3. add \in [Ids -> Nat]
    OBVIOUS
  <2>4. served' \in [Ids -> Nat]
    <3> HIDE DEF counted
    <3> QED  BY <1>1 DEF Admit, IInv, TypeOK, counted
  <2> HIDE DEF ids, add
  <2>5. /\ win' \in [Ids -> Window] /\ expiry' \in [Ids -> [start : Nat, at : Nat]]
        /\ worker' \in Worker
        /\ ChildrenTracked' /\ NoLostWakeup' /\ Deadlines' /\ Begun'
    BY <2>1, <2>2, <2>3, RollLemma
  <2>6. /\ inFlight' \in [Keys -> Nat]
        /\ req' \in [Requests -> [phase : {"idle", "admitted", "released"}, held : SUBSET Keys]]
        /\ GaugesExact' /\ ConcurrencyBound'
    BY <1>1, AdmitLemma
  <2> QED  BY <2>1, <2>4, <2>5, <2>6 DEF IInv, TypeOK
<1>2. ASSUME NEW r \in Requests, NEW rules \in Matches, NEW child \in Partitions,
             NEW now \in Now, Reject(r, rules, child, now)
      PROVE  IInv'
  BY <1>2, <1>none, MatchingLemma, VisitedLemma, RollStep DEF Reject
<1>3. ASSUME NEW rules \in Matches, NEW child \in Partitions, NEW now \in Now,
             Available(rules, child, now)
      PROVE  IInv'
  <2>1. PICK seen \in SUBSET Matching(rules, child) :
          /\ Roll(Visited(seen, child, now), now, [id \in Ids |-> 0])
          /\ UNCHANGED <<clock, inFlight, req, served>>
    BY <1>3 DEF Available
  <2>2. seen \in SUBSET Rules
    BY MatchingLemma
  <2> QED  BY <1>none, <2>1, <2>2, VisitedLemma, RollStep
<1>4. ASSUME NEW rule \in Rules, NEW child \in Partitions, NEW now \in Now,
             Status(rule, child, now)
      PROVE  IInv'
  <2> DEFINE ids == {id \in Ids : id[2] = KeyOf(rule, child) /\ LimitOf(rule, id[1]) # NoLimit}
  <2>1. ids \in SUBSET Ids /\ \A id \in ids : id[2].period # PeriodConcurrent
    BY <1>4, KeyLemma DEF Status, WindowRules
  <2>2. Roll(ids, now, [id \in Ids |-> 0]) /\ UNCHANGED <<clock, inFlight, req, served>>
    BY <1>4 DEF Status
  <2> HIDE DEF ids
  <2> QED  BY <1>none, <2>1, <2>2, RollStep
<1>5. ASSUME NEW rules \in Matches, NEW child \in Partitions, NEW n \in Tokens, NEW now \in Now,
             RecordTokens(rules, child, n, now)
      PROVE  IInv'
  <2> DEFINE ids == {<<"tokens", KeyOf(rule, child)>> :
                       rule \in {x \in WindowRules(Matching(rules, child)) : x.maxTokens # NoLimit}}
  <2>1. ids \in SUBSET Ids /\ \A id \in ids : id[2].period # PeriodConcurrent
    BY MatchingLemma, KeyLemma DEF WindowRules, Ids, Kinds
  <2>2. Roll(ids, now, [id \in Ids |-> n]) /\ UNCHANGED <<clock, inFlight, req, served>>
    BY <1>5 DEF RecordTokens
  <2>3. [id \in Ids |-> n] \in [Ids -> Nat]
    BY LimiterAssumption
  <2> HIDE DEF ids
  <2> QED  BY <2>1, <2>2, <2>3, RollStep
<1>6. ASSUME NEW r \in Requests, Release(r) PROVE IInv'
  <2>1. UNCHANGED <<clock, win, expiry, worker, served>>
    BY <1>6 DEF Release
  <2>2. ChildrenTracked' /\ NoLostWakeup' /\ Deadlines' /\ Begun'
    BY <2>1 DEF IInv, ChildrenTracked, NoLostWakeup, Deadlines, Queue, Begun
  <2> QED  BY <1>6, <2>1, <2>2, ReleaseLemma DEF IInv, TypeOK
<1>7. ASSUME NEW r \in Requests, Forget(r) PROVE IInv'
  <2>1. UNCHANGED <<clock, win, inFlight, expiry, worker, served>>
    BY <1>7 DEF Forget
  <2>2. ChildrenTracked' /\ NoLostWakeup' /\ Deadlines' /\ Begun'
    BY <2>1 DEF IInv, ChildrenTracked, NoLostWakeup, Deadlines, Queue, Begun
  <2> QED  BY <1>7, <2>1, <2>2, ForgetLemma DEF IInv, TypeOK
<1>8. ASSUME NEW rule \in Rules, Reset(rule) PROVE IInv'
  <2>1. served' \in [Ids -> Nat] /\ UNCHANGED <<clock, inFlight, req>>
    BY <1>8 DEF Reset, IInv, TypeOK
  <2> QED  BY <1>8, <2>1, ResetLemma, GaugesKept DEF IInv, TypeOK
<1>9. CASE ResetAll
  <2>1. served' \in [Ids -> Nat] /\ UNCHANGED <<clock, inFlight, req>>
    BY <1>9 DEF ResetAll
  <2> QED  BY <1>9, <2>1, ResetAllLemma, GaugesKept DEF IInv, TypeOK
<1>10. CASE Scan
  <2>1. UNCHANGED <<clock, inFlight, req, served>>
    BY <1>10 DEF Scan
  <2> QED  BY <1>10, <2>1, ScanLemma, GaugesKept DEF IInv, TypeOK
<1>11. CASE Wake \/ Close \/ Stop
  <2>1. /\ worker' \in Worker
        /\ worker.closed => worker'.closed
        /\ worker'.phase = "wait" => worker.phase = "wait" /\ worker'.until = worker.until
                                      /\ worker'.wake = worker.wake
        /\ UNCHANGED <<clock, win, inFlight, expiry, req, served>>
    <3>1. worker \in Worker
      BY DEF IInv, TypeOK
    <3>2. CASE Wake
      <4>1. worker' \in {[worker EXCEPT !.phase = "scan", !.wake = FALSE], [worker EXCEPT !.phase = "scan"]}
        BY <3>2 DEF Wake
      <4>2. worker' \in Worker /\ worker'.phase = "scan" /\ worker'.closed = worker.closed
        BY <3>1, <4>1 DEF Worker
      <4> QED  BY <3>2, <4>2 DEF Wake
    <3>3. CASE Close
      BY <3>1, <3>3 DEF Close, Worker
    <3>4. CASE Stop
      BY <3>1, <3>4 DEF Stop, Worker
    <3> QED  BY <1>11, <3>2, <3>3, <3>4
  <2>2. ChildrenTracked' /\ NoLostWakeup' /\ Deadlines' /\ Begun'
    BY <2>1 DEF IInv, ChildrenTracked, NoLostWakeup, Deadlines, Queue, Begun
  <2> QED  BY <2>1, <2>2, GaugesKept DEF IInv, TypeOK
<1>12. CASE Tick
  <2>1. /\ clock' = clock + 1 /\ served' \in [Ids -> Nat]
        /\ UNCHANGED <<win, inFlight, expiry, worker, req>>
    BY <1>12 DEF Tick, IInv, TypeOK
  <2>2. clock' \in Nat /\ clock' >= StartTime
    BY <2>1, LimiterAssumption DEF IInv, TypeOK
  <2>3. ChildrenTracked' /\ NoLostWakeup' /\ Deadlines'
    BY <2>1 DEF IInv, ChildrenTracked, NoLostWakeup, Deadlines, Queue
  <2>4. Begun'
    <3> SUFFICES ASSUME NEW id \in Ids PROVE win[id].start <= clock + 1
      BY <2>1 DEF Begun
    <3>1. win[id].start \in Nat /\ clock \in Nat /\ win[id].start <= clock
      BY DEF IInv, TypeOK, Begun, Window
    <3> QED  BY <3>1
  <2> QED  BY <2>1, <2>2, <2>3, <2>4, GaugesKept DEF IInv, TypeOK
<1>13. CASE UNCHANGED vars
  <2>1. ChildrenTracked' /\ NoLostWakeup' /\ Deadlines' /\ Begun'
    BY <1>13 DEF vars, IInv, ChildrenTracked, NoLostWakeup, Deadlines, Queue, Begun
  <2> QED  BY <1>13, <2>1, GaugesKept DEF vars, IInv, TypeOK
<1> QED
  BY <1>1, <1>2, <1>3, <1>4, <1>5, <1>6, <1>7, <1>8, <1>9, <1>10, <1>11, <1>12, <1>13 DEF Next

\* The inductive invariant holds in every reachable state of the limiter.
THEOREM Invariance == Spec => []IInv
  BY InitInvariant, StepInvariant, PTL DEF Spec

\* Every variable keeps its type, the counters that calls roll, the deadlines and
\* the worker's timer among them.
THEOREM TypeCorrect == Spec => []TypeOK
<1>1. IInv => TypeOK
  BY DEF IInv
<1> QED  BY <1>1, Invariance, PTL

\* release never loses a slot and never returns one twice: inFlight is the number
\* of reservations that still hold the slot, for any rules and interleaving.
THEOREM GaugesAreExact == Spec => []GaugesExact
<1>1. IInv => GaugesExact
  BY DEF IInv
<1> QED  BY <1>1, Invariance, PTL

\* admit never lets more requests hold a concurrency rule's slots than it has.
THEOREM ConcurrencyIsBounded == Spec => []ConcurrencyBound
<1>1. IInv => ConcurrencyBound
  BY DEF IInv
<1> QED  BY <1>1, Invariance, PTL

\* trackCounterExpiry misses no counter of a child, and pruning and resets leave
\* no deadline without a counter.
THEOREM ChildrenAreTracked == Spec => []ChildrenTracked
<1>1. IInv => ChildrenTracked
  BY DEF IInv
<1> QED  BY <1>1, Invariance, PTL

\* runExpiryCleanup's timer is never later than the earliest deadline, unless a
\* wake-up signal waits.
THEOREM WakeupIsNotLost == Spec => []NoLostWakeup
<1>1. IInv => NoLostWakeup
  BY DEF IInv
<1> QED  BY <1>1, Invariance, PTL

\* A counter that the worker removes has not counted for two periods.
LEMMA DueLemma ==
  ASSUME IInv, Scan, ~worker.closed, NEW id \in Ids, win'[id] # win[id]
  PROVE  UsageAt(win[id], clock, id[2].period) = 0
<1>1. id \in Due /\ id \in Queue
  BY DEF Scan, Due
<1>2. /\ win[id] \in Window /\ expiry[id] \in [start : Nat, at : Nat] /\ clock \in Nat
      /\ id[2].period \in Nat
  BY IdLemma DEF IInv, TypeOK
<1>3. /\ id[2].part # NoChild /\ id[2].period # 0
      /\ expiry[id].start + 2 * id[2].period <= expiry[id].at
  BY <1>1 DEF IInv, Deadlines, PeriodConcurrent
<1>4. expiry[id].start = win[id].start
  BY <1>3 DEF IInv, ChildrenTracked
<1>5. expiry[id].at <= clock
  BY <1>1 DEF Due
<1>6. win[id].start + 2 * id[2].period <= clock
  BY <1>2, <1>3, <1>4, <1>5
<1> QED  BY <1>2, <1>3, <1>6, UsageEnds

\* What pruneCounterExpiries removes is too old for any later check to count it.
THEOREM PruningIsUnseen == Spec => PrunesTheForgotten
<1>1. ASSUME IInv, Scan, ~worker.closed, NEW id \in Ids, win'[id] # win[id]
      PROVE  UsageAt(win[id], clock, id[2].period) = 0
  BY <1>1, DueLemma
<1>2. IInv => [Scan /\ ~worker.closed =>
                 \A id \in Ids : win'[id] # win[id] => UsageAt(win[id], clock, id[2].period) = 0]_vars
  BY <1>1
<1> QED  BY <1>2, Invariance, PTL DEF PrunesTheForgotten

\* admit is all or nothing: a rejected request changes no gauge, and no window
\* counts more or less than before when it is looked at again.
THEOREM RejectsAreFree == Spec => RejectsCostNothing
<1>1. ASSUME IInv, NEW r \in Requests, NEW rules \in Matches, NEW child \in Partitions,
             Reject(r, rules, child, clock), NEW id \in Ids, id[2].period # PeriodConcurrent
      PROVE  /\ UNCHANGED inFlight
             /\ UsageAt(win'[id], clock, id[2].period) = UsageAt(win[id], clock, id[2].period)
  <2> DEFINE now == clock
             period == id[2].period
             rolled == Advance(win[id], now, period)
  <2>1. win[id] \in Window /\ now \in Nat /\ period \in Nat \ {0}
    BY <1>1, IdLemma DEF IInv, TypeOK, PeriodConcurrent
  <2>2. rolled \in Window /\ rolled.start = AlignedStart(now, period)
    BY <2>1, AdvanceLemma
  <2>3. Advance(rolled, now, period) = rolled
    <3> HIDE DEF rolled, now, period
    <3> QED  BY <2>1, <2>2, AdvanceAgain
  <2>4. [rolled EXCEPT !.current = @ + 0] = rolled
    <3> HIDE DEF rolled
    <3> QED  BY <2>2 DEF Window
  <2>5. win'[id] \in {win[id], [rolled EXCEPT !.current = @ + 0]} /\ UNCHANGED inFlight
    BY <1>1 DEF Reject, Roll
  <2> HIDE DEF now, period, rolled
  <2>6. UsageAt(win'[id], now, period) = UsageAt(win[id], now, period)
    BY <2>3, <2>4, <2>5 DEF UsageAt, rolled
  <2> QED  BY <2>5, <2>6 DEF now, period
<1>2. IInv => [\A r \in Requests, rules \in Matches, child \in Partitions :
                 Reject(r, rules, child, clock) =>
                   /\ UNCHANGED inFlight
                   /\ \A id \in Ids : id[2].period # PeriodConcurrent =>
                        UsageAt(win'[id], clock, id[2].period) = UsageAt(win[id], clock, id[2].period)]_vars
  BY <1>1 DEF Reject
<1> QED  BY <1>2, Invariance, PTL DEF RejectsCostNothing

-------------------------------------------------------------------------------
(* Retry-After *)

\* breach reports one wait per rule: no rule has reached both its limits.
NoDoubleBreach ==
  \A rule \in WindowRules(Rules), child \in Partitions :
    ~(Reached(rule, child, "requests", clock) /\ Reached(rule, child, "tokens", clock))

\* The counter behind a limit of a rule.
LEMMA CounterLemma ==
  ASSUME IInv, NEW rule \in WindowRules(Rules), NEW child \in Partitions, NEW kind \in Kinds
  PROVE  /\ win[<<kind, KeyOf(rule, child)>>] \in Window
         /\ win[<<kind, KeyOf(rule, child)>>].start <= clock
         /\ clock \in Nat /\ rule.period \in Nat \ {0} /\ LimitOf(rule, kind) \in Nat
<1>1. <<kind, KeyOf(rule, child)>> \in Ids
  BY KeyLemma DEF Ids, WindowRules
<1>2. rule \in Definition /\ rule.period # 0
  BY RuleAssumption DEF WindowRules, PeriodConcurrent
<1> QED  BY <1>1, <1>2 DEF IInv, TypeOK, Begun, LimitOf, Definition

\* A limit that is reached later is reached now, and not any more after its own wait.
LEMMA ReachedLemma ==
  ASSUME IInv, NEW rule \in WindowRules(Rules), NEW child \in Partitions, NEW kind \in Kinds,
         NEW wait \in Nat, Reached(rule, child, kind, clock + wait)
  PROVE  /\ Reached(rule, child, kind, clock)
         /\ LET own == RetryAfter(win[<<kind, KeyOf(rule, child)>>], clock, rule.period,
                                  LimitOf(rule, kind))
            IN  own \in Nat /\ ~(own <= wait)
<1>1. PICK c \in Window : c = win[<<kind, KeyOf(rule, child)>>] /\ c.start <= clock
  BY CounterLemma
<1>2. PICK p \in Nat \ {0} : p = rule.period
  BY CounterLemma
<1>3. PICK l \in Nat \ {0} : l = LimitOf(rule, kind)
  BY CounterLemma DEF Reached, NoLimit
<1>4. PICK t \in Nat : t = clock
  BY CounterLemma
<1>5. UsageAt(c, t + wait, p) >= l
  BY <1>1, <1>2, <1>3, <1>4 DEF Reached
<1>6. \A u \in Nat : UsageAt(c, u, p) \in Int
  BY UsageCovers, Zenon
<1>7. Reached(rule, child, kind, clock)
  <2>1. t + wait \in Nat /\ t <= t + wait /\ c.start <= t
    BY <1>1, <1>4
  <2>2. UsageAt(c, t + wait, p) <= UsageAt(c, t, p)
    BY <2>1, UsageFalls, Zenon
  <2>3. UsageAt(c, t, p) >= l
    BY <1>5, <1>6, <2>1, <2>2
  <2> QED  BY <1>1, <1>2, <1>3, <1>4, <2>3 DEF Reached, NoLimit
<1>8. PICK own \in Nat : /\ own = RetryAfter(c, t, p, l)
                         /\ UsageAt(c, t + own, p) < l
  <2>1. /\ RetryAfter(c, t, p, l) \in 1..(2 * p)
        /\ UsageAt(c, t + RetryAfter(c, t, p, l), p) < l
    BY <1>1, <1>4, RetryAfterIsLeast, Zenon
  <2>2. RetryAfter(c, t, p, l) \in Nat
    BY <2>1
  <2> QED  BY <2>1, <2>2, Zenon
<1>9. ~(own <= wait)
  <2> SUFFICES ASSUME own <= wait PROVE FALSE
    OBVIOUS
  <2>1. /\ t + own \in Nat /\ t + wait \in Nat /\ c.start <= t + own
        /\ t + own <= t + wait
    BY <1>1, <1>4 DEF Window
  <2>2. UsageAt(c, t + wait, p) <= UsageAt(c, t + own, p)
    BY <2>1, UsageFalls, Zenon
  <2> QED  BY <1>5, <1>6, <1>8, <2>1, <2>2
<1> QED  BY <1>1, <1>2, <1>3, <1>4, <1>7, <1>8, <1>9, Zenon

\* Nothing but the limit that is reached decides the wait of its rule.
LEMMA WaitLemma ==
  ASSUME IInv, NoDoubleBreach, NEW rule \in WindowRules(Rules), NEW child \in Partitions,
         NEW kind \in Kinds, Reached(rule, child, kind, clock)
  PROVE  WaitFor(rule, child) = RetryAfter(win[<<kind, KeyOf(rule, child)>>], clock, rule.period,
                                           LimitOf(rule, kind))
<1>1. rule.period # PeriodConcurrent
  BY DEF WindowRules
<1>2. CASE kind = "requests"
  BY <1>1, <1>2 DEF WaitFor, LimitOf
<1>3. CASE kind = "tokens"
  <2>1. ~Reached(rule, child, "requests", clock)
    BY <1>3 DEF NoDoubleBreach
  <2> QED  BY <1>1, <1>3, <2>1 DEF WaitFor, LimitOf
<1> QED  BY <1>2, <1>3 DEF Kinds

LEMMA WaitsAreNumbers ==
  ASSUME IInv, NEW rule \in Rules, NEW child \in Partitions, Breached(rule, child, clock)
  PROVE  WaitFor(rule, child) \in Nat
<1>1. CASE rule.period = PeriodConcurrent
  BY <1>1 DEF WaitFor
<1>2. CASE rule.period # PeriodConcurrent
  <2>1. rule \in WindowRules(Rules)
    BY <1>2 DEF WindowRules
  <2>2. ASSUME NEW kind \in Kinds, Reached(rule, child, kind, clock)
        PROVE  RetryAfter(win[<<kind, KeyOf(rule, child)>>], clock, rule.period,
                          LimitOf(rule, kind)) \in Nat
    <3>1. /\ win[<<kind, KeyOf(rule, child)>>] \in Window
          /\ win[<<kind, KeyOf(rule, child)>>].start <= clock
          /\ clock \in Nat /\ rule.period \in Nat \ {0} /\ LimitOf(rule, kind) \in Nat \ {0}
      BY <2>1, <2>2, CounterLemma DEF Reached, NoLimit
    <3>2. RetryAfter(win[<<kind, KeyOf(rule, child)>>], clock, rule.period, LimitOf(rule, kind))
            \in 1..(2 * rule.period)
      BY <3>1, RetryAfterIsLeast, Zenon
    <3> QED  BY <3>2
  <2>3. PICK kind \in Kinds : Reached(rule, child, kind, clock)
    BY <1>2 DEF Breached
  <2>4. CASE Reached(rule, child, "requests", clock)
    <3>1. WaitFor(rule, child) = RetryAfter(win[<<"requests", KeyOf(rule, child)>>], clock,
                                            rule.period, rule.maxRequests)
      BY <1>2, <2>4 DEF WaitFor
    <3> QED  BY <2>2, <2>4, <3>1 DEF LimitOf, Kinds
  <2>5. CASE ~Reached(rule, child, "requests", clock)
    <3>1. WaitFor(rule, child) = RetryAfter(win[<<"tokens", KeyOf(rule, child)>>], clock,
                                            rule.period, rule.maxTokens)
      BY <1>2, <2>5 DEF WaitFor
    <3>2. Reached(rule, child, "tokens", clock)
      BY <2>3, <2>5 DEF Kinds
    <3> QED  BY <2>2, <3>1, <3>2 DEF LimitOf, Kinds
  <2> QED  BY <2>4, <2>5
<1> QED  BY <1>1, <1>2

LEMMA HonestLemma ==
  ASSUME IInv, NoDoubleBreach
  PROVE  RetryIsHonest
<1> SUFFICES ASSUME NEW rules \in Matches, NEW child \in Partitions,
                    NEW first \in Matching(rules, child), Breached(first, child, clock),
                    NEW wait, wait = WaitFor(first, child),
                    \A rule \in Matching(rules, child) :
                      Breached(rule, child, clock) => WaitFor(rule, child) <= wait,
                    NEW rule \in WindowRules(Matching(rules, child)),
                    Breached(rule, child, clock + wait)
             PROVE  FALSE
  BY DEF RetryIsHonest
<1>1. /\ first \in Rules /\ rule \in Rules /\ rule \in WindowRules(Rules)
      /\ rule \in Matching(rules, child) /\ rule.period # PeriodConcurrent
  BY MatchingLemma DEF WindowRules
<1>2. wait \in Nat
  BY <1>1, WaitsAreNumbers
<1>3. PICK kind \in Kinds : Reached(rule, child, kind, clock + wait)
  BY <1>1 DEF Breached
<1> DEFINE own == RetryAfter(win[<<kind, KeyOf(rule, child)>>], clock, rule.period,
                             LimitOf(rule, kind))
<1>4. Reached(rule, child, kind, clock) /\ own \in Nat /\ ~(own <= wait)
  BY <1>1, <1>2, <1>3, ReachedLemma
<1>5. WaitFor(rule, child) = own
  BY <1>1, <1>4, WaitLemma
<1>6. WaitFor(rule, child) <= wait
  <2>1. Breached(rule, child, clock)
    BY <1>1, <1>4 DEF Breached
  <2> QED  BY <1>1, <2>1
<1> QED  BY <1>4, <1>5, <1>6, Zenon

\* Retry-After is honest in every state in which no rule has reached both its
\* limits.  In one in which a rule has, breach reports the wait of the request
\* limit alone, and the token limit may still reject after it.
THEOREM RetryIsHonestOrDouble == Spec => [](NoDoubleBreach => RetryIsHonest)
<1>1. IInv => (NoDoubleBreach => RetryIsHonest)
  BY HonestLemma
<1> QED  BY <1>1, Invariance, PTL

\* Retry-After is always honest when each rule limits requests or tokens only.
THEOREM RetryIsHonestForOneLimit ==
  ASSUME \A rule \in Rules : rule.maxRequests = NoLimit \/ rule.maxTokens = NoLimit
  PROVE  Spec => []RetryIsHonest
<1>1. NoDoubleBreach
  BY DEF NoDoubleBreach, Reached, LimitOf, WindowRules
<1>2. IInv => RetryIsHonest
  BY <1>1, HonestLemma
<1> QED  BY <1>2, Invariance, PTL

-------------------------------------------------------------------------------
(* Windows admit their limit, if a call brings the present time *)

\* What is served in the aligned window of the clock is counted there.
Counted == \A id \in Ids : id[2].period # PeriodConcurrent =>
             served[id] <= Advance(win[id], clock, id[2].period).current

BoundInv == ~worker.closed => Counted /\ WindowBound

LEMMA MultipleLemma ==
  ASSUME NEW t \in Nat, NEW p \in Nat \ {0}
  PROVE  \E q \in Int : AlignedStart(t, p) = p * q
<1>1. t \div p \in Int
  OBVIOUS
<1>2. t % p = t - p * (t \div p)
  BY ModLemma
<1>3. PICK m \in Int : m = p * (t \div p)
  BY <1>1
<1>4. t % p = t - m
  BY <1>2, <1>3
<1>5. AlignedStart(t, p) = m
  BY <1>4 DEF AlignedStart
<1> QED  BY <1>1, <1>3, <1>5

LEMMA ApartLemma ==
  ASSUME NEW p \in Nat, NEW a \in Int, NEW b \in Int, a > b
  PROVE  p * a >= p * b + p
<1>1. PICK d \in Nat : a = b + 1 + d
  BY a - b - 1 \in Nat
<1>2. p * (b + 1 + d) = p * b + p + p * d /\ p * d >= 0
  OBVIOUS
<1> QED  BY <1>1, <1>2

\* The clock stays in its aligned window until the next multiple of the period.
LEMMA SameWindow ==
  ASSUME NEW t \in Nat, NEW p \in Nat \ {0}, (t + 1) % p # 0
  PROVE  AlignedStart(t + 1, p) = AlignedStart(t, p)
<1> DEFINE s == AlignedStart(t, p)
           S == AlignedStart(t + 1, p)
<1>0. t + 1 \in Nat /\ (t + 1) % p \in 0..(p - 1)
  OBVIOUS
<1>1. s \in Nat /\ s <= t /\ s > t - p
  BY StartLemma
<1>2. S \in Nat /\ S <= t + 1 /\ S > t + 1 - p
  <2>1. PICK u \in Nat : u = t + 1
    BY <1>0
  <2>2. AlignedStart(u, p) \in Nat /\ AlignedStart(u, p) <= u /\ AlignedStart(u, p) > u - p
    BY StartLemma
  <2>3. S = AlignedStart(u, p)
    BY <2>1
  <2> HIDE DEF S
  <2> QED  BY <2>1, <2>2, <2>3
<1>3. S # t + 1
  BY <1>0 DEF AlignedStart
<1>4. PICK q \in Int : s = p * q
  BY MultipleLemma
<1>5. PICK Q \in Int : S = p * Q
  BY <1>0, MultipleLemma
<1> HIDE DEF s, S
<1>6. ~(q > Q) /\ ~(Q > q)
  BY <1>1, <1>2, <1>3, <1>4, <1>5, ApartLemma
<1>7. q = Q
  BY <1>6
<1> QED  BY <1>4, <1>5, <1>7 DEF s, S

\* A call counts what it adds, and what was counted in the window stays.
LEMMA RolledCount ==
  ASSUME IInv, MaxDelay = 0, NEW ids \in SUBSET Ids, NEW now \in Now,
         NEW add \in [Ids -> Nat], Roll(ids, now, add),
         NEW id \in Ids, id[2].period # PeriodConcurrent
  PROVE  /\ Advance(win[id], clock, id[2].period).current \in Nat
         /\ Advance(win'[id], clock, id[2].period).current
              = Advance(win[id], clock, id[2].period).current + IF id \in ids THEN add[id] ELSE 0
<1> DEFINE period == id[2].period
<1>1. clock \in Nat /\ now = clock /\ win[id] \in Window /\ period \in Nat \ {0}
  <2>1. clock \in Nat /\ win[id] \in Window
    BY DEF IInv, TypeOK
  <2>2. now = clock
    BY <2>1 DEF Now
  <2>3. period \in Nat \ {0}
    BY IdLemma DEF PeriodConcurrent
  <2> QED  BY <2>1, <2>2, <2>3
<1>2. PICK v \in Window : v = Advance(win[id], clock, period) /\ v.start = AlignedStart(clock, period)
  BY <1>1, AdvanceLemma
<1>3. win'[id] = IF id \in ids THEN [v EXCEPT !.current = @ + add[id]] ELSE win[id]
  BY <1>1, <1>2 DEF Roll
<1> HIDE DEF period
<1>4. CASE id \in ids
  <2>1. PICK n \in Nat : n = add[id]
    OBVIOUS
  <2>2. PICK u \in Window : u = win'[id] /\ u.start = v.start /\ u.current = v.current + n
    BY <1>3, <1>4, <2>1 DEF Window
  <2>3. Advance(u, clock, period) = u
    BY <1>1, <1>2, <2>2, AdvanceAgain
  <2> QED  BY <1>2, <1>4, <2>1, <2>2, <2>3 DEF Window, period
<1>5. CASE id \notin ids
  BY <1>2, <1>3, <1>5 DEF Window, period
<1> QED  BY <1>4, <1>5

\* A call that admits nothing.
LEMMA RollBound ==
  ASSUME IInv, MaxDelay = 0, BoundInv, NEW ids \in SUBSET Ids, NEW now \in Now,
         NEW add \in [Ids -> Nat], Roll(ids, now, add), UNCHANGED <<clock, inFlight, req, served>>
  PROVE  BoundInv'
<1>1. worker'.closed = worker.closed
  BY SignalLemma DEF IInv, TypeOK, Roll
<1>2. ASSUME ~worker.closed, NEW id \in Ids, id[2].period # PeriodConcurrent
      PROVE  served[id] <= Advance(win'[id], clock, id[2].period).current
  <2>1. PICK n \in Nat : n = Advance(win[id], clock, id[2].period).current
    BY <1>2, RolledCount
  <2>2. PICK k \in Nat : k = IF id \in ids THEN add[id] ELSE 0
    OBVIOUS
  <2>3. Advance(win'[id], clock, id[2].period).current = n + k
    BY <1>2, <2>1, <2>2, RolledCount
  <2>4. served[id] \in Nat /\ served[id] <= n
    BY <1>2, <2>1 DEF BoundInv, Counted, IInv, TypeOK
  <2> QED  BY <2>3, <2>4
<1>3. ~worker.closed => Counted' /\ WindowBound'
  BY <1>2 DEF BoundInv, Counted, WindowBound
<1> QED  BY <1>1, <1>3 DEF BoundInv

\* A request is admitted below the limit, and counted.
LEMMA AdmitBound ==
  ASSUME IInv, MaxDelay = 0, BoundInv, NEW r \in Requests, NEW rules \in Matches,
         NEW child \in Partitions, NEW now \in Now, Admit(r, rules, child, now)
  PROVE  BoundInv'
<1> DEFINE matching == Matching(rules, child)
           counted  == {<<"requests", KeyOf(rule, child)>> :
                          rule \in {x \in WindowRules(matching) : x.maxRequests # NoLimit}}
           ids      == Visited(matching, child, now)
           add      == [id \in Ids |-> IF id \in counted THEN 1 ELSE 0]
<1>1. /\ \A rule \in matching : ~Breached(rule, child, now)
      /\ Roll(ids, now, add) /\ clock' = clock
      /\ served' = [id \in Ids |->
           IF id \in counted /\ AlignedStart(now, id[2].period) = AlignedStart(clock, id[2].period)
           THEN served[id] + 1 ELSE served[id]]
  BY DEF Admit
<1>2. matching \subseteq Rules /\ ids \in SUBSET Ids /\ add \in [Ids -> Nat]
  BY MatchingLemma, VisitedLemma
<1>3. clock \in Nat /\ now = clock
  BY DEF IInv, TypeOK, Now
<1>4. worker'.closed = worker.closed
  BY <1>1, SignalLemma DEF IInv, TypeOK, Roll
<1>5. counted \subseteq ids
  <2> SUFFICES ASSUME NEW rule \in WindowRules(matching), rule.maxRequests # NoLimit
               PROVE  <<"requests", KeyOf(rule, child)>> \in ids
    OBVIOUS
  <2>1. KeyOf(rule, child) \in Keys
    BY <1>2, KeyLemma DEF WindowRules
  <2> QED  BY <2>1 DEF Visited, Ids, Kinds, LimitOf
<1>6. ASSUME ~worker.closed, NEW id \in Ids, id[2].period # PeriodConcurrent
      PROVE  served'[id] <= Advance(win'[id], clock, id[2].period).current
  <2> HIDE DEF ids, counted
  <2>1. PICK n \in Nat : n = Advance(win[id], clock, id[2].period).current
    BY <1>1, <1>2, <1>6, RolledCount
  <2>2. PICK k \in Nat : k = IF id \in ids THEN add[id] ELSE 0
    BY <1>2
  <2>3. Advance(win'[id], clock, id[2].period).current = n + k
    <3> HIDE DEF add
    <3> QED  BY <1>1, <1>2, <1>6, <2>1, <2>2, RolledCount
  <2>4. served[id] \in Nat /\ served[id] <= n
    BY <1>6, <2>1 DEF BoundInv, Counted, IInv, TypeOK
  <2>5. served'[id] = IF id \in counted THEN served[id] + 1 ELSE served[id]
    BY <1>1, <1>3
  <2>6. id \in counted => k = 1
    BY <1>5, <2>2
  <2> QED  BY <2>3, <2>4, <2>5, <2>6
<1>7. ASSUME ~worker.closed, NEW rule \in WindowRules(Rules), NEW c \in Partitions,
             rule.maxRequests # NoLimit
      PROVE  served'[<<"requests", KeyOf(rule, c)>>] <= rule.maxRequests
  <2> DEFINE id == <<"requests", KeyOf(rule, c)>>
  <2>1. /\ rule \in Rules /\ id \in Ids /\ id[2].period = rule.period
        /\ rule.period # PeriodConcurrent /\ rule.maxRequests \in Nat /\ rule.period \in Nat \ {0}
    BY KeyLemma, RuleAssumption DEF WindowRules, Ids, Kinds, Definition, PeriodConcurrent
  <2>2. served[id] \in Nat /\ served[id] <= rule.maxRequests
    BY <1>7, <2>1 DEF BoundInv, WindowBound, IInv, TypeOK
  <2>3. CASE id \notin counted
    <3> HIDE DEF id, counted
    <3> QED  BY <1>1, <2>1, <2>2, <2>3 DEF id
  <2>4. CASE id \in counted
    <3>1. PICK x \in WindowRules(matching) : KeyOf(x, child) = KeyOf(rule, c)
      BY <2>4
    <3>2. x = rule /\ rule \in matching
      BY <1>2, <2>1, <3>1, SameKey DEF WindowRules
    <3>3. ~Reached(rule, child, "requests", now)
      BY <1>1, <2>1, <3>2 DEF Breached, Kinds
    <3>4. ~(UsageAt(win[id], clock, rule.period) >= rule.maxRequests)
      BY <1>3, <1>7, <3>1, <3>2, <3>3 DEF Reached, LimitOf
    <3>5. win[id] \in Window
      BY <2>1 DEF IInv, TypeOK
    <3>6. /\ UsageAt(win[id], clock, rule.period) \in Int
          /\ Advance(win[id], clock, rule.period).current <= UsageAt(win[id], clock, rule.period)
      BY <1>3, <2>1, <3>5, UsageCovers
    <3>7. served[id] <= Advance(win[id], clock, rule.period).current
      BY <1>7, <2>1 DEF BoundInv, Counted
    <3>8. Advance(win[id], clock, rule.period).current \in Nat
      BY <1>3, <2>1, <3>5, AdvanceLemma DEF Window
    <3>9. served[id] < rule.maxRequests
      <4> HIDE DEF id
      <4> QED  BY <2>1, <2>2, <3>4, <3>6, <3>7, <3>8
    <3>10. served'[id] \in {served[id], served[id] + 1}
      <4> HIDE DEF id, counted
      <4> QED  BY <1>1, <2>1
    <3> HIDE DEF id
    <3> QED  BY <2>1, <2>2, <3>9, <3>10 DEF id
  <2> QED  BY <2>3, <2>4
<1>8. ~worker.closed => Counted' /\ WindowBound'
  BY <1>1, <1>6, <1>7 DEF Counted, WindowBound
<1> QED  BY <1>4, <1>8 DEF BoundInv

\* What is removed is too old to have served in this window.
LEMMA ScanBound ==
  ASSUME IInv, BoundInv, Scan
  PROVE  BoundInv'
<1>1. UNCHANGED <<clock, inFlight, req, served>>
  BY DEF Scan
<1>2. worker'.closed = worker.closed
  BY DEF Scan, IInv, TypeOK, Worker
<1>3. ASSUME ~worker.closed, NEW id \in Ids, id[2].period # PeriodConcurrent
      PROVE  served[id] <= Advance(win'[id], clock, id[2].period).current
  <2>1. served[id] \in Nat /\ served[id] <= Advance(win[id], clock, id[2].period).current
    BY <1>3 DEF BoundInv, Counted, IInv, TypeOK
  <2>2. CASE win'[id] = win[id]
    BY <2>1, <2>2
  <2>3. CASE win'[id] # win[id]
    <3>1. id \in Due /\ win'[id] = NewWindow
      BY <2>3 DEF Scan
    <3>2. win[id] \in Window /\ clock \in Nat /\ id[2].period \in Nat \ {0} /\ NewWindow \in Window
      BY <1>3, IdLemma DEF IInv, TypeOK, PeriodConcurrent, NewWindow, Window
    <3>3. UsageAt(win[id], clock, id[2].period) = 0
      BY <1>3, <2>3, DueLemma
    <3>4. served[id] = 0
      <4>1. PICK n \in Nat : n = Advance(win[id], clock, id[2].period).current
        BY <3>2, AdvanceLemma DEF Window
      <4>2. n <= 0
        BY <3>2, <3>3, <4>1, UsageCovers
      <4> QED  BY <2>1, <4>1, <4>2
    <3>5. Advance(win'[id], clock, id[2].period).current \in Nat
      BY <3>1, <3>2, AdvanceLemma DEF Window
    <3> QED  BY <3>4, <3>5
  <2> QED  BY <2>2, <2>3
<1>4. ~worker.closed => Counted' /\ WindowBound'
  BY <1>1, <1>3 DEF BoundInv, Counted, WindowBound
<1> QED  BY <1>2, <1>4 DEF BoundInv

\* Resets clear the history with the counters.
LEMMA ClearBound ==
  ASSUME IInv, BoundInv, (\E rule \in Rules : Reset(rule)) \/ ResetAll
  PROVE  BoundInv'
<1>1. /\ worker'.closed = worker.closed /\ clock' = clock
      /\ \A id \in Ids : \/ win'[id] = win[id] /\ served'[id] = served[id]
                         \/ win'[id] = NewWindow /\ served'[id] = 0
  <2>1. CASE \E rule \in Rules : Reset(rule)
    BY <2>1, SignalLemma DEF Reset, IInv, TypeOK
  <2>2. CASE ResetAll
    BY <2>2 DEF ResetAll, IInv, TypeOK, Worker
  <2> QED  BY <2>1, <2>2
<1>2. ASSUME ~worker.closed, NEW id \in Ids, id[2].period # PeriodConcurrent
      PROVE  served'[id] <= Advance(win'[id], clock, id[2].period).current
  <2>1. served[id] <= Advance(win[id], clock, id[2].period).current
    BY <1>2 DEF BoundInv, Counted
  <2>2. NewWindow \in Window /\ clock \in Nat /\ id[2].period \in Nat \ {0}
    BY <1>2, IdLemma DEF IInv, TypeOK, PeriodConcurrent, NewWindow, Window
  <2>3. Advance(NewWindow, clock, id[2].period).current >= 0
    <3>1. Advance(NewWindow, clock, id[2].period) \in Window
      BY <2>2, AdvanceLemma, Zenon
    <3> QED  BY <3>1 DEF Window
  <2> QED  BY <1>1, <2>1, <2>3
<1>3. ASSUME ~worker.closed, NEW rule \in WindowRules(Rules), NEW c \in Partitions,
             rule.maxRequests # NoLimit
      PROVE  served'[<<"requests", KeyOf(rule, c)>>] <= rule.maxRequests
  <2>1. <<"requests", KeyOf(rule, c)>> \in Ids /\ rule.maxRequests \in Nat
    BY KeyLemma, RuleAssumption DEF WindowRules, Ids, Kinds, Definition
  <2>2. served[<<"requests", KeyOf(rule, c)>>] <= rule.maxRequests
    BY <1>3 DEF BoundInv, WindowBound
  <2> QED  BY <1>1, <2>1, <2>2
<1>4. ~worker.closed => Counted' /\ WindowBound'
  BY <1>1, <1>2, <1>3 DEF Counted, WindowBound
<1> QED  BY <1>1, <1>4 DEF BoundInv

\* A boundary ends the history of a window; up to it the counter stays current.
LEMMA TickBound ==
  ASSUME IInv, BoundInv, Tick
  PROVE  BoundInv'
<1>1. /\ clock' = clock + 1 /\ clock \in Nat /\ UNCHANGED <<win, worker>>
      /\ served' = [id \in Ids |-> IF id[2].period # 0 /\ clock' % id[2].period = 0
                                   THEN 0 ELSE served[id]]
  BY DEF Tick, IInv, TypeOK
<1>2. ASSUME ~worker.closed, NEW id \in Ids, id[2].period # PeriodConcurrent
      PROVE  served'[id] <= Advance(win[id], clock + 1, id[2].period).current
  <2>1. win[id] \in Window /\ clock + 1 \in Nat /\ id[2].period \in Nat \ {0}
    BY <1>1, <1>2, IdLemma DEF IInv, TypeOK, PeriodConcurrent
  <2>2. Advance(win[id], clock + 1, id[2].period).current \in Nat
    BY <2>1, AdvanceLemma DEF Window
  <2>3. CASE (clock + 1) % id[2].period = 0
    BY <1>1, <2>1, <2>2, <2>3
  <2>4. CASE (clock + 1) % id[2].period # 0
    <3>1. AlignedStart(clock + 1, id[2].period) = AlignedStart(clock, id[2].period)
      BY <1>1, <2>1, <2>4, SameWindow
    <3>2. Advance(win[id], clock + 1, id[2].period) = Advance(win[id], clock, id[2].period)
      BY <3>1 DEF Advance
    <3>3. served'[id] = served[id]
      BY <1>1, <2>4
    <3> QED  BY <1>2, <3>2, <3>3 DEF BoundInv, Counted
  <2> QED  BY <2>3, <2>4
<1>3. ASSUME ~worker.closed, NEW rule \in WindowRules(Rules), NEW c \in Partitions,
             rule.maxRequests # NoLimit
      PROVE  served'[<<"requests", KeyOf(rule, c)>>] <= rule.maxRequests
  <2>1. <<"requests", KeyOf(rule, c)>> \in Ids /\ rule.maxRequests \in Nat
    BY KeyLemma, RuleAssumption DEF WindowRules, Ids, Kinds, Definition
  <2>2. served[<<"requests", KeyOf(rule, c)>>] <= rule.maxRequests
    BY <1>3 DEF BoundInv, WindowBound
  <2>3. served'[<<"requests", KeyOf(rule, c)>>] \in {0, served[<<"requests", KeyOf(rule, c)>>]}
    BY <1>1, <2>1
  <2> QED  BY <2>1, <2>2, <2>3
<1>4. ~worker.closed => Counted' /\ WindowBound'
  BY <1>1, <1>2, <1>3 DEF Counted, WindowBound
<1> QED  BY <1>1, <1>4 DEF BoundInv

LEMMA InitBound == Init => BoundInv
<1> SUFFICES ASSUME Init PROVE Counted /\ WindowBound
  BY DEF BoundInv
<1>1. ASSUME NEW id \in Ids, id[2].period # PeriodConcurrent
      PROVE  served[id] <= Advance(win[id], clock, id[2].period).current
  <2>1. NewWindow \in Window /\ clock \in Nat /\ id[2].period \in Nat \ {0}
    BY <1>1, IdLemma, LimiterAssumption DEF Init, PeriodConcurrent, NewWindow, Window
  <2>2. Advance(NewWindow, clock, id[2].period).current >= 0
    <3>1. Advance(NewWindow, clock, id[2].period) \in Window
      BY <2>1, AdvanceLemma, Zenon
    <3> QED  BY <3>1 DEF Window
  <2> QED  BY <2>2 DEF Init
<1>2. ASSUME NEW rule \in WindowRules(Rules), NEW c \in Partitions
      PROVE  served[<<"requests", KeyOf(rule, c)>>] <= rule.maxRequests
  <2>1. <<"requests", KeyOf(rule, c)>> \in Ids /\ rule.maxRequests \in Nat
    BY KeyLemma, RuleAssumption DEF WindowRules, Ids, Kinds, Definition
  <2> QED  BY <2>1 DEF Init
<1> QED  BY <1>1, <1>2 DEF Counted, WindowBound

LEMMA StepBound ==
  ASSUME MaxDelay = 0
  PROVE  IInv /\ BoundInv /\ [Next]_vars => BoundInv'
<1> SUFFICES ASSUME IInv, BoundInv, [Next]_vars PROVE BoundInv'
  OBVIOUS
<1>none. [id \in Ids |-> 0] \in [Ids -> Nat]
  OBVIOUS
<1>1. ASSUME NEW r \in Requests, NEW rules \in Matches, NEW child \in Partitions,
             NEW now \in Now, Admit(r, rules, child, now)
      PROVE  BoundInv'
  BY <1>1, AdmitBound
<1>2. ASSUME NEW r \in Requests, NEW rules \in Matches, NEW child \in Partitions,
             NEW now \in Now, Reject(r, rules, child, now)
      PROVE  BoundInv'
  BY <1>2, <1>none, MatchingLemma, VisitedLemma, RollBound DEF Reject
<1>3. ASSUME NEW rules \in Matches, NEW child \in Partitions, NEW now \in Now,
             Available(rules, child, now)
      PROVE  BoundInv'
  <2>1. PICK seen \in SUBSET Matching(rules, child) :
          /\ Roll(Visited(seen, child, now), now, [id \in Ids |-> 0])
          /\ UNCHANGED <<clock, inFlight, req, served>>
    BY <1>3 DEF Available
  <2>2. seen \in SUBSET Rules
    BY MatchingLemma
  <2> QED  BY <1>none, <2>1, <2>2, VisitedLemma, RollBound
<1>4. ASSUME NEW rule \in Rules, NEW child \in Partitions, NEW now \in Now,
             Status(rule, child, now)
      PROVE  BoundInv'
  BY <1>4, <1>none, RollBound DEF Status
<1>5. ASSUME NEW rules \in Matches, NEW child \in Partitions, NEW n \in Tokens, NEW now \in Now,
             RecordTokens(rules, child, n, now)
      PROVE  BoundInv'
  <2> DEFINE ids == {<<"tokens", KeyOf(rule, child)>> :
                       rule \in {x \in WindowRules(Matching(rules, child)) : x.maxTokens # NoLimit}}
  <2>1. ids \in SUBSET Ids
    BY MatchingLemma, KeyLemma DEF WindowRules, Ids, Kinds
  <2>2. Roll(ids, now, [id \in Ids |-> n]) /\ UNCHANGED <<clock, inFlight, req, served>>
    BY <1>5 DEF RecordTokens
  <2>3. [id \in Ids |-> n] \in [Ids -> Nat]
    BY LimiterAssumption
  <2> HIDE DEF ids
  <2> QED  BY <2>1, <2>2, <2>3, RollBound
<1>6. CASE \/ \E r \in Requests : Release(r) \/ Forget(r)
           \/ Wake \/ Close \/ Stop \/ UNCHANGED vars
  <2>1. UNCHANGED <<clock, win, served>> /\ worker \in Worker
    BY <1>6 DEF Release, Forget, Wake, Close, Stop, vars, IInv, TypeOK
  <2>2. worker.closed => worker'.closed
    BY <1>6, <2>1 DEF Release, Forget, Wake, Close, Stop, vars, Worker
  <2> QED  BY <2>1, <2>2 DEF BoundInv, Counted, WindowBound
<1>7. CASE (\E rule \in Rules : Reset(rule)) \/ ResetAll
  BY <1>7, ClearBound
<1>8. CASE Scan
  BY <1>8, ScanBound
<1>9. CASE Tick
  BY <1>9, TickBound
<1> QED
  BY <1>1, <1>2, <1>3, <1>4, <1>5, <1>6, <1>7, <1>8, <1>9 DEF Next

\* An aligned window admits no more requests than its rule allows, for any rules,
\* children and requests, as long as calls bring the present time and the limiter
\* has not been closed: a closed one no longer moves deadlines, and a batch that
\* was due may take a counter that has rolled since.
THEOREM WindowsAreBounded ==
  ASSUME MaxDelay = 0
  PROVE  Spec => [](~worker.closed => WindowBound)
<1>1. Init => BoundInv
  BY InitBound
<1>2. IInv /\ BoundInv /\ [Next]_vars => BoundInv'
  BY StepBound
<1>3. BoundInv => (~worker.closed => WindowBound)
  BY DEF BoundInv
<1> QED
  BY <1>1, <1>2, <1>3, Invariance, PTL DEF Spec
===============================================================================
