------------------------------ MODULE RateLimiter ------------------------------
(***************************************************************************)
(* The limiter of internal/ratelimit: window counters and concurrency      *)
(* gauges under one mutex, the reservations requests hold, and the worker  *)
(* that forgets the counters of inactive children.                         *)
(*                                                                         *)
(* A caller reads the clock before it gets the mutex: the time it brings   *)
(* may be up to MaxDelay seconds old by then.  The rules do not change     *)
(* here (RateLimitRules changes them).                                     *)
(***************************************************************************)
EXTENDS SlidingWindow, FiniteSets

CONSTANTS Requests,  \* goroutines that serve requests
          Rules,     \* rule definitions
          Matches,   \* the sets of definitions that cover some request
          Children,  \* direct children of the per-child rules' paths
          NoChild,   \* no child: the shared partition
          Tokens,    \* token amounts a response can report
          Batch,     \* maxExpiryCleanupBatch
          MaxDelay,  \* bound of the age of a caller's time
          StartTime, \* unix time of the start, late enough for windows to count
          MaxTime,   \* bound of the clock
          MaxCount   \* bound of what a token window is charged

PeriodConcurrent == 0  \* the period of a concurrency rule
NoLimit          == 0  \* a nil MaxRequests or MaxTokens

Definition == [name : STRING, period : Nat, maxRequests : Nat, maxTokens : Nat,
               perChild : BOOLEAN]

\* NormalizeRule, and the store's primary key.
ASSUME RuleAssumption ==
  /\ Rules \subseteq Definition /\ IsFiniteSet(Rules)
  /\ \A rule \in Rules :
       IF rule.period = PeriodConcurrent
       THEN rule.maxRequests # NoLimit /\ rule.maxTokens = NoLimit
       ELSE rule.maxRequests # NoLimit \/ rule.maxTokens # NoLimit
  /\ \A a, b \in Rules : a.name = b.name /\ a.period = b.period => a = b
  /\ Matches \subseteq SUBSET Rules
  /\ NoChild \notin Children

ASSUME LimiterAssumption ==
  /\ IsFiniteSet(Requests) /\ IsFiniteSet(Children)
  /\ Tokens \subseteq Nat \ {0} /\ Batch \in Nat \ {0}
  /\ MaxDelay \in Nat /\ StartTime \in Nat /\ MaxTime \in Nat /\ MaxCount \in Nat
  /\ MaxDelay <= StartTime /\ \A rule \in Rules : rule.period + MaxDelay <= StartTime

VARIABLES clock,     \* wall time
          win,       \* the window counters, of requests and of tokens
          inFlight,  \* the concurrency gauges
          expiry,    \* expiryByCounter
          worker,    \* the expiry worker
          req,       \* what each goroutine is doing
          served     \* history: admissions in the aligned window of the clock

vars == <<clock, win, inFlight, expiry, worker, req, served>>

-------------------------------------------------------------------------------
(* Keys and counters *)

\* The effective subjects a rule can have.
Partitions == Children \union {NoChild}

\* keyForRule of the rule resolved for a child.
KeyOf(rule, child) == [name |-> rule.name, period |-> rule.period,
                       part |-> IF rule.perChild THEN child ELSE NoChild]

Keys  == {KeyOf(rule, child) : rule \in Rules, child \in Partitions}
Kinds == {"requests", "tokens"}
Ids   == Kinds \X Keys

LimitOf(rule, kind) == IF kind = "requests" THEN rule.maxRequests ELSE rule.maxTokens

WindowRules(rules) == {rule \in rules : rule.period # PeriodConcurrent}
GaugeRules(rules)  == {rule \in rules : rule.period = PeriodConcurrent}

\* resolve: a per-child rule covers the paths below its own only.
Matching(rules, child) == {rule \in rules : rule.perChild => child # NoChild}

Untracked == [start |-> 0, at |-> 0]

Worker == [phase : {"new", "scan", "wait", "done"}, wake : BOOLEAN,
           until : Nat, closed : BOOLEAN]

Idle == [phase |-> "idle", held |-> {}]

Init == /\ clock = StartTime
        /\ win = [id \in Ids |-> NewWindow]
        /\ inFlight = [key \in Keys |-> 0]
        /\ expiry = [id \in Ids |-> Untracked]
        /\ worker = [phase |-> "new", wake |-> FALSE, until |-> 0, closed |-> FALSE]
        /\ req = [r \in Requests |-> Idle]
        /\ served = [id \in Ids |-> 0]

-------------------------------------------------------------------------------
(* breach and its effects *)

\* Mutant: the check lets a rule exceed its limit by one.
ReachedOffByOne(rule, child, kind, now) ==
  /\ LimitOf(rule, kind) # NoLimit
  /\ UsageAt(win[<<kind, KeyOf(rule, child)>>], now, rule.period) > LimitOf(rule, kind)

\* The usage of a limit of the rule has reached it.
Reached(rule, child, kind, now) ==
  /\ LimitOf(rule, kind) # NoLimit
  /\ UsageAt(win[<<kind, KeyOf(rule, child)>>], now, rule.period) >= LimitOf(rule, kind)

\* Mutant: the same for the gauges.
BreachedOffByOne(rule, child, now) ==
  IF rule.period = PeriodConcurrent
  THEN inFlight[KeyOf(rule, child)] > rule.maxRequests
  ELSE \E kind \in Kinds : Reached(rule, child, kind, now)

\* breach
Breached(rule, child, now) ==
  IF rule.period = PeriodConcurrent
  THEN inFlight[KeyOf(rule, child)] >= rule.maxRequests
  ELSE \E kind \in Kinds : Reached(rule, child, kind, now)

\* The counters breach rolls: a breached request limit hides the token limit.
Visited(rules, child, now) ==
  {id \in Ids : \E rule \in WindowRules(rules) :
     /\ id[2] = KeyOf(rule, child) /\ LimitOf(rule, id[1]) # NoLimit
     /\ id[1] = "tokens" => ~Reached(rule, child, "requests", now)}

\* Mutant: a counter is tracked once, and keeps its first deadline.
TrackedOnce(ids, newWin) ==
  [id \in Ids |->
     IF /\ id \in ids /\ id[2].part # NoChild /\ ~worker.closed
        /\ newWin[id].start # 0 /\ expiry[id] = Untracked
     THEN [start |-> newWin[id].start, at |-> clock + 2 * id[2].period]
     ELSE expiry[id]]

\* trackCounterExpiry, for each of ids: a child's counter that has rolled gets a
\* new deadline by wall time.
Tracked(ids, newWin) ==
  [id \in Ids |->
     IF /\ id \in ids /\ id[2].part # NoChild /\ ~worker.closed
        /\ newWin[id].start # 0 /\ expiry[id].start # newWin[id].start
     THEN [start |-> newWin[id].start, at |-> clock + 2 * id[2].period]
     ELSE expiry[id]]

\* Mutant: the worker is not told of a changed deadline.
NoSignal(newExpiry) == IF newExpiry # expiry /\ worker.phase = "new"
                       THEN [worker EXCEPT !.phase = "scan"] ELSE worker

\* wakeExpiryCleanup after a change of the deadlines; the first one starts the
\* worker.
Signal(newExpiry) ==
  IF newExpiry = expiry THEN worker
  ELSE [worker EXCEPT !.wake = TRUE, !.phase = IF @ = "new" THEN "scan" ELSE @]

\* A call rolls the counters of ids to now, then adds what the call counts.
Roll(ids, now, add) ==
  LET newWin == [id \in Ids |->
                   IF id \in ids
                   THEN [Advance(win[id], now, id[2].period) EXCEPT !.current = @ + add[id]]
                   ELSE win[id]]
  IN  /\ win' = newWin
      /\ expiry' = Tracked(ids, newWin)
      /\ worker' = Signal(Tracked(ids, newWin))

\* What a caller's clock can have read.
Now == {t \in 0..clock : t >= clock - MaxDelay}

-------------------------------------------------------------------------------
(* Requests *)

\* admit commits one request to every matching rule.
Admit(r, rules, child, now) ==
  LET matching == Matching(rules, child)
      counted  == {<<"requests", KeyOf(rule, child)>> :
                     rule \in {x \in WindowRules(matching) : x.maxRequests # NoLimit}}
      held     == {KeyOf(rule, child) : rule \in GaugeRules(matching)}
  IN
  /\ req[r].phase = "idle"
  /\ \A rule \in matching : ~Breached(rule, child, now)
  /\ Roll(Visited(matching, child, now), now,
          [id \in Ids |-> IF id \in counted THEN 1 ELSE 0])
  /\ inFlight' = [key \in Keys |-> IF key \in held THEN inFlight[key] + 1 ELSE inFlight[key]]
  /\ req' = [req EXCEPT ![r] = [phase |-> "admitted", held |-> held]]
  /\ served' = [id \in Ids |->
                  IF id \in counted /\ AlignedStart(now, id[2].period) = AlignedStart(clock, id[2].period)
                  THEN served[id] + 1 ELSE served[id]]
  /\ UNCHANGED clock

\* Mutant: the rules that are not breached count a rejected request.
RejectCounted(r, rules, child, now) ==
  LET matching == Matching(rules, child)
      counted  == {<<"requests", KeyOf(rule, child)>> :
                     rule \in {x \in WindowRules(matching) :
                                 x.maxRequests # NoLimit /\ ~Breached(x, child, now)}}
  IN
  /\ req[r].phase = "idle"
  /\ \E rule \in matching : Breached(rule, child, now)
  /\ Roll(Visited(matching, child, now), now,
          [id \in Ids |-> IF id \in counted THEN 1 ELSE 0])
  /\ UNCHANGED <<clock, inFlight, req, served>>

\* A rejected request rolls the counters it looks at.
Reject(r, rules, child, now) ==
  LET matching == Matching(rules, child) IN
  /\ req[r].phase = "idle"
  /\ \E rule \in matching : Breached(rule, child, now)
  /\ Roll(Visited(matching, child, now), now, [id \in Ids |-> 0])
  /\ UNCHANGED <<clock, inFlight, req, served>>

\* available stops at the first rule that is breached, whichever comes first.
Available(rules, child, now) ==
  \E seen \in SUBSET Matching(rules, child) :
    LET breached == {rule \in seen : Breached(rule, child, now)} IN
    /\ Cardinality(breached) <= 1
    /\ breached = {} => seen = Matching(rules, child)
    /\ Roll(Visited(seen, child, now), now, [id \in Ids |-> 0])
    /\ UNCHANGED <<clock, inFlight, req, served>>

\* status of one rule: both its counters.
Status(rule, child, now) ==
  /\ rule \in WindowRules(Matching(Rules, child))
  /\ Roll({id \in Ids : id[2] = KeyOf(rule, child) /\ LimitOf(rule, id[1]) # NoLimit},
          now, [id \in Ids |-> 0])
  /\ UNCHANGED <<clock, inFlight, req, served>>

\* Mutant: each call of Release returns the slots.
ReleaseEachCall(r) ==
  /\ req[r].phase \in {"admitted", "released"}
  /\ inFlight' = [key \in Keys |-> IF key \in req[r].held THEN inFlight[key] - 1 ELSE inFlight[key]]
  /\ req' = [req EXCEPT ![r].phase = "released"]
  /\ UNCHANGED <<clock, win, expiry, worker, served>>

\* Reservation.Release: the first call returns the slots, a later one nothing.
Release(r) ==
  /\ req[r].phase \in {"admitted", "released"}
  /\ inFlight' = [key \in Keys |->
                    IF req[r].phase = "admitted" /\ key \in req[r].held /\ inFlight[key] > 0
                    THEN inFlight[key] - 1 ELSE inFlight[key]]
  /\ req' = [req EXCEPT ![r].phase = "released"]
  /\ UNCHANGED <<clock, win, expiry, worker, served>>

\* The handler returns and drops the reservation it has released.
Forget(r) ==
  /\ req[r].phase = "released"
  /\ req' = [req EXCEPT ![r] = Idle]
  /\ UNCHANGED <<clock, win, inFlight, expiry, worker, served>>

\* recordTokens, from the usage tap: what the response reports is not checked.
RecordTokens(rules, child, n, now) ==
  LET ids == {<<"tokens", KeyOf(rule, child)>> :
                rule \in {x \in WindowRules(Matching(rules, child)) : x.maxTokens # NoLimit}}
  IN
  /\ \A id \in ids : win[id].current + n <= MaxCount
  /\ Roll(ids, now, [id \in Ids |-> n])
  /\ UNCHANGED <<clock, inFlight, req, served>>

-------------------------------------------------------------------------------
(* Administration *)

\* reset of one definition: every partition, and no gauge.
Reset(rule) ==
  LET ids == {id \in Ids : id[2].name = rule.name /\ id[2].period = rule.period} IN
  /\ win' = [id \in Ids |-> IF id \in ids THEN NewWindow ELSE win[id]]
  /\ expiry' = [id \in Ids |-> IF id \in ids THEN Untracked ELSE expiry[id]]
  /\ worker' = Signal(expiry')
  /\ served' = [id \in Ids |-> IF id \in ids THEN 0 ELSE served[id]]
  /\ UNCHANGED <<clock, inFlight, req>>

ResetAll ==
  /\ win' = [id \in Ids |-> NewWindow]
  /\ expiry' = [id \in Ids |-> Untracked]
  /\ worker' = [worker EXCEPT !.wake = @ \/ worker.phase # "new"]
  /\ served' = [id \in Ids |-> 0]
  /\ UNCHANGED <<clock, inFlight, req>>

-------------------------------------------------------------------------------
(* The expiry worker *)

Queue == {id \in Ids : expiry[id] # Untracked}
Due   == {id \in Queue : expiry[id].at <= clock}

\* The next batch in the order of the heap.
NextBatch(batch) ==
  /\ batch \subseteq Due
  /\ Cardinality(batch) = IF Cardinality(Due) < Batch THEN Cardinality(Due) ELSE Batch
  /\ \A id \in batch, other \in Due \ batch : expiry[id].at <= expiry[other].at

\* Mutant: the worker reads the deadline of the queue as it was when it started.
ScanThenSleep ==
  /\ worker.phase = "scan"
  /\ \E batch \in SUBSET Due :
       /\ NextBatch(batch)
       /\ win' = [id \in Ids |-> IF id \in batch THEN NewWindow ELSE win[id]]
       /\ expiry' = [id \in Ids |-> IF id \in batch THEN Untracked ELSE expiry[id]]
       /\ worker' = [worker EXCEPT !.phase = "wait", !.until = MaxTime + 1]
  /\ UNCHANGED <<clock, inFlight, req, served>>

\* pruneCounterExpiries: one batch under the mutex; the worker goes on while more
\* is due, else it sleeps until the next deadline, if there is one.
Scan ==
  /\ worker.phase = "scan"
  /\ \E batch \in SUBSET Due :
       /\ NextBatch(batch)
       /\ win' = [id \in Ids |-> IF id \in batch THEN NewWindow ELSE win[id]]
       /\ expiry' = [id \in Ids |-> IF id \in batch THEN Untracked ELSE expiry[id]]
       /\ worker' =
            CASE Due \ batch # {} -> worker
              [] Due \ batch = {} /\ Queue = batch ->
                   [worker EXCEPT !.phase = "wait", !.until = MaxTime + 1]
              [] Due \ batch = {} /\ Queue # batch ->
                   [worker EXCEPT !.phase = "wait",
                                  !.until = CHOOSE t \in {expiry[id].at : id \in Queue \ batch} :
                                              \A id \in Queue \ batch : t <= expiry[id].at]
  /\ UNCHANGED <<clock, inFlight, req, served>>

\* The timer fires, or the wake channel has a signal, which is taken.
Wake == /\ worker.phase = "wait"
        /\ \/ worker.wake /\ worker' = [worker EXCEPT !.phase = "scan", !.wake = FALSE]
           \/ clock >= worker.until /\ worker' = [worker EXCEPT !.phase = "scan"]
        /\ UNCHANGED <<clock, win, inFlight, expiry, req, served>>

\* close, and the worker's return when it next waits.
Close == /\ ~worker.closed
         /\ worker' = [worker EXCEPT !.closed = TRUE]
         /\ UNCHANGED <<clock, win, inFlight, expiry, req, served>>

Stop == /\ worker.phase = "wait" /\ worker.closed
        /\ worker' = [worker EXCEPT !.phase = "done"]
        /\ UNCHANGED <<clock, win, inFlight, expiry, req, served>>

Tick == /\ clock < MaxTime
        /\ clock' = clock + 1
        /\ served' = [id \in Ids |-> IF id[2].period # 0 /\ clock' % id[2].period = 0
                                     THEN 0 ELSE served[id]]
        /\ UNCHANGED <<win, inFlight, expiry, worker, req>>

-------------------------------------------------------------------------------

Next == \/ \E r \in Requests, rules \in Matches, child \in Partitions :
             \E now \in Now : Admit(r, rules, child, now)
        \/ \E r \in Requests, rules \in Matches, child \in Partitions :
             \E now \in Now : Reject(r, rules, child, now)
        \/ \E rules \in Matches, child \in Partitions :
             \E now \in Now : Available(rules, child, now)
        \/ \E rule \in Rules, child \in Partitions :
             \E now \in Now : Status(rule, child, now)
        \/ \E rules \in Matches, child \in Partitions, n \in Tokens :
             \E now \in Now : RecordTokens(rules, child, n, now)
        \/ \E r \in Requests : Release(r) \/ Forget(r)
        \/ \E rule \in Rules : Reset(rule)
        \/ ResetAll
        \/ Scan \/ Wake \/ Close \/ Stop
        \/ Tick

Spec == Init /\ [][Next]_vars

\* The worker is scheduled and time passes; nothing else has to happen.
FairSpec == Spec /\ WF_vars(Scan) /\ WF_vars(Wake) /\ WF_vars(Stop) /\ WF_vars(Tick)

-------------------------------------------------------------------------------
(* Properties *)

TypeOK == /\ clock \in Nat
          /\ win \in [Ids -> Window]
          /\ inFlight \in [Keys -> Nat]
          /\ expiry \in [Ids -> [start : Nat, at : Nat]]
          /\ worker \in Worker
          /\ req \in [Requests -> [phase : {"idle", "admitted", "released"}, held : SUBSET Keys]]
          /\ served \in [Ids -> Nat]

Holders(key) == {r \in Requests : req[r].phase = "admitted" /\ key \in req[r].held}

\* A gauge is the number of unreleased reservations that hold its slot, whatever
\* resets and repeated releases happen meanwhile.
GaugesExact == \A key \in Keys : inFlight[key] = Cardinality(Holders(key))

\* No more requests are in flight than a concurrency rule allows.
ConcurrencyBound ==
  \A rule \in GaugeRules(Rules), child \in Partitions :
    Cardinality(Holders(KeyOf(rule, child))) <= rule.maxRequests

\* An aligned window admits no more requests than its rule allows.
WindowBound ==
  \A rule \in WindowRules(Rules), child \in Partitions :
    rule.maxRequests # NoLimit =>
      served[<<"requests", KeyOf(rule, child)>>] <= rule.maxRequests

\* Less than two limits' worth of requests is admitted in an aligned window,
\* wherever its boundaries fall: what the sliding window is for.
NoDoubledBurst ==
  \A rule \in WindowRules(Rules), child \in Partitions :
    rule.maxRequests > 1 =>
      served[<<"requests", KeyOf(rule, child)>>] < 2 * rule.maxRequests

\* A rejected request is charged to no rule: the usage every later check sees is
\* what it was.
RejectsCostNothing ==
  [][\A r \in Requests, rules \in Matches, child \in Partitions :
       Reject(r, rules, child, clock) =>
         /\ UNCHANGED inFlight
         /\ \A id \in Ids : id[2].period # PeriodConcurrent =>
              UsageAt(win'[id], clock, id[2].period) = UsageAt(win[id], clock, id[2].period)]_vars

\* The wait reported for a breached rule: its request limit comes first.
WaitFor(rule, child) ==
  CASE rule.period = PeriodConcurrent -> 1
    [] rule.period # PeriodConcurrent /\ Reached(rule, child, "requests", clock) ->
         RetryAfter(win[<<"requests", KeyOf(rule, child)>>], clock, rule.period, rule.maxRequests)
    [] OTHER ->
         RetryAfter(win[<<"tokens", KeyOf(rule, child)>>], clock, rule.period, rule.maxTokens)

\* Retry-After is honest: if nothing else arrives, no window rejects a retry after
\* the longest of the waits of the breached rules.
RetryIsHonest ==
  \A rules \in Matches, child \in Partitions :
    LET matching == Matching(rules, child)
        breached == {rule \in matching : Breached(rule, child, clock)}
        waits    == {WaitFor(rule, child) : rule \in breached}
    IN  \A wait \in waits : (\A other \in waits : other <= wait) =>
          \A rule \in WindowRules(matching) : ~Breached(rule, child, clock + wait)

\* Each child counter in memory has a deadline for its window, and nothing else
\* has one: the counters of inactive children do not accumulate.
ChildrenTracked ==
  ~worker.closed =>
    \A id \in Ids : id[2].part # NoChild => expiry[id].start = win[id].start

\* A sleeping worker has not missed a deadline: it wakes for the earliest, or has
\* a signal waiting.
NoLostWakeup ==
  worker.phase = "wait" /\ ~worker.wake => \A id \in Queue : worker.until <= expiry[id].at

\* Until it is closed, the worker only removes counters that no check can count
\* any more.
PrunesTheForgotten ==
  [][Scan /\ ~worker.closed =>
       \A id \in Ids : win'[id] # win[id] => UsageAt(win[id], clock, id[2].period) = 0]_vars

\* A child counter that is left alone is removed after its deadline.
ChildrenForgotten ==
  \A id \in Ids : (id \in Due /\ ~worker.closed) ~> (id \notin Due \/ worker.closed)
===============================================================================
