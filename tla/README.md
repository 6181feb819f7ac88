# Nexus gateway: specifications

TLA+ specifications of the gateway in this repository, the TLC models that check them on
small instances, and proofs of theorems about them for the TLA+ proof system (TLAPS).
Paths below are relative to the repository; definitions are in `tla/`.
`PROJECT.json` maps every definition to the lines it models, lists the hazards of the code
with the properties that watch over them, and names the runs and the theorems.

* [1. The system](#1-the-system) - components, state, operations, interactions
* [2. The modules](#2-the-modules) - what each one models and how it corresponds to the code
* [3. The runs](#3-the-runs) - what is checked, on which instances, under which fairness
* [4. Where code and documentation disagree](#4-where-code-and-documentation-disagree)
* [5. The proofs](#5-the-proofs)
* [6. What is left out](#6-what-is-left-out)
* [7. The plan](#7-the-plan)

## 1. The system

The gateway is one Go process. It accepts OpenAI- and Anthropic-style requests, resolves a
model name to a provider and a model, admits the request against rate limits and budgets,
calls the provider (with retries, circuit breakers and failover), and records usage and
audit entries. Its configuration is reloaded on SIGHUP by building a second
application beside the running one and handing over.

The components that carry logic of their own:

**Upstream client** (`internal/llmclient`). One `Client` per provider.
*State*: the provider's circuit breaker, or a table of up to 1024 per-model breakers with pin
counts and last-use times. *Operations*: `DoRaw`, `DoStream`, `DoPassthrough`, each
`beginRequest`, attempts with backoff, and `finishRequest`; on the breaker `acquire`,
`RecordSuccess`, `RecordFailure`, `releaseProbe`; on the table `breakerForModel` and
`releaseModelBreaker`. *Interactions*: called by provider adapters from any number of request
goroutines at once; hooks feed the telemetry gauges. *Hard*: outcomes of requests that began
in an earlier state of the breaker; probes that end without a verdict; cancellation against
answer against timer; eviction while a breaker is in use. *Correct when*: the half-open slot
is never lost, probes do not retry, an open breaker ends through a probe and nothing else, a
cancelled caller is no verdict about the provider, the gauge is exact, the table is bounded
and forgets only what is idle and closed.

**Rate limiter** (`internal/ratelimit`, called from `internal/server/ratelimit_support.go`,
the gateway's failover and the usage logger). *State*: sliding-window counters for requests
and tokens, concurrency gauges, expiry deadlines of per-child counters - all under one
mutex - and the rule list. *Operations*: `admit`, `available`, `release`, `recordTokens`,
`status`, `reset`, `resetAll`, `snapshot`, `restore`, the expiry worker, the flush loop,
`Start`, `Close`, `Refresh`. *Interactions*: handlers hold a `Reservation`; the usage tap
charges tokens after the response; the counters are saved to a store that the next
generation of the process reads. *Hard*: times read before the mutex; all-or-nothing
admission over several rules; repeated releases; resets during requests; the worker's sleep;
a reset against a flush; a reload against a last flush. *Correct when*: gauges are exact
and bounded, windows admit their limit, rejections cost nothing, Retry-After is honest,
counters neither leak nor vanish early, resets hold and a reload hands the
windows over.

**Process lifecycle** (`run/run.go`, `internal/app/app.go`). *State*: the serving generation,
its watcher and its teardown, the replacement in flight, the listener. *Operations*: serve,
watch for SIGHUP, build, hand over, shut down. *Interactions*: owns every other component; a
generation's shutdown closes them in order. *Hard*: signals at any moment, builds that fail,
servers that stop by themselves, shutdowns that overrun. *Correct when*: every generation is
torn down once, successors wait for predecessors, a failed reload costs nothing, a reload is
not lost, and a stop signal ends the process.

**Failover and inference orchestration** (`internal/gateway`). *State*: per request only.
*Operations*: the primary call, then a sweep over the failover targets with authorizer, rate
limit gate and attempt cap. *Hard*: which error is returned, what is skipped against what is
attempted, a client that goes away. *Correct when*: at most the cap of targets is called, none
that is refused or limited, and nothing after the client has gone.

**Usage and audit loggers** (`internal/usage`, `internal/auditlog`). *State*: a bounded
channel, a batch, the closed flag, a wait group of the writers. *Operations*: `Write`,
`flushLoop`, `flushBatch`, `Close`. *Interactions*: each entry is announced to the live broker
when it is complete, and again when it is stored, failed or dropped. *Hard*: writes that race
`Close`, a full buffer, a store that fails. *Correct when*: each entry that is accepted is
stored once or reported as failed, none is written after the store is closed, and no
announcement is left open.

**Live dashboard broker and feed** (`internal/live`, `internal/admin/handler_live.go`, the
dashboard's `live-logs-logic.js`). *State*: a sequence counter, a ring of recent events, a
snapshot per unfinished entry, the subscribers; per stream what it has seen; in the page a
cursor. *Operations*: publish, subscribe with replay or reset, unsubscribe, close; forward,
heartbeat, end of stream; deliver, reconnect. *Hard*: slow subscribers, filters, cut
connections, a reload that replaces the broker under an open page, lists that are fetched
apart from the stream. *Correct when*: a cursor never asks for less than the stream owes the
page, no channel is closed twice, and a page that stays connected catches up.

**Virtual models and sticky sessions** (`internal/virtualmodels`). *State*: a snapshot of the
models and a bounded map of pins. *Operations*: `balancedResolution` with `lookup`, `resolve`
and `repin`; `Refresh` with `prune`. *Hard*: concurrent first requests of one session, a
selector that decides outside the lock, pins to targets that are down or have left. *Correct
when*: requests of a session leave on one target unless something moved it, and the table
drops only the pin that expires soonest.

**Batch orchestration, budgets, runtime refresh, provider registry, streaming, response
cache, stores, realtime relay, MCP gateway, plugins, telemetry, configuration,
admin API**: see `components` in `PROJECT.json`, where each has its sources and a note. Most
are sequential transformations, or key-value persistence.

How they interact on one request: the model name is resolved (virtual models, router) to a
provider and a model; `ratelimit.Service.Acquire` admits the request for its user path,
provider and model; the gateway's orchestrator calls a provider adapter, and that
`llmclient.Client`, which calls the upstream. On the way back the usage tap of
`internal/ratelimit/usage_tap.go` calls `RecordTokens`, and the handler's deferred `Release`
returns the gauges.

## 2. The modules

| module | models | uses |
|---|---|---|
| `CircuitBreaker` | the breaker as a data type | |
| `LLMClient` | concurrent requests on one breaker | `CircuitBreaker` |
| `ModelBreakers` | the table of per-model breakers | `CircuitBreaker` |
| `SlidingWindow` | `windowCounter` as a data type | |
| `WindowReference` | abstract: a counter that rolls at each boundary | |
| `WindowCounter` | one lazily rolled counter; implements `WindowReference` | `SlidingWindow` |
| `RateLimiter` | the limiter, its callers and its expiry worker | `SlidingWindow` |
| `CounterPersistence` | flush, reset, start and close over generations | |
| `Generations` | the process: serve, reload, tear down | |
| `BufferedLogger` | the usage and audit loggers; implements `EntryLedger` | |
| `EntryLedger` | abstract: what becomes of an entry | |
| `LiveFeed` | broker, stream handlers and pages | |
| `StickySessions` | pins, and the requests of sessions | |
| `MCModelBreakers`, `MCRateLimiter`, `MCStickySessions` | instances: rules, symmetry | |
| `RateLimiterProofs` | proofs about `SlidingWindow`, `WindowCounter` and `RateLimiter` | |
| `LLMClientProofs`, `ModelBreakersProofs`, `CounterPersistenceProofs`, `GenerationsProofs`, `BufferedLoggerProofs`, `LiveFeedProofs`, `StickySessionsProofs` | proofs about the module of that name | |

A definition whose comment begins with "Mutant" is a plausible bug that shows a property
is able to fail; no specification uses it.

### CircuitBreaker, LLMClient

A breaker is a record; each method that runs under `circuitBreaker.mu` is one operator on it,
so an action of a client module is one critical section. Two abstractions: the clock is the
Boolean `cooled` ("more than `timeout` since `lastFailure`"), which is all `acquire` reads;
and `failures` is saturated at the threshold, which is all it is compared with.

In `LLMClient` a request is a goroutine with a phase: `idle`, `sent` (an attempt is on the
wire) and `backoff`. `Begin` and `Reject` are `beginRequest`; `BuildError`, `TransportError`,
`ClientTimeout`, `CanceledAttempt`, `RetryableStatus`, `FinalStatus` and `Succeed` are the ways
the loop body of the entry points can go; `NextAttempt` is the decision whether to go round
again; `Complete`, `Finish` and `ReleaseHalfOpenProbe` are `completeScope`, `finishRequest` and
`releaseHalfOpenProbe`. `BackoffElapsed` and `BackoffAborted` are the two arms of
`waitForRetryAttempt`; both may be taken when both are ready, as in a Go `select`. A response is
two facts: whether its status is retryable and whether the breaker counts it; these sets are
configured and independent, so all four combinations occur.

### ModelBreakers

Breakers are heap objects with identities, because the table and the requests hold
*references*: that is what makes eviction dangerous. `Find`, `Add`, `Replace` and `Refuse` are
the outcomes of `breakerForModel`; an entry's time of last use is its age in ticks. A request's
attempts are collapsed to the verdict it ends with; `LLMClient` has them in full.

### SlidingWindow, WindowReference, WindowCounter

`Advance`, `Estimate` and `RetryAfter` are the methods of `windowCounter` and the binary search
of `retryAfter`. The weight is the exact fraction where the code has a `float64`: both are
non-increasing and agree at the ends of a window; in between the float may come out one lower
where the exact product is whole. `WindowReference` is what the counter promises: two counts
that move at each boundary as time passes. `WindowCounter`, rolled only if and when a call
comes, implements it under `cur <- Rolled.current`, `prev <- Rolled.previous`. Its names begin
with `Counter` because its theorems stand beside those of `RateLimiter`.

### RateLimiter

An action is one critical section of `limiter.mu`. `win` holds both counters of every key,
`NewWindow` standing for a key that is not in the map. Each call brings a time that may be up
to `MaxDelay` seconds old, because callers read the clock before they take the mutex. `Visited`
is the set of counters a check rolls: `breach` looks at a rule's request limit first and
returns there when it is breached. `Available` may stop at any breached rule: the order of
rules is left open. `Tracked` and `Signal` are `trackCounterExpiry` and `wakeExpiryCleanup`;
`Scan`, `Wake` and `Stop` are the worker. `served` is history: what the aligned window that
covers the present has admitted.

### CounterPersistence

One rule with one long window, and several generations of the process over one store. A counter
is the *set* of hits it counts, so that a hit that is lost or comes back shows, and which.
Each generation has the thread of `startServer` (`start`), that of `Shutdown` (`close`), the
flush loop or last write (`flush`: `persistMu` is held from snapshot to write) and a
`ResetRule` (`reset`: memory first, then the row). Stores may fail, the process may crash, a
shutdown may overrun its budget and go on beside its successor. `Hit` is an admission or a
`RecordTokens`. It is possible as long as the generation's objects are there: realtime sessions
are hijacked connections (`internal/server/realtime_service.go:249`) and the observers of calls
run in a context of their own (`realtime_webrtc_service.go:314`), so that they go on recording
after the drain and after `Close`. `drained` is history: the counter when the drain ended.

### Generations

`main`, `watcher` and `teardown` are the goroutines of `serveUntilShutdown`, `watchForReload`
and the one `serveGeneration` starts; `app[g]` is what `internal/app` keeps of a generation:
whether its server is registered, has been told to stop, and how far `Shutdown` is. The
replacement channel is `watcher.next`. The replacement of a generation is always a fresh
one, so generations are numbered in the order they are built.

### BufferedLogger, EntryLedger

The two loggers have the same structure and are modelled once. `Write` is seven steps, one per
access to shared state: the first look at the flag, `Add(1)`, the second look, the event
`completed`, the send, the event for a dropped entry, `Done`. The channel and the batch are
sets, since no property tells their order apart. `flushBatch` is one `WriteBatch`, which
succeeds or fails, and then an event per entry. `Close` is the swap of the flag, `Wait` (with
the moment between its release and its return, in which an `Add(1)` is a misuse that Go
answers with a panic), the stop channel and the store. `EntryLedger` is the promise: an entry
is new, accepted while the store is open, and settled as stored or failed; the store closes
when nothing is pending.

### LiveFeed

An event is its sequence number and the entry it is about, and it either opens the entry or
ends it; what a page has of an entry is the newest event that the stream gave it (`given`).
`Publish` is `publishEvent`: counter, snapshot, ring and fan-out in one critical section, which closes the
channel of a subscriber that is full. `Connect` is the subscription with its replay (`Replay`,
`NeedsReset`) or reset, `Forward`, `Beat` and `EndOfStream` the arms of the handler's `select`,
`Deliver` the page's `applyLiveLogEvent`. What the handler has written and the page has not read
is lost when a connection breaks. `Restart` puts a new broker under the pages that are open.
Ring slots that no replay can reach are left out (`Capacity`).

The stored lists that the pages also show are not modelled. They come from requests of their
own - one that the audit page waits for before it subscribes (`AuditLogsPage.svelte:49-53`), and
one that a reset starts and nobody waits for (`live-logs-logic.js:90`) - which may fail or come
late, and no step of the stream reads them. So the properties are about what the stream owes a
page. An answer made of snapshots (to a cursor of 0, or after a reset) says nothing of entries
that have ended; `base` is the sequence of the last such answer, and `Owed` are the entries that
were active then or that an event was about since.

### StickySessions

A request goes through four critical points: it takes the pool of viable targets, looks its
pin up, decides outside the lock, and commits through `resolve`, `repin` or not at all. Which
target a strategy or a selector names is left open, so every strategy is covered. `Written` is
`setLocked` with its prune and eviction; time is the ticks a pin has left. `calm` and
`followed` are history: nothing has moved the session since the request arrived, and the
request left on what the table answered.

## 3. The runs

`tlc -config X.cfg M` in this directory. Every property of a run that passes has a mutant that
breaks it.

| run | module, configuration | asks | distinct states |
|---|---|---|---|
| `llm` | `LLMClient`, `LLMClient.cfg` | `SlotHeldByProbe`, `ProbeSendsOnce`, `GaugeExact`, `OpenEndsWithProbe`, `CancelIsNoVerdict`, `SlotReturns`, `Recovers` | 84 012 |
| `model_breakers` | `MCModelBreakers`, `ModelBreakers_safety.cfg` | `PinnedStays`, `PinsExact`, `Bounded`, `ProtectsOpen` | 35 851 |
| `window_counter` | `WindowCounter`, `WindowCounter.cfg` | `CountsWhatHappened` (refinement), `RetryIsLeast`, `NoDoubleBurst` | 9 584 |
| `limiter_admission` | `MCRateLimiter`, `RateLimiter_admission.cfg` | `GaugesExact`, `ConcurrencyBound`, `WindowBound`, `RetryIsHonest`, `RejectsCostNothing` | 14 004 |
| `limiter_expiry` | `MCRateLimiter`, `RateLimiter_expiry.cfg` | `ChildrenTracked`, `NoLostWakeup`, `PrunesTheForgotten`, `ChildrenForgotten` | 52 916 |
| `limiter_boundary` | `MCRateLimiter`, `RateLimiter_boundary.cfg` | `NoDoubledBurst` (violated) | |
| `persistence` | `CounterPersistence`, `CounterPersistence.cfg` | `ResetHolds`, `DurableStays`, `DrainedIsHandedOver`, `ClosedStaysClosed`, `ShutdownEnds` | 542 330 |
| `generations` | `Generations`, `Generations.cfg` | `TornDownOnce`, `OneAtATime`, `OnlyEndedForCause`, `ReloadTakesEffect` | 12 132 |
| `generations_stop` | `Generations`, `Generations_stop.cfg` | `StopEnds` (violated) | |
| `logger` | `BufferedLogger`, `BufferedLogger.cfg` | `AcceptedOnce` (refinement), `SnapshotsArePending`, `Settles` | 32 448 |
| `live_feed` | `LiveFeed`, `LiveFeed.cfg` | `CursorCovers`, `ClosedOnce`, `CatchesUp` | 1 752 106 |
| `sticky` | `MCStickySessions`, `StickySessions.cfg` | `LeaveTogether`, `DropsSoonest` | 2 981 708 |

### What the passing runs show, and their bounds

**`llm`.** Three goroutines, two attempts each, both thresholds 2. Three is what the
hazards need: one request of the closed era, one probe, one that finds the slot taken.
Whatever the order of outcomes, the half-open slot is held by a probe that is in flight, and
every return path ends the request once. `SlotReturns`: a taken slot does not stay taken.
`Recovers`: from every reachable state, once the provider answers and if traffic goes on, the
breaker closes. Counters are bounded by their thresholds, so there is no other bound. No
symmetry, which would be unsound for liveness.
*Fairness*: each attempt ends because `http.Client` has a timeout; backoff timers fire; time
passes, so an open breaker cools. What the code cannot promise, that callers keep coming and
do not all give up, is the hypothesis `Traffic` inside `Recovers` and not part of the
specification.

**`model_breakers`.** Three models for two places, two requests in flight, idle time two
ticks, threshold 1. So the table is full, with entries expired, idle, in use and open in every
combination, and an identity is always left that is not in use. No outcome is recorded on a
breaker that nobody reads, pins are exact, the table is bounded, and open breakers are kept.

**`window_counter`.** Period 4, limit 5 (above the period, so that several requests share
one instant), charges of 1 and 7 (one overshoots the limit), four boundaries, at most 15 per
window. Two periods are what the counter remembers; four boundaries see it idle for none, one
and two of them. The lazily rolled counter implements the eager one; the wait that the binary
search finds is the least sufficient one; two adjacent windows admit no double burst.

**`limiter_admission`.** Three requests; a request window of 2 per 3 s, a concurrency rule of
2, a provider's token window of 2 per 2 s, and both the full set of rules and the consumer's
alone. Three requests against limits of 2 reach the limit and one more. Resets, repeated
releases and overshooting token counts interleave. Time runs from 6 to 10, over window
boundaries of both rules; `MaxDelay` is 0 here, since an old time breaks `WindowBound` (see
4). `RetryIsHonest` compares the reported wait with what the check does after it.

**`limiter_expiry`.** One rule with both limits, so a request and a token counter for its one
child, batches of one, callers whose time may be one second old, resets, close. The clock runs
from 3 to 9 and the period is 2: the first deadlines are at 7, and those of counters that roll
at 4 or 5 at 8 and 9. From 7 on both counters can be due at once, with equal or different
deadlines, so that a batch leaves more due and the worker goes on without sleeping; and a
deadline can move while the worker is between its scan and its sleep. *Fairness*: the worker is
scheduled and time passes, up to `MaxTime`.

**`persistence`.** Two generations - a reload, or a crash and a restart - and two hits: one
that a reset covers and one that comes after it. Every load, save and delete may fail, and a
shutdown may begin at any moment, before, during or after the start. Hits come at any moment too,
after the drain and after the last flush included. `DrainedIsHandedOver`: after an orderly
shutdown the successor counts all that was counted when the drain ended. *Fairness*: store calls end
(`persistTimeout`), drains have a deadline, and the flush loop does not choose its ticker over
its stop channel for ever - the `select` picks at random, hence strong fairness of
`FinalSnapshot`. No other action is fair.

**`generations`.** Two reloads, hence up to three generations, one stop signal, and failures of
every kind: listener, build, server, overrun shutdown. Two reloads are the least for a signal
that arrives while another is being served, and for a predecessor of a predecessor.
*Fairness*: goroutines are scheduled, builds and closes end, a server that is told to stop
does (its drain has a deadline). Failures of the environment have none.

**`logger`.** Three entries, a channel of one and a batch of two: the channel is full, a batch
is full, and one entry is left for the ticker or the drain. `Close` at any moment, a store that
fails at any batch. *Fairness*: goroutines run on, a `WriteBatch` ends (it has a timeout of
30 s), and the loop's `select` serves what is ready. Nobody has to call `Close`. The panic of
the wait group ends the process, and `Settles` makes an exception for it and nothing else.

**`live_feed`.** One page, two wanted entries and one that the filter holds back, four events, a
ring of which the last event can be replayed, a channel of one, one cut connection and one
replaced broker. Four events against a replay of one put the cursor before, at and behind
the edge; a channel of one is full at the second event. Streams of several pages do not
meet except in the broker's map of subscribers, so one is enough for what a page is served;
`ClosedOnce` concerns one channel. `CursorCovers`: of every wanted entry that the stream owes
the page and whose newest event is not after the page's cursor, the page was given that event,
so that a reconnect asks for no less than is owed. `CatchesUp`: in the end it is given all of
them. *Fairness*: handlers and the page's reconnect timer run, and
`select` does not pass over an event, or the end of the channel, for ever in favour of the
heartbeat: strong fairness of `Forward` and `EndOfStream`, because a heartbeat that is being
written disables both.

**`sticky`.** Two sources, one whose strategy asks a selector, two sessions, two targets: four
keys for two pins of two ticks each. Two concurrent requests are what `LeaveTogether` speaks
about. Outages, expiry, eviction and `Refresh` come at any moment; targets, sessions and
requests are symmetric. Neither property needs fairness.

`CHECK_DEADLOCK FALSE` is set where the system may stop: the process exits, the
persistence model ends when its generations have, a logger ends when it is closed, and the feed
when its events and brokers are used up.

## 4. Where code and documentation disagree

Each of these is a run that TLC finds violated; its trace is the scenario.

1. **`StopEnds`** (`generations_stop`; `internal/app/app.go:292`). `Shutdown` looks once for the
   function that stops the server, and goes on to close everything when `startServer` has not
   registered it yet. `startServer` never looks back. A stop signal (or a reload with a fast
   build) in that window leaves a generation that serves on closed subsystems and that nothing
   stops again: `serveGeneration` waits for it, and a second SIGTERM changes nothing.
   `run/run.go:358` says the gateway is served "until it is asked to stop", and 433-436 that
   "a start that never got off the ground" converges on the same teardown. `ReloadTakesEffect`
   makes the exception `LeftServing` for this window and no other.
2. **`NoDoubledBurst`** (`limiter_boundary`; `internal/ratelimit/limiter.go:26`).
   `docs/features/rate-limits.mdx:221` says bursts cannot double up at window boundaries. A
   call that read its time just before a boundary and gets the mutex after another call has
   crossed it resets the counter; the window then admits its limit a second time.

Other things the models have because the code has them. No run is about them; a property that
they would break is stated so that it leaves out exactly this case, and says so.

* *A second probe.* `docs/advanced/resilience.mdx:101` says a single probe is let through. A
  success of a request that was admitted before the breaker opened frees the slot of the probe in
  flight (`circuit_breaker.go:93`), and another probe is admitted beside it. `SlotHeldByProbe`
  says that the slot is taken only while *some* probe is in flight.
* *Retry-After with both limits of one rule.* `breach` returns at the request limit
  (`limiter.go:194`) and does not look at the token limit of the same rule, so that a retry
  after the reported wait can be rejected, against `docs/features/rate-limits.mdx:254`. With
  separate rules, as in `limiter_admission`, the longest wait is found and `RetryIsHonest`
  holds.
* *A reset that is cut short.* The comment at `handler_live.go:45` says the cursor never runs
  ahead of the wire. The reset (line 53) carries the newest sequence before the snapshots it
  announces; a page whose connection breaks between the two resumes after them.
  `CursorCovers` is stated for pages whose last reset was complete (`trusted`).
* *A cursor names no broker.* After a reload the page keeps the old cursor, which may lie ahead
  of the new broker, until a reset catches up with it. Until then the page is not `trusted`.
* *A list apart from the stream.* The audit page fetches its stored list, waits for the answer
  and subscribes then, with a cursor of 0. The answer to that is active snapshots only
  (`broker.go:210`) and a heartbeat with the newest sequence: an entry that was opened and
  stored in between is in neither, and the cursor is past it. After a reset the list is
  fetched again, but nothing waits for it, and a fetch that fails leaves the list empty
  (`auditList.svelte.js:132`, `171`). `CursorCovers` and `CatchesUp` promise nothing of entries
  that had ended when the last snapshots were taken (`Owed`).
* *Tokens after the last flush.* The drain of `Shutdown` (`app.go:291`) does not wait for
  realtime sessions, nor for the observers of WebRTC calls. What they record after the last
  flush of `Close` is counted by a generation that nobody asks any more; neither the row nor
  the successor ever has it, although the shutdown kept its budget. `DrainedIsHandedOver` is
  about what was counted when the drain ended.
* *Two requests that part.* `sticky.go:101` says concurrent requests of a session must leave
  together. Equality with the observed pin (line 113) does not show that nobody has committed:
  one confirms the pin, a second moves it, and they have left on different targets. And a live
  pin whose target is outside the pool is refreshed while the request leaves on its own
  choice. `LeaveTogether` excludes sessions that were moved (`calm`) and answers that were not
  followed.
* *A panic in `Close`.* An `Add(1)` between the release of `Wait` and its return is a
  reuse of the wait group (`usage/logger.go:65`), on which Go panics. `Settles` and no other
  property makes an exception for it; `AcceptedOnce` holds up to the panic.
* *A closed breaker that forgets.* A closed, idle breaker can be evicted with failures below the
  threshold, which are forgotten. `ProtectsOpen` is about open and half-open ones only.
* *A closed limiter that prunes.* After `close` deadlines are not moved any more, and a worker
  that is between two batches may remove a counter that has rolled since. `PrunesTheForgotten`
  and the theorem `WindowsAreBounded` end at `close`, which comes after the last flush.

## 5. The proofs

`tlapm M.tla`. The specification is `Spec`, without fairness. Assumptions are the
named `ASSUME`s of the modules, which TLC evaluates in the runs, and what a theorem states
itself. The steps of a proof follow `Next`: one lemma per action.

**`LLMClientProofs`** - any finite set of requests, any number of attempts, any positive failure
threshold and any success threshold (the code does not validate it). `IInv` is the conjunction
of the checked invariants, type correctness and `ClosedBelowThreshold`, which need each other:
exactness of the gauge keeps it in `Nat`; `ProbeSendsOnce` keeps a probe out of the backoff,
whose abort does not return the slot, and without it `SlotHeldByProbe` is not inductive. One
lemma per breaker method says that it leaves a breaker below the threshold and the slot free
unless a probe took it; `CompleteLemma` and `NextAttemptLemma` carry them
through the ways a request can end. Theorems: `Invariance`, `TypeCorrect`, `SlotNeverLost`,
`ProbesDoNotRetry`, `TripsAtThreshold`, `GaugeCorrect`, and the action properties
`OpenOnlyEndsWithProbe` and `CancellationIsNoVerdict`.

**`ModelBreakersProofs`** - any sets of models, requests and breakers, any capacity. `IInv` is
`TypeOK`, `PinnedStays`, `PinsExact` and `Bounded`. `PinsExact` needs `PinnedStays`, since `Release` looks its entry up by the model and not by
the breaker; `PinnedStays` needs `PinsExact`, since eviction goes by the pin count.
`BusyLemma` is the link: an entry with pin count 0 is used by nobody. `InsertInvariant` serves
both ways a new entry gets its place. Theorems: `TypeCorrect`, `NeverEvictedInUse`,
`PinsBalance`, `TableBounded` and the action property `OpenIsKept`.

**`RateLimiterProofs`, a single counter** - any period, limit, charges and schedule of calls. The lemmas are about
quotients and remainders: the next second is in the same window or begins the next
(`SecondLemma`). `TickLemma`: seen through `Advance`, time alone moves a counter as the
reference moves, however long it has been left alone. With it `LazyRollingIsExact` shows that
each step is a step of `WindowReference` or a stutter. `RoomLemma` is the arithmetic behind
`BurstsDoNotDouble`: an estimate below the limit leaves room for one more request in both
windows together.
The second half is about `retryAfter`, whose binary search is only as good as the assumption
that usage falls while nothing arrives. `UsageFalls` proves it for every counter, second by
second and over boundaries, and `UsageEnds` that two periods after its start a counter counts
for nothing, so that the search has something to find. `RetryAfterIsLeast`: for every
counter that does not begin after the present, every period and limit, the search ends within
two periods, at a wait after which usage is below the limit, and no shorter one is enough.
The search is a recursive function on pairs, and the induction over the length of the
interval is done by a least counterexample: of the intervals on which the search fails one is
shortest, and its half is shorter. `RetryIsLeastAlways` carries this to the states of the
component, by the invariant that a counter never begins after the clock.

**`RateLimiterProofs`, the limiter** - any rules that `NormalizeRule` and the store's key admit, any finite sets
of requests and children, any delay of the callers' times. The one assumption about time is
that the process starts later than a period plus the delay after 1970, so that the start of a
window is not the zero that stands for no counter. `IInv` adds two facts to the
checked invariants: `Begun`, no counter begins after the clock, and `Deadlines`, a deadline lies
at least two periods after the start of the window it is for. With `ChildrenTracked` this bounds the age of what is due, whence `OldCounterLemma` says
that nothing of it counts. `RollLemma` is the heart: what any call does to counters, deadlines
and worker at once. Theorems: `Invariance`, `TypeCorrect`, `GaugesAreExact`,
`ConcurrencyIsBounded`, `ChildrenAreTracked`, `WakeupIsNotLost`, and the action properties
`PruningIsUnseen` and `RejectsAreFree`. `WindowsAreBounded` is for callers that bring the present
time (`MaxDelay = 0`; `NoDoubledBurst` shows what an old one does): what the history has
served in the window of the clock is counted there (`Counted`), through calls, resets, pruning
and time, and the estimate that is checked is no less than that count. Retry-After: the
reported wait is the longest of those of the limits that are reached, each the least one for
its counter by `RetryAfterIsLeast`.
`RetryIsHonestOrDouble` says that it is honest in every state in which no rule has reached both
its limits (`NoDoubleBreach`); the exception is the code's, see 4, and cannot be dropped.
`RetryIsHonestForOneLimit` is the unconditional form for rule sets in which no rule has both a
request and a token limit.

**`CounterPersistenceProofs`** - any number of generations and hits. Under overrun shutdowns
nothing but the types is kept; without one, `Orderly` says that generations take turns
(`Alone`), how the threads of one keep step (`Local`), what each has in memory against the
history (`Data`: a snapshot in a flush lacks no durable hit and has none that a reset has
burned; who may persist counts all that is durable), what the row holds (`Store`) and that
what a predecessor that saved had counted when its drain ended is in the row until it has
been loaded (`Handed`).
`IInv` was checked by TLC with two generations and two hits and with three and one before
it was proved. Theorems: `ResetsHold`, `NothingIsOverwritten`, and the action properties
`ReloadHandsOver` and `ClosedForGood`.

**`GenerationsProofs`** - any number of reloads. None of the three safety properties is inductive.
`IInv` divides the generations into those before the serving one (built, torn down once,
returned, closed unless a shutdown overran), that one, and those after it (untouched, none built
but the replacement), and says how the three goroutines keep step: the teardown has begun
exactly when the serving generation's count is one; the watcher has ended when there is a
replacement, and the replacement is the next generation; the context of a generation that
still serves is done only for a cause. `ReloadsAreKept` is the safety half of
`ReloadTakesEffect`: in every state the configuration that was announced last is still to be
read, is being built, is on its way to `main` or is served, unless its build has failed or the
process is ending (`NotForgotten`). It rests on a second invariant (`Versions`): the watcher
reads the configuration after it has taken the signal, so a later build never carries an
older version, and a signal that comes too late for one watcher waits for the next. TLC
checked both with three reloads. Theorems: `Invariance`, `EachIsTornDownOnce`,
`SuccessorsWait`, `EndedForCause`, `ReloadsAreKept`.

**`StickySessionsProofs`** - any sources, sessions, targets and requests, any capacity. What
`LeaveTogether` compares are requests that have left; the invariant says why they agree. A
request that is calm and that the table answered is `Upheld`: while it is choosing, the pin it was
told is still the live pin of its session, and once it has left, that pin is the target it left
on (`Stands`). Two such requests are on the one pin of their session. `Stands` is inductive
because every action that changes a live pin - expiry, eviction, prune, a selector's `repin` -
is a cause that ends the calm of the requests it touches, and because `resolve` and `repin` look
at the table again under the lock. `Within` (the table keeps within its capacity) is the other
half: when `setLocked` has to evict, the live pins alone fill the table. `WrittenLemma`, on
`setLocked`, serves every action that writes. Theorems: `Invariance`, `Together` and the
action property `Soonest`.

**`LiveFeedProofs`** - any pages, entries and filter, any size of ring, replay and
channel. `CursorCovers` is far from inductive: it speaks about a page and the log, which are
connected through the ring, the snapshots, the channel and what has been written and not
read. `IInv` says, besides the types:
* `Ring`: the ring holds the last events in order, its oldest at `head`;
* `Current`: a snapshot is the newest event of its entry;
* `Owned`: who may still close a channel - a subscriber in the map, or the `Close` that took the
  map, never both; this is what `ClosedOnce` needs;
* `Fed`, per stream: `Flow`, the channel holds exactly the events that follow the last one
  forwarded, and a subscriber's channel reaches up to the newest; and `Serves`, what the page
  was given against what it is still to read. An entry is `Settled` when the page has its newest
  event or the stream does not owe it; it stays so until the next event about it, because a
  later `base` owes less and not more. `Covered` is `CursorCovers`, also while a reset is
  announced; `InOrder` says that a message is written only after everything it would let the
  cursor skip, `Complete` that nothing before `lastSeq` is left out, `Resets` that a reset is
  followed by the snapshots.

TLC checked `IInv` on the instance of the run before it was proved. The lemmas are on the
operators: `NthLemma` (the k-th smallest of a finite set), `MatchingLemma` (the filter keeps order
and everything wanted), `SnapshotsLemma` (snapshots go out in the order of their
sequences), `RingLemma` (a cursor that needs no reset is served every event after it) and
`NewestOfNext`. A lemma per action follows: publishing (`ServesOfNext` and `RingOfNext`),
connecting, forwarding, a heartbeat, the page's read, and the ways a stream ends. Theorems:
`FeedInvariance`, `CursorIsHonest`, `NoDoubleClose`, and `QuietIsCurrent`, the safety half of
`CatchesUp`: a subscribed page with an empty channel and nothing unread was given the newest event
of every wanted entry that the stream owes it. What remains for fairness is that a page comes to that state.

**`BufferedLoggerProofs`** - any finite set of entries, any channel and batch size. `IInv` says
that nobody sends once `Close` has waited (`Shut`), that the loop ends after that with nothing
left (`Ending`), and that an entry is in one place (`Placed`). Theorems: `TypeCorrect`,
`NothingLeftInFlight`, and the refinement `ImplementsLedger`: a `Receive` or a `Drain` is a
stutter, a send an `Accept`, a `WriteBatch` a `Settle`, and the store is closed with nothing
pending.

**What is proved and what is only checked.** Every safety property that a passing run checks -
each invariant, each action property and both refinements - is a theorem, with the two
conditions named above: `WindowsAreBounded` up to `close` and for present times, and
`RetryIsHonestOrDouble` for rules that have not reached both limits. Model-checked only is what
is stated under fairness (`SlotReturns`, `Recovers`, `ChildrenForgotten`, `ShutdownEnds`,
`ReloadTakesEffect`, `Settles`, `CatchesUp`), since the prover does not reason about `ENABLED`. The
lemmas `FairSpec => Spec` that would carry the safety theorems over are immediate and not stated.

## 6. What is left out

* The floating-point weight of the window estimate (section 2): one admission per window at
  most, in between boundaries.
* Of the client: building requests, parsing responses, the length of backoffs. Whether another
  attempt follows is kept.
* Of the limiter: rate-limit header snapshots, and changes of the rule list while requests
  run (planned).
* Of persistence: expiry of rows, per-child partitions in the store, rule changes between
  generations. A shutdown that overran writes beside its successor; the code accepts
  that as a cutoff, and the properties about rows are stated for shutdowns within budget, while
  the overrun itself is an action.
* Of the lifecycle: the environment file, the rebinding of a changed address (a listener is
  there or not), and the order of closes inside `Shutdown` (one step).
* Of the loggers: the contents of an entry, and what a store has written of a batch that fails.
* Of the live feed: payloads, their merging and size limits, authentication, and the stored lists
  of the pages with the requests that fetch them (sections 2 and 4). What a page shows besides
  the stream is therefore not checked.
* Of the virtual models: chains, access rules, the building of a snapshot, and which target a
  strategy picks.
* Not modelled at all, with reasons in `PROJECT.json`: provider adapters, streaming, parsing
  and rendering (long, sequential, best tested with examples); stores and caches other than
  the counters' row; plugins, telemetry, dashboard and documentation. They are by far the
  larger part of the code: what is modelled is the small share of it that is concurrent.

## 7. The plan

The order follows how much harm a fault does and how hard it is to test.

*Done*: the upstream client and its breakers, the limiter, its persistence, the lifecycle, the
loggers, the live feed and the sticky sessions, with the proofs of section 5.

*Next modules*

1. `RateLimitRules` - `UpsertRules`, `DeleteRule`, `ReplaceConfigRules`, `Refresh`, two at a
   time, beside requests that have taken the older list; composes with the counters of
   `RateLimiter`. Worth stating: an installed list is never older than a completed `Refresh`
   promised; a deleted rule's counters do not limit its successor.
2. `Failover` - primary, gate, authorizer, cap, cancellation; abstract specification: a request
   is one call to an eligible target at a time and at most the cap of them. Uses the
   peek/charge split of `RateLimiter`.
3. Candidates after that: batch items admitted as one unit, and one abstract module of the
   services that replace an in-memory snapshot from the store.

*Runs*: one passing run per new module, and a violation run only where code and a document
disagree.

*Theorems worth proving next*: the safety halves of the liveness properties that have none yet
(`ShutdownEnds`, `Settles`: that whoever is waited for is never waiting itself), and, with
the modules above, their refinements.
