------------------------------- MODULE LiveFeed -------------------------------
(* The live dashboard feed: the in-process broker (internal/live), the SSE     *)
(* handler that serves a subscription (internal/admin/handler_live.go) and the *)
(* dashboard that reconnects with the cursor it has reached.                   *)
(*                                                                             *)
(* An event is about one log entry and either opens it (started, updated,      *)
(* stream, completed: it stays an active snapshot) or ends it (flushed, failed,*)
(* removed).  Payloads, their merging and their size limits are left out: what *)
(* a client has of an entry is the newest event about it that it was given.    *)
(* The stored lists the pages also show are left out: they are fetched by      *)
(* requests of their own, which may fail or come late, and no step here reads  *)
(* them.                                                                       *)
EXTENDS Naturals, Sequences, FiniteSets, FiniteSetsExt

CONSTANTS Clients, Entries,
          Wanted,            \* entries whose events pass the stream's type filter
          BufferSize, ReplayLimit, SubscriberBuffer,
          MaxSeq, MaxBreaks, MaxRestarts    \* bounds of the model

ASSUME SizesAssumption == /\ BufferSize \in Nat \ {0}
                          /\ ReplayLimit \in Nat \ {0}
                          /\ SubscriberBuffer \in Nat \ {0}
                          /\ Wanted \subseteq Entries

VARIABLES
  nextSeq, events, head,     \* the sequence counter and the circular buffer
  active,                    \* entry -> sequence of its snapshot, 0 without one
  subscribers, closed,       \* registered streams; the broker is closed
  closing,                   \* streams whose channel Close has yet to close
  stream,                    \* client -> its handler and subscription
  client,                    \* client -> the dashboard
  log,                       \* history: log[s] is the entry event s was about
  breaks, restarts           \* connections cut and brokers replaced so far

broker == <<nextSeq, events, head, active, subscribers, closed, closing, log>>
vars == <<broker, stream, client, breaks, restarts>>

\* Ring slots beyond the replay window are never read.
Capacity == IF BufferSize > ReplayLimit + 1 THEN ReplayLimit + 1 ELSE BufferSize

NoStream == [open |-> FALSE, reset |-> FALSE, out |-> <<>>, chan |-> <<>>,
             shut |-> 0, lastSeq |-> 0]

\* given: the newest event about each entry that this broker's streams brought.
\* base: where the last answer made of snapshots was taken; of what had ended by
\* then the stream says nothing, and the page has only the stored lists.
\* trusted: the cursor is one of this broker's, and no reset was cut short.
Page == [cursor |-> 0, given |-> [e \in Entries |-> 0], base |-> 0, trusted |-> TRUE]

EmptyBroker ==
  /\ nextSeq = 0 /\ events = <<>> /\ head = 0
  /\ active = [e \in Entries |-> 0]
  /\ subscribers = {} /\ closed = FALSE /\ closing = {}
  /\ log = <<>>

Init == /\ EmptyBroker
        /\ stream = [c \in Clients |-> NoStream]
        /\ client = [c \in Clients |-> Page]
        /\ breaks = 0
        /\ restarts = 0

-------------------------------------------------------------------------------
(* The broker, one mutex section per operation *)

\* The i-th event in publish order, 0 the oldest.
EventAt(i) ==
  LET at == head + i
  IN events[1 + IF at >= Len(events) THEN at - Len(events) ELSE at]

Newest(e) == Max({0} \cup {s \in 1..Len(log) : log[s] = e})

Snapshots == {[type |-> "event", seq |-> active[e], entry |-> e] :
                 e \in {x \in Entries : active[x] # 0}}

\* The k-th smallest of these numbers.
Nth(k, numbers) == CHOOSE n \in numbers : Cardinality({m \in numbers : m <= n}) = k

\* Mutant: the snapshots go out in the order of the map.
ActiveSnapshotsUnsorted ==
  LET seqs == {s.seq : s \in Snapshots}
  IN [k \in 1..Cardinality(seqs) |->
        CHOOSE s \in Snapshots : s.seq = Nth(Cardinality(seqs) + 1 - k, seqs)]

\* The snapshots in the order of their sequences.
ActiveSnapshots ==
  LET seqs == {s.seq : s \in Snapshots}
  IN [k \in 1..Cardinality(seqs) |-> CHOOSE s \in Snapshots : s.seq = Nth(k, seqs)]

\* Mutant: a cursor one event behind the ring passes for one at its edge.
NeedsResetOffByOne(cursor) ==
  \/ events = <<>>
  \/ cursor > EventAt(Len(events) - 1).seq
  \/ cursor + 2 < EventAt(0).seq

\* The cursor is not served from the ring: too old, ahead of it, or nothing there.
NeedsReset(cursor) ==
  \/ events = <<>>
  \/ LET latest == EventAt(Len(events) - 1).seq
         oldest == EventAt(0).seq
     IN \/ cursor > latest
        \/ cursor + 1 < oldest
        \/ cursor < latest /\ latest - cursor > ReplayLimit

ReplayFrom(cursor) ==
  LET oldest == EventAt(0).seq
      start  == IF cursor >= oldest THEN cursor - oldest + 1 ELSE 0
  IN [i \in 1..(Len(events) - start) |-> EventAt(start + i - 1)]

Replay(cursor) == IF cursor = 0 \/ NeedsReset(cursor) THEN ActiveSnapshots
                                                      ELSE ReplayFrom(cursor)

\* Mutant: a full subscriber is forgotten and never told.
FanOutSilently(c, event) ==
  IF Len(stream[c].chan) < SubscriberBuffer
  THEN [stream[c] EXCEPT !.chan = Append(@, event)]
  ELSE stream[c]

\* A subscriber whose channel is full has it closed (and leaves the map).
FanOut(c, event) ==
  IF Len(stream[c].chan) < SubscriberBuffer
  THEN [stream[c] EXCEPT !.chan = Append(@, event)]
  ELSE [stream[c] EXCEPT !.shut = @ + 1]

\* publishEvent: the sequence, the snapshot, the ring and the fan-out are one
\* critical section.
Publish(e, ends) ==
  LET event == [type |-> "event", seq |-> nextSeq + 1, entry |-> e]
  IN
  /\ ~closed
  /\ nextSeq < MaxSeq
  /\ nextSeq' = nextSeq + 1
  /\ log' = Append(log, e)
  /\ active' = [active EXCEPT ![e] = IF ends THEN 0 ELSE event.seq]
  /\ IF Len(events) < Capacity
     THEN events' = Append(events, event) /\ UNCHANGED head
     ELSE /\ events' = [events EXCEPT ![head + 1] = event]
          /\ head' = IF head + 1 = Len(events) THEN 0 ELSE head + 1
  /\ subscribers' = {c \in subscribers : Len(stream[c].chan) < SubscriberBuffer}
  /\ stream' = [c \in Clients |-> IF c \in subscribers THEN FanOut(c, event) ELSE stream[c]]
  /\ UNCHANGED <<closed, closing, client, breaks, restarts>>

\* Mutant: the map is left in place.
CloseKeepingMap ==
  /\ ~closed
  /\ closed' = TRUE
  /\ closing' = subscribers
  /\ UNCHANGED <<nextSeq, events, head, active, log, subscribers, stream, client,
                 breaks, restarts>>

\* Close marks the broker and takes the map under the mutex, and closes the
\* channels after it.
Close ==
  /\ ~closed
  /\ closed' = TRUE
  /\ closing' = subscribers
  /\ subscribers' = {}
  /\ UNCHANGED <<nextSeq, events, head, active, log, stream, client, breaks, restarts>>

CloseChannel(c) ==
  /\ c \in closing
  /\ closing' = closing \ {c}
  /\ stream' = [stream EXCEPT ![c].shut = @ + 1]
  /\ UNCHANGED <<nextSeq, events, head, active, log, subscribers, closed, client,
                 breaks, restarts>>

-------------------------------------------------------------------------------
(* One handler per connection.  What it has written and the client has not     *)
(* read yet is `out`; a connection that breaks loses it.                       *)

Control(type) == [type |-> type, seq |-> nextSeq]

\* The events of a replay that the stream's filter lets through.
Matching(replay) ==
  LET places == {i \in 1..Len(replay) : replay[i].entry \in Wanted}
  IN [k \in 1..Cardinality(places) |-> replay[Nth(k, places)]]

\* Subscribe, then the reset, the replay and the first heartbeat.  A cursor of 0
\* is "no cursor": it is answered with snapshots and without a reset.
Connect(c) ==
  LET cursor == client[c].cursor
      reset  == cursor > 0 /\ NeedsReset(cursor)
  IN
  /\ ~closed
  /\ ~stream[c].open
  /\ subscribers' = subscribers \cup {c}
  /\ stream' = [stream EXCEPT ![c] =
       [NoStream EXCEPT
          !.open = TRUE, !.reset = reset, !.lastSeq = nextSeq,
          !.out = (IF reset THEN <<Control("reset")>> ELSE <<>>)
                  \o Matching(Replay(cursor))
                  \o <<Control("heartbeat")>>]]
  /\ client' = [client EXCEPT ![c].base = IF cursor = 0 THEN nextSeq ELSE @]
  /\ UNCHANGED <<nextSeq, events, head, active, closed, closing, log, breaks, restarts>>

\* Mutant: the heartbeat carries the broker's counter.
BeatLatest(c) ==
  /\ stream[c].open
  /\ stream[c].out = <<>>
  /\ stream' = [stream EXCEPT ![c].out = <<Control("heartbeat")>>]
  /\ UNCHANGED <<broker, client, breaks, restarts>>

Beat(c) ==
  /\ stream[c].open
  /\ stream[c].out = <<>>
  /\ stream' = [stream EXCEPT ![c].out = <<[type |-> "heartbeat", seq |-> stream[c].lastSeq]>>]
  /\ UNCHANGED <<broker, client, breaks, restarts>>

\* A received event moves lastSeq whether the filter lets it through or not.
Forward(c) ==
  /\ stream[c].open
  /\ stream[c].out = <<>>
  /\ stream[c].chan # <<>>
  /\ LET event == Head(stream[c].chan)
     IN stream' = [stream EXCEPT
          ![c].chan = Tail(@),
          ![c].lastSeq = Max({@, event.seq}),
          ![c].out = IF event.entry \in Wanted THEN <<event>> ELSE <<>>]
  /\ UNCHANGED <<broker, client, breaks, restarts>>

\* applyLiveLogEvent: the cursor only grows, with every kind of event.  A reset
\* starts a fetch of the lists and waits for nothing.
Deliver(c) ==
  /\ stream[c].open
  /\ stream[c].out # <<>>
  /\ LET event == Head(stream[c].out)
         page  == client[c]
         seen  == Max({page.cursor, event.seq})
         given == IF event.type = "event"
                  THEN [page.given EXCEPT ![event.entry] = Max({@, event.seq})]
                  ELSE page.given
         \* the reset's replay is complete, and the old cursor was not ahead of it
         caughtUp == stream[c].reset /\ Len(stream[c].out) = 1 /\ seen = stream[c].lastSeq
     IN /\ client' = [client EXCEPT ![c].cursor = seen, ![c].given = given,
                                    ![c].base = IF event.type = "reset" THEN event.seq ELSE @,
                                    ![c].trusted = @ \/ caughtUp]
        /\ stream' = [stream EXCEPT ![c].out = Tail(@),
                                    ![c].reset = @ /\ Len(stream[c].out) > 1]
  /\ UNCHANGED <<broker, breaks, restarts>>

\* The channel is closed and drained: the handler returns.
EndOfStream(c) ==
  /\ stream[c].open
  /\ stream[c].out = <<>> /\ stream[c].chan = <<>> /\ stream[c].shut > 0
  /\ stream' = [stream EXCEPT ![c].open = FALSE]
  /\ UNCHANGED <<broker, client, breaks, restarts>>

\* The reset was read, some of its replay was not.
ResetCutShort(c) == /\ stream[c].reset
                    /\ \E i \in 1..Len(stream[c].out) : stream[c].out[i].type = "event"
                    /\ Head(stream[c].out).type # "reset"

\* The connection breaks: the handler returns and unsubscribes.
Disconnect(c) ==
  /\ stream[c].open
  /\ breaks < MaxBreaks
  /\ breaks' = breaks + 1
  /\ subscribers' = subscribers \ {c}
  /\ stream' = [stream EXCEPT ![c] = [NoStream EXCEPT
       !.shut = stream[c].shut + IF c \in subscribers THEN 1 ELSE 0]]
  /\ client' = [client EXCEPT ![c].trusted = @ /\ ~ResetCutShort(c)]
  /\ UNCHANGED <<nextSeq, events, head, active, closed, closing, log, restarts>>

\* A reload or a restart: a new broker counts from 1 and the dashboard stays.
Restart ==
  /\ restarts < MaxRestarts
  /\ restarts' = restarts + 1
  /\ nextSeq' = 0 /\ events' = <<>> /\ head' = 0 /\ log' = <<>>
  /\ active' = [e \in Entries |-> 0]
  /\ subscribers' = {} /\ closed' = FALSE /\ closing' = {}
  /\ stream' = [c \in Clients |-> NoStream]
  /\ client' = [c \in Clients |-> [Page EXCEPT !.cursor = client[c].cursor,
                                             !.trusted = (client[c].cursor = 0)]]
  /\ UNCHANGED breaks

Next == \/ \E e \in Entries, ends \in BOOLEAN : Publish(e, ends)
        \/ Close
        \/ Restart
        \/ \E c \in Clients : \/ CloseChannel(c) \/ Connect(c) \/ Beat(c)
                              \/ Forward(c) \/ Deliver(c) \/ EndOfStream(c)
                              \/ Disconnect(c)

Spec == Init /\ [][Next]_vars

\* Goroutines that can run do run, and the dashboard's reconnect timer fires.  An
\* event, or the end of the channel, is ready beside the heartbeat ticker again
\* and again, and select does not pass it over for ever.
Fairness == \A c \in Clients : /\ WF_vars(Connect(c))
                               /\ SF_vars(Forward(c))
                               /\ WF_vars(Deliver(c))
                               /\ SF_vars(EndOfStream(c))
                               /\ WF_vars(CloseChannel(c))

FairSpec == Spec /\ Fairness

-------------------------------------------------------------------------------
(* Properties *)

\* What the stream owes a client: an entry that was active when its last snapshots
\* were taken, or that an event was about since.
Owed(c, e) == active[e] # 0 \/ Newest(e) > client[c].base

\* Whatever was replayed, filtered, dropped or cut, the client may ask for what
\* follows its cursor: of a wanted entry whose newest event is not after the cursor
\* it was given that event, unless the entry had ended before its last snapshots.
CursorCovers ==
  \A c \in Clients : client[c].trusted /\ ~stream[c].reset
                       => /\ client[c].cursor <= nextSeq
                          /\ \A e \in Wanted : Owed(c, e) /\ Newest(e) <= client[c].cursor
                                                => client[c].given[e] = Newest(e)

\* Unsubscribe, the drop of a slow subscriber and Close never close a channel
\* twice, and Publish never sends on a closed one: each would be a panic.
ClosedOnce ==
  \A c \in Clients : /\ stream[c].shut <= 1
                     /\ c \in subscribers \cup closing => stream[c].shut = 0

\* When connections stop breaking, a dashboard ends up with the newest event of
\* every wanted entry that the stream owes it: a dropped subscriber reconnects and
\* is served the rest.
CatchesUp ==
  \A c \in Clients, e \in Wanted :
     <>[](\/ closed
          \/ ~client[c].trusted
          \/ ~Owed(c, e)
          \/ client[c].given[e] = Newest(e))
===============================================================================
