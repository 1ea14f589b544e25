----------------------------- MODULE EventBroker -----------------------------
(***************************************************************************)
(* services/event_broker.py and the GET /api/events handler of app.py.     *)
(*                                                                         *)
(* The broker numbers control events, keeps the last Capacity of them for  *)
(* replay and copies each new one to the bounded queue of every live       *)
(* subscription.  A subscription whose queue is full is dropped from the   *)
(* broker and its queue is replaced by the single end marker None.         *)
(* All of it runs on one event loop: publish, subscribe and close have no  *)
(* await in them, and __anext__ awaits only the queue.                     *)
(***************************************************************************)
EXTENDS Integers, Sequences

CONSTANTS
  Subs,      \* names for EventSubscription objects; a name is used again
             \* once the object it stood for is finished with
  Capacity,  \* length of the replay deque and of each queue
  MaxId      \* bound on the ids published

ASSUME CapacityAssumption == Capacity \in Nat \ {0}
ASSUME MaxIdAssumption == MaxId \in Nat

VARIABLES
  latest,       \* EventBroker._latest_id
  events,       \* EventBroker._events, the ids of the retained events
  subscribers,  \* EventBroker._subscribers
  replay,       \* EventSubscription._replay
  queue,        \* EventSubscription._queue
  cursor,       \* EventSubscription._cursor
  status,       \* how far the stream of a subscription has got
  first,        \* history: the cursor a subscription started from
  received      \* history: the ids a subscription has yielded

vars == <<latest, events, subscribers, replay, queue, cursor, status,
          first, received>>

None == 0   \* the end marker in a queue; event ids start at 1

Ids == 1..MaxId

\* "reconcile": the stream ended with the reconcile message that
\* EventCursorError is turned into.
Status == {"none", "open", "closed", "reconcile"}

OldestId == IF events # <<>> THEN events[1] ELSE latest + 1

\* A variant: the event before the oldest one counts as missing.
ValidCursorRetained(after) ==
  /\ after >= 0
  /\ after <= latest
  /\ events # <<>> => after >= OldestId

\* EventBroker._validate_cursor
ValidCursor(after) ==
  /\ after >= 0
  /\ after <= latest
  /\ events # <<>> => after >= OldestId - 1

\* A variant: with >= instead of >.
RetainedFrom(after) ==
  LET skipped == CHOOSE k \in 0..Len(events) :
                   \A i \in 1..Len(events) : i <= k <=> events[i] < after
  IN  SubSeq(events, skipped + 1, Len(events))

\* The retained events later than an id.  The deque is in order of id, so
\* the comprehension in subscribe keeps a suffix of it.
RetainedAfter(after) ==
  LET skipped == CHOOSE k \in 0..Len(events) :
                   \A i \in 1..Len(events) : i <= k <=> events[i] <= after
  IN  SubSeq(events, skipped + 1, Len(events))

\* A variant: a deque without maxlen.
RetainAll(seq, id) == Append(seq, id)

\* deque(maxlen=Capacity).append
Retain(seq, id) ==
  IF Len(seq) < Capacity THEN Append(seq, id) ELSE Append(Tail(seq), id)

Init ==
  /\ latest = 0
  /\ events = <<>>
  /\ subscribers = {}
  /\ replay = [s \in Subs |-> <<>>]
  /\ queue = [s \in Subs |-> <<>>]
  /\ cursor = [s \in Subs |-> 0]
  /\ status = [s \in Subs |-> "none"]
  /\ first = [s \in Subs |-> 0]
  /\ received = [s \in Subs |-> <<>>]

\* A variant: a queue is full one event too early.
AlmostFull == {s \in subscribers : Len(queue[s]) >= Capacity - 1}

Full == {s \in subscribers : Len(queue[s]) >= Capacity}

\* A variant: a dropped queue is emptied and left without an end marker.
PublishWithoutMarker ==
  /\ latest < MaxId
  /\ latest' = latest + 1
  /\ events' = Retain(events, latest + 1)
  /\ subscribers' = subscribers \ Full
  /\ queue' = [s \in Subs |->
                 IF s \in Full THEN <<>>
                 ELSE IF s \in subscribers THEN Append(queue[s], latest + 1)
                 ELSE queue[s]]
  /\ UNCHANGED <<replay, cursor, status, first, received>>

Publish ==
  /\ latest < MaxId
  /\ latest' = latest + 1
  /\ events' = Retain(events, latest + 1)
  /\ subscribers' = subscribers \ Full
  /\ queue' = [s \in Subs |->
                 IF s \in Full THEN <<None>>
                 ELSE IF s \in subscribers THEN Append(queue[s], latest + 1)
                 ELSE queue[s]]
  /\ UNCHANGED <<replay, cursor, status, first, received>>

\* A new EventSubscription object under the name s.
Open(s, after, replayed) ==
  /\ status[s] # "open"
  /\ replay' = [replay EXCEPT ![s] = replayed]
  /\ queue' = [queue EXCEPT ![s] = <<>>]
  /\ subscribers' = subscribers \union {s}
  /\ cursor' = [cursor EXCEPT ![s] = after]
  /\ status' = [status EXCEPT ![s] = "open"]
  /\ first' = [first EXCEPT ![s] = after]
  /\ received' = [received EXCEPT ![s] = <<>>]
  /\ UNCHANGED <<latest, events>>

\* A request with a cursor.  A cursor that is refused (HTTP 409) changes
\* nothing.
SubscribeAfter(s, after) ==
  /\ ValidCursor(after)
  /\ Open(s, after, RetainedAfter(after))

\* A request without a cursor: future events only.
SubscribeLive(s) == Open(s, latest, <<>>)

Yield(s, id) ==
  /\ cursor' = [cursor EXCEPT ![s] = id]
  /\ received' = [received EXCEPT ![s] = Append(@, id)]
  /\ UNCHANGED <<latest, events, subscribers, status, first>>

\* __anext__ while the replay lasts.
TakeReplay(s) ==
  /\ status[s] = "open"
  /\ replay[s] # <<>>
  /\ replay' = [replay EXCEPT ![s] = Tail(@)]
  /\ Yield(s, Head(replay[s]))
  /\ UNCHANGED queue

\* A variant: the end marker is taken for an event.
TakeLiveUnchecked(s) ==
  /\ status[s] = "open"
  /\ replay[s] = <<>>
  /\ queue[s] # <<>>
  /\ queue' = [queue EXCEPT ![s] = Tail(@)]
  /\ Yield(s, Head(queue[s]))
  /\ UNCHANGED replay

\* __anext__ once its queue.get() returns an event.
TakeLive(s) ==
  /\ status[s] = "open"
  /\ replay[s] = <<>>
  /\ queue[s] # <<>>
  /\ Head(queue[s]) # None
  /\ queue' = [queue EXCEPT ![s] = Tail(@)]
  /\ Yield(s, Head(queue[s]))
  /\ UNCHANGED replay

\* A variant: the end marker is skipped.
TakeEndSilently(s) ==
  /\ status[s] = "open"
  /\ replay[s] = <<>>
  /\ queue[s] # <<>>
  /\ Head(queue[s]) = None
  /\ queue' = [queue EXCEPT ![s] = Tail(@)]
  /\ subscribers' = subscribers \ {s}
  /\ UNCHANGED <<latest, events, replay, cursor, status, first, received>>

\* __anext__ once its queue.get() returns None: close, raise
\* EventCursorError, and the handler sends the reconcile message.
TakeEnd(s) ==
  /\ status[s] = "open"
  /\ replay[s] = <<>>
  /\ queue[s] # <<>>
  /\ Head(queue[s]) = None
  /\ queue' = [queue EXCEPT ![s] = Tail(@)]
  /\ status' = [status EXCEPT ![s] = "reconcile"]
  /\ subscribers' = subscribers \ {s}
  /\ UNCHANGED <<latest, events, replay, cursor, first, received>>

Receive(s) == TakeReplay(s) \/ TakeLive(s) \/ TakeEnd(s)

\* A variant: the queue stays with the broker.
CloseStaysSubscribed(s) ==
  /\ status[s] = "open"
  /\ status' = [status EXCEPT ![s] = "closed"]
  /\ UNCHANGED <<latest, events, subscribers, replay, queue, cursor, first, received>>

\* The client disconnects: the generator's finally closes the subscription.
Close(s) ==
  /\ status[s] = "open"
  /\ status' = [status EXCEPT ![s] = "closed"]
  /\ subscribers' = subscribers \ {s}
  /\ UNCHANGED <<latest, events, replay, queue, cursor, first, received>>

Next ==
  \/ Publish
  \/ \E s \in Subs :
       \/ \E after \in 0..MaxId : SubscribeAfter(s, after)
       \/ SubscribeLive(s)
       \/ Receive(s)
       \/ Close(s)

Spec == Init /\ [][Next]_vars

\* The task that serves a stream runs whenever it has something to yield,
\* and its client keeps reading.  Nothing obliges anyone to publish, to
\* subscribe or to disconnect.
FairSpec == Spec /\ \A s \in Subs : WF_vars(Receive(s))

-----------------------------------------------------------------------------
TypeOK ==
  /\ latest \in 0..MaxId
  /\ events \in Seq(Ids)
  /\ subscribers \subseteq Subs
  /\ replay \in [Subs -> Seq(Ids)]
  /\ queue \in [Subs -> Seq(Ids \union {None})]
  /\ cursor \in [Subs -> 0..MaxId]
  /\ status \in [Subs -> Status]
  /\ first \in [Subs -> 0..MaxId]
  /\ received \in [Subs -> Seq(Ids)]

\* Consecutive(seq, from): seq is from + 1, from + 2, ...
Consecutive(seq, from) == \A i \in 1..Len(seq) : seq[i] = from + i

\* A stream yields every event after the cursor it was opened with, each
\* exactly once and in order: no gap between the replay and the live queue,
\* none after other subscriptions were dropped, no repetition.
NoGap ==
  \A s \in Subs :
    /\ Consecutive(received[s], first[s])
    /\ cursor[s] = first[s] + Len(received[s])

\* A subscription the broker still knows has, in its replay and its queue,
\* exactly the events its client has not seen; together they never hold more
\* than twice the capacity, however slow the client is.
BacklogIsExact ==
  \A s \in subscribers :
    /\ status[s] = "open"
    /\ cursor[s] + Len(replay[s]) + Len(queue[s]) = latest
    /\ Len(replay[s]) + Len(queue[s]) <= 2 * Capacity

\* A client is sent to reconcile only after it had fallen more than Capacity
\* events behind; a client within the capacity is never cut off.
CutOffOnlyWhenBehind ==
  \A s \in Subs :
    \/ status[s] = "reconcile"
    \/ status[s] = "open" /\ s \notin subscribers
    => latest - cursor[s] > Capacity

\* The cursors accepted are exactly those at most Capacity events old, also
\* while fewer than Capacity events have ever been published: a client that
\* reconnects in time never has to reconcile, one that does not never
\* resumes with a gap.
AcceptedCursors ==
  \A after \in 0..MaxId :
    ValidCursor(after) <=> after <= latest /\ latest - after <= Capacity

\* Every open stream catches up with the newest event, or ends.
CaughtUpOrEnded ==
  \A s \in Subs :
    status[s] = "open" ~> (status[s] # "open" \/ cursor[s] = latest)

\* A subscription dropped by the broker is told so (its client would wait
\* on an empty queue for ever otherwise).
DroppedIsTold ==
  \A s \in Subs :
    status[s] = "open" /\ s \notin subscribers ~> status[s] # "open"

\* The broker implements the feed promised to the clients.
Feed == INSTANCE EventFeed WITH Subs <- Subs, Capacity <- Capacity,
          latest <- latest, cursor <- cursor, status <- status
ImplementsFeed == Feed!Spec
==============================================================================
