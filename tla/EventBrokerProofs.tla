-------------------------- MODULE EventBrokerProofs --------------------------
(***************************************************************************)
(* Proofs about EventBroker for every set of subscriptions, every capacity *)
(* and every bound on the ids.                                             *)
(***************************************************************************)
EXTENDS EventBroker, SequenceTheorems, TLAPS

\* The deque holds the last Capacity ids, in order.
Window ==
  /\ Len(events) = IF latest <= Capacity THEN latest ELSE Capacity
  /\ Consecutive(events, latest - Len(events))

\* What a subscription the broker knows still has to yield.
Attached(s) ==
  /\ status[s] = "open"
  /\ Len(replay[s]) <= Capacity
  /\ Len(queue[s]) <= Capacity
  /\ Consecutive(replay[s], cursor[s])
  /\ Consecutive(queue[s], cursor[s] + Len(replay[s]))
  /\ cursor[s] + Len(replay[s]) + Len(queue[s]) = latest

\* What is left of a subscription the broker has dropped.
Dropped(s) ==
  /\ Consecutive(replay[s], cursor[s])
  /\ queue[s] = <<None>>
  /\ latest - (cursor[s] + Len(replay[s])) > Capacity

\* The inductive invariant.  The properties alone are not inductive: that the
\* next id yielded is the right one needs the contents of both buffers.
IInv ==
  /\ TypeOK
  /\ Window
  /\ NoGap
  /\ \A s \in subscribers : Attached(s)
  /\ \A s \in Subs : status[s] = "open" /\ s \notin subscribers => Dropped(s)
  /\ \A s \in Subs : status[s] = "reconcile" => latest - cursor[s] > Capacity

USE CapacityAssumption, MaxIdAssumption

-----------------------------------------------------------------------------
(* Facts about runs of consecutive ids.                                    *)

\* A run of consecutive ids stays one when the next id is appended.
LEMMA AppendNext ==
  ASSUME NEW S, NEW seq \in Seq(S), NEW from \in Int, NEW id \in S,
         Consecutive(seq, from), id = from + Len(seq) + 1
  PROVE  /\ Append(seq, id) \in Seq(S)
         /\ Len(Append(seq, id)) = Len(seq) + 1
         /\ Consecutive(Append(seq, id), from)
<1>1. Len(seq) \in Nat
  OBVIOUS
<1>2. /\ Append(seq, id) \in Seq(S)
      /\ Len(Append(seq, id)) = Len(seq) + 1
      /\ \A i \in 1..Len(seq) : Append(seq, id)[i] = seq[i]
      /\ Append(seq, id)[Len(seq) + 1] = id
  BY AppendProperties
<1>3. \A i \in 1..(Len(seq) + 1) : Append(seq, id)[i] = from + i
  <2>. TAKE i \in 1..(Len(seq) + 1)
  <2>1. CASE i \in 1..Len(seq)
    BY <2>1, <1>2 DEF Consecutive
  <2>2. CASE i = Len(seq) + 1
    BY <2>2, <1>1, <1>2
  <2>. QED  BY <1>1, <2>1, <2>2
<1>. QED  BY <1>2, <1>3 DEF Consecutive

\* Without its first id it is the run from there.
LEMMA DropFirst ==
  ASSUME NEW S, NEW seq \in Seq(S), NEW from \in Int,
         Consecutive(seq, from), seq # <<>>
  PROVE  /\ Head(seq) = from + 1
         /\ Head(seq) \in S
         /\ Tail(seq) \in Seq(S)
         /\ Len(Tail(seq)) = Len(seq) - 1
         /\ Len(seq) \in Nat \ {0}
         /\ Consecutive(Tail(seq), from + 1)
<1>1. /\ Head(seq) \in S
      /\ Tail(seq) \in Seq(S)
      /\ Len(Tail(seq)) = Len(seq) - 1
      /\ \A i \in 1..Len(Tail(seq)) : Tail(seq)[i] = seq[i + 1]
  BY HeadTailProperties
<1>2. Len(seq) \in Nat \ {0} /\ Head(seq) = seq[1]
  OBVIOUS
<1>3. seq[1] = from + 1
  BY <1>2 DEF Consecutive
<1>4. \A i \in 1..Len(Tail(seq)) : Tail(seq)[i] = (from + 1) + i
  BY <1>1, <1>2 DEF Consecutive
<1>. QED  BY <1>1, <1>2, <1>3, <1>4 DEF Consecutive

-----------------------------------------------------------------------------
(* Facts about the operators of the broker.                                *)

\* The deque after one more event is again the window of the newest ids.
LEMMA RetainWindow ==
  ASSUME TypeOK, Window, latest < MaxId
  PROVE  /\ Retain(events, latest + 1) \in Seq(Ids)
         /\ Len(Retain(events, latest + 1)) =
              IF latest + 1 <= Capacity THEN latest + 1 ELSE Capacity
         /\ Consecutive(Retain(events, latest + 1),
                        latest + 1 - Len(Retain(events, latest + 1)))
<1>. DEFINE n == Len(events)
            e == Retain(events, latest + 1)
<1>1. /\ latest + 1 \in Ids
      /\ events \in Seq(Ids)
      /\ n \in Nat
      /\ latest \in Nat
  BY DEF TypeOK, Ids
<1>2. Consecutive(events, latest - n) /\ latest - n \in Int
  BY <1>1 DEF Window
<1>3. CASE n < Capacity
  <2>1. Retain(events, latest + 1) = Append(events, latest + 1)
    BY <1>3 DEF Retain
  <2>2. n = latest
    BY <1>1, <1>3 DEF Window
  <2>3. /\ Append(events, latest + 1) \in Seq(Ids)
        /\ Len(Append(events, latest + 1)) = n + 1
        /\ Consecutive(Append(events, latest + 1), latest - n)
    BY <1>1, <1>2, AppendNext
  <2>4. /\ e \in Seq(Ids)
        /\ Len(e) = n + 1
        /\ Consecutive(e, latest - n)
    BY <2>1, <2>3
  <2>. HIDE DEF e
  <2>5. /\ Len(e) = IF latest + 1 <= Capacity THEN latest + 1 ELSE Capacity
        /\ Consecutive(e, latest + 1 - Len(e))
    BY <1>1, <1>3, <2>2, <2>4 DEF Consecutive
  <2>. QED  BY <2>4, <2>5 DEF e
<1>4. CASE n >= Capacity
  <2>1. n = Capacity /\ latest >= Capacity
    BY <1>1, <1>4 DEF Window
  <2>2. events # <<>>
    BY <1>1, <2>1
  <2>3. /\ Tail(events) \in Seq(Ids)
        /\ Len(Tail(events)) = n - 1
        /\ Consecutive(Tail(events), latest - n + 1)
    BY <1>1, <1>2, <2>2, DropFirst
  <2>4. /\ Append(Tail(events), latest + 1) \in Seq(Ids)
        /\ Len(Append(Tail(events), latest + 1)) = n - 1 + 1
        /\ Consecutive(Append(Tail(events), latest + 1), latest - n + 1)
    <3>. DEFINE rest == Tail(events)
                start == latest - n + 1
    <3>1. /\ latest + 1 = start + Len(rest) + 1
          /\ start \in Int
          /\ rest \in Seq(Ids)
          /\ Len(rest) = n - 1
          /\ Consecutive(rest, start)
      BY <1>1, <2>3
    <3>. HIDE DEF rest, start
    <3>2. /\ Append(rest, latest + 1) \in Seq(Ids)
          /\ Len(Append(rest, latest + 1)) = Len(rest) + 1
          /\ Consecutive(Append(rest, latest + 1), start)
      BY <1>1, <3>1, AppendNext
    <3>. QED  BY <3>1, <3>2 DEF rest, start
  <2>5. Retain(events, latest + 1) = Append(Tail(events), latest + 1)
    BY <1>4 DEF Retain
  <2>6. /\ e \in Seq(Ids)
        /\ Len(e) = n - 1 + 1
        /\ Consecutive(e, latest - n + 1)
    BY <2>4, <2>5
  <2>. HIDE DEF e
  <2>7. /\ Len(e) = IF latest + 1 <= Capacity THEN latest + 1 ELSE Capacity
        /\ Consecutive(e, latest + 1 - Len(e))
    BY <1>1, <2>1, <2>6 DEF Consecutive
  <2>. QED  BY <2>6, <2>7 DEF e
<1>. QED  BY <1>1, <1>3, <1>4

\* The check of a cursor admits exactly the cursors at most Capacity old.
LEMMA CursorCheck ==
  ASSUME TypeOK, Window, NEW after \in 0..MaxId
  PROVE  ValidCursor(after) <=> after <= latest /\ latest - after <= Capacity
<1>1. CASE events = <<>>
  BY <1>1 DEF ValidCursor, Window, TypeOK
<1>2. CASE events # <<>>
  <2>1. Len(events) \in Nat \ {0}
    BY <1>2 DEF TypeOK
  <2>2. OldestId = latest - Len(events) + 1
    BY <1>2, <2>1 DEF OldestId, Window, Consecutive, TypeOK
  <2>. QED  BY <1>2, <2>1, <2>2 DEF ValidCursor, Window, TypeOK
<1>. QED  BY <1>1, <1>2

\* The replay of a valid cursor is every id after it up to the newest.
LEMMA ReplayIsComplete ==
  ASSUME TypeOK, Window, NEW after \in 0..MaxId, ValidCursor(after)
  PROVE  /\ RetainedAfter(after) \in Seq(Ids)
         /\ Len(RetainedAfter(after)) = latest - after
         /\ Consecutive(RetainedAfter(after), after)
<1>. DEFINE Skips(k) == \A i \in 1..Len(events) : i <= k <=> events[i] <= after
            n == Len(events)
            k0 == CHOOSE k \in 0..n : Skips(k)
            j == after - (latest - n)
<1>1. after <= latest /\ latest - after <= Capacity
  BY CursorCheck
<1>2. n \in Nat /\ latest \in Nat
  BY DEF TypeOK
<1>3. j \in 0..n
  BY <1>1, <1>2 DEF Window
<1>4. Skips(j)
  BY <1>2, <1>3 DEF Window, Consecutive
<1>5. \A k \in 0..n : Skips(k) => k = j
  <2>. SUFFICES ASSUME NEW k \in 0..n, Skips(k), k # j PROVE FALSE
    OBVIOUS
  <2>1. CASE k < j
    <3>1. j \in 1..n /\ ~(j <= k)
      BY <1>2, <1>3, <2>1
    <3>. QED  BY <3>1, <1>4, <1>3
  <2>2. CASE k > j
    <3>1. k \in 1..n /\ ~(k <= j)
      BY <1>2, <1>3, <2>2
    <3>. QED  BY <3>1, <1>4, <1>3
  <2>. QED  BY <2>1, <2>2, <1>2, <1>3
<1>6. k0 = j
  <2>. HIDE DEF Skips, j
  <2>. QED  BY <1>3, <1>4, <1>5
<1>7. RetainedAfter(after) = SubSeq(events, j + 1, n)
  BY <1>6 DEF RetainedAfter
<1>8. events \in Seq(Ids)
  BY DEF TypeOK
<1>9. \A i \in (j + 1)..n : events[i] \in Ids
  BY <1>8, <1>2, <1>3
<1>10. /\ SubSeq(events, j + 1, n) \in Seq(Ids)
       /\ Len(SubSeq(events, j + 1, n)) = n - j
       /\ \A i \in 1..(n - j) : SubSeq(events, j + 1, n)[i] = events[j + i]
  <2>2. \A i \in (j + 1)..n : events[i] \in Ids
    BY <1>9
  <2>3. j + 1 \in Int /\ n \in Int
    BY <1>2, <1>3
  <2>4. /\ SubSeq(events, j + 1, n) \in Seq(Ids)
        /\ Len(SubSeq(events, j + 1, n)) = IF j + 1 <= n THEN n - (j + 1) + 1 ELSE 0
        /\ \A i \in 1..(n - (j + 1) + 1) :
              SubSeq(events, j + 1, n)[i] = events[(j + 1) + i - 1]
    <3>. HIDE DEF j, n
    <3>. QED  BY <2>2, <2>3, SubSeqProperties
  <2>. QED  BY <1>2, <1>3, <2>4
<1>11. \A i \in 1..(n - j) : events[j + i] = after + i
  <2>. TAKE i \in 1..(n - j)
  <2>1. j + i \in 1..n /\ (latest - n) + (j + i) = after + i
    BY <1>2, <1>3
  <2>. QED  BY <2>1 DEF Window, Consecutive
<1>12. n - j = latest - after
  BY <1>2
<1>. HIDE DEF j, n
<1>. QED  BY <1>7, <1>10, <1>11, <1>12 DEF Consecutive
-----------------------------------------------------------------------------
(* The inductive invariant.  One lemma per action that moves a sequence.   *)

\* It holds at first.
LEMMA InitIInv == Init => IInv
<1>. SUFFICES ASSUME Init PROVE IInv
  OBVIOUS
<1>. USE DEF Init
<1>1. TypeOK
  BY DEF TypeOK, Status, Ids
<1>2. Window /\ NoGap
  BY DEF Window, NoGap, Consecutive
<1>. QED  BY <1>1, <1>2 DEF IInv

\* publish keeps it.
LEMMA PublishIInv == IInv /\ Publish => IInv'
<1>. SUFFICES ASSUME IInv, Publish PROVE IInv'
  OBVIOUS
<1>. USE DEF IInv
<1>1. /\ latest \in Nat /\ latest' = latest + 1 /\ latest' \in 0..MaxId
      /\ latest + 1 \in Ids /\ latest + 1 \in Ids \union {None}
      /\ latest < MaxId
  BY DEF TypeOK, Publish, Ids
<1>2. Window' /\ events' \in Seq(Ids)
  BY <1>1, RetainWindow DEF Publish, Window
<1>3. ASSUME NEW s \in subscribers
      PROVE  /\ queue[s] \in Seq(Ids \union {None})
             /\ replay[s] \in Seq(Ids)
             /\ Len(queue[s]) \in Nat /\ Len(replay[s]) \in Nat
             /\ cursor[s] \in Nat
             /\ s \in Subs
  BY DEF TypeOK
<1>4. ASSUME NEW s \in subscribers \ Full
      PROVE  /\ queue'[s] \in Seq(Ids \union {None})
             /\ Len(queue'[s]) = Len(queue[s]) + 1
             /\ Len(queue'[s]) <= Capacity
             /\ Consecutive(queue'[s], cursor[s] + Len(replay[s]))
  <2>1. queue'[s] = Append(queue[s], latest + 1)
    BY <1>3 DEF Publish, Full
  <2>2. Attached(s) /\ Len(queue[s]) < Capacity
    BY <1>3 DEF Full
  <2>. DEFINE from == cursor[s] + Len(replay[s])
  <2>3. /\ from \in Int
        /\ latest + 1 = from + Len(queue[s]) + 1
        /\ Consecutive(queue[s], from)
    BY <1>3, <1>1, <2>2 DEF Attached
  <2>. HIDE DEF from
  <2>4. /\ Append(queue[s], latest + 1) \in Seq(Ids \union {None})
        /\ Len(Append(queue[s], latest + 1)) = Len(queue[s]) + 1
        /\ Consecutive(Append(queue[s], latest + 1), from)
    BY <1>1, <1>3, <2>3, AppendNext
  <2>. QED  BY <1>3, <2>1, <2>2, <2>4 DEF from
<1>5. TypeOK'
  <2>1. queue' \in [Subs -> Seq(Ids \union {None})]
    <3>1. ASSUME NEW s \in Subs PROVE queue'[s] \in Seq(Ids \union {None})
      <4>1. CASE s \in Full
        BY <4>1 DEF Publish, None
      <4>2. CASE s \in subscribers \ Full
        BY <4>2, <1>4
      <4>3. CASE s \notin subscribers
        BY <4>3 DEF Publish, TypeOK, Full
      <4>. QED  BY <4>1, <4>2, <4>3
    <3>. QED  BY <3>1 DEF Publish
  <2>. QED  BY <1>1, <1>2, <2>1 DEF Publish, TypeOK
<1>6. NoGap'
  BY DEF NoGap, Publish
<1>7. ASSUME NEW s \in subscribers' PROVE Attached(s)'
  <2>1. s \in subscribers \ Full /\ Attached(s) /\ s \in Subs
    BY <1>3 DEF Publish
  <2>2. replay' = replay /\ cursor' = cursor /\ status' = status
    BY DEF Publish
  <2>3. /\ Len(queue'[s]) <= Capacity
        /\ Consecutive(queue'[s], cursor[s] + Len(replay[s]))
    BY <1>4, <2>1
  <2>5. cursor[s] + Len(replay[s]) + Len(queue'[s]) = latest + 1
    <3>. DEFINE here == cursor[s] + Len(replay[s])
                before == Len(queue[s])
                after == Len(queue'[s])
    <3>1. here \in Int /\ before \in Int /\ after = before + 1
      BY <1>3, <1>4, <2>1
    <3>2. here + before = latest
      BY <2>1 DEF Attached
    <3>3. latest \in Int
      BY <1>1
    <3>. HIDE DEF here, before, after
    <3>4. here + after = latest + 1
      BY <3>1, <3>2, <3>3
    <3>. QED  BY <3>4, Zenon DEF here, after
  <2>4. /\ status[s] = "open" /\ Len(replay[s]) <= Capacity
        /\ Consecutive(replay[s], cursor[s])
    BY <2>1 DEF Attached
  <2>. QED  BY <1>1, <2>2, <2>3, <2>4, <2>5 DEF Attached
<1>8. ASSUME NEW s \in Subs, (status[s] = "open" /\ s \notin subscribers)'
      PROVE  Dropped(s)'
  <2>1. replay' = replay /\ cursor' = cursor /\ status' = status
    BY DEF Publish
  <2>2. CASE s \in subscribers
    <3>1. s \in Full /\ Attached(s)
      BY <1>8, <2>2 DEF Publish
    <3>2. queue'[s] = <<None>>
      BY <3>1 DEF Publish
    <3>3. /\ cursor[s] \in Nat /\ latest \in Nat
          /\ Len(replay[s]) \in Nat /\ Len(queue[s]) \in Nat
          /\ Len(queue[s]) = Capacity
          /\ cursor[s] + Len(replay[s]) + Len(queue[s]) = latest
          /\ Len(replay[s]) <= Capacity /\ Consecutive(replay[s], cursor[s])
      BY <1>1, <1>3, <3>1 DEF Attached, Full
    <3>4. cursor[s] + Len(replay[s]) + Capacity < latest + 1
      BY <3>3
    <3>. QED  BY <1>1, <2>1, <3>2, <3>3, <3>4 DEF Dropped
  <2>3. CASE s \notin subscribers
    <3>1. queue'[s] = queue[s] /\ Dropped(s)
      BY <1>8, <2>1, <2>3 DEF Publish, Full
    <3>2. Len(replay[s]) \in Nat /\ cursor[s] \in Nat
      BY DEF TypeOK
    <3>. QED  BY <1>1, <2>1, <3>1, <3>2 DEF Dropped
  <2>. QED  BY <2>2, <2>3
<1>9. \A s \in Subs : (status[s] = "reconcile" => latest - cursor[s] > Capacity)'
  BY <1>1 DEF Publish, TypeOK
<1>. QED  BY <1>2, <1>5, <1>6, <1>7, <1>8, <1>9

\* open keeps it.
LEMMA OpenIInv ==
  ASSUME IInv, NEW s \in Subs, NEW after \in 0..MaxId, NEW replayed \in Seq(Ids),
         after + Len(replayed) = latest, Len(replayed) <= Capacity,
         Consecutive(replayed, after), Open(s, after, replayed)
  PROVE  IInv'
<1>0. TypeOK
  BY DEF IInv
<1>1. TypeOK'
  <2>1. replay' \in [Subs -> Seq(Ids)]
    BY <1>0 DEF TypeOK, Open
  <2>5. received' \in [Subs -> Seq(Ids)]
    <3>1. received \in [Subs -> Seq(Ids)]
      BY <1>0 DEF TypeOK
    <3>2. received' = [received EXCEPT ![s] = <<>>]
      BY DEF Open
    <3>3. <<>> \in Seq(Ids)
      OBVIOUS
    <3>. QED  BY <3>1, <3>2, <3>3
  <2>4. queue' \in [Subs -> Seq(Ids \union {None})]
    <3>1. queue \in [Subs -> Seq(Ids \union {None})]
      BY <1>0 DEF TypeOK
    <3>2. queue' = [queue EXCEPT ![s] = <<>>]
      BY DEF Open
    <3>3. <<>> \in Seq(Ids \union {None})
      OBVIOUS
    <3>. QED  BY <3>1, <3>2, <3>3
  <2>2. /\ cursor' \in [Subs -> 0..MaxId] /\ first' \in [Subs -> 0..MaxId]
        /\ status' \in [Subs -> Status] /\ subscribers' \subseteq Subs
    BY <1>0 DEF TypeOK, Open, Status
  <2>3. latest' = latest /\ events' = events
    BY DEF Open
  <2>. QED  BY <1>0, <2>1, <2>2, <2>3, <2>4, <2>5 DEF TypeOK
<1>2. Window'
  BY DEF IInv, Window, Open
<1>3. NoGap'
  <2>. SUFFICES ASSUME NEW t \in Subs
                PROVE  (/\ Consecutive(received[t], first[t])
                        /\ cursor[t] = first[t] + Len(received[t]))'
    BY DEF NoGap
  <2>1. CASE t = s
    BY <1>0, <2>1 DEF Open, TypeOK, Consecutive
  <2>2. CASE t # s
    BY <1>0, <2>2 DEF IInv, Open, TypeOK, NoGap
  <2>. QED  BY <2>1, <2>2
<1>4. ASSUME NEW t \in subscribers' PROVE Attached(t)'
  <2>1. CASE t = s
    <3>1. /\ replay'[s] = replayed /\ queue'[s] = <<>> /\ cursor'[s] = after
          /\ status'[s] = "open" /\ latest' = latest
      BY <1>0 DEF Open, TypeOK
    <3>2. Len(replayed) \in Nat /\ latest \in Nat
      BY <1>0 DEF TypeOK
    <3>. QED  BY <2>1, <3>1, <3>2 DEF Attached, Consecutive
  <2>2. CASE t # s
    <3>1. /\ t \in subscribers /\ t \in Subs
          /\ replay'[t] = replay[t] /\ queue'[t] = queue[t]
          /\ cursor'[t] = cursor[t] /\ status'[t] = status[t] /\ latest' = latest
      BY <1>0, <2>2 DEF Open, TypeOK
    <3>2. Attached(t)
      BY <3>1 DEF IInv
    <3>. QED  BY <3>1, <3>2 DEF Attached
  <2>. QED  BY <2>1, <2>2
<1>5. ASSUME NEW t \in Subs, (status[t] = "open" /\ t \notin subscribers)'
      PROVE  Dropped(t)'
  <2>1. t # s /\ t \notin subscribers /\ status[t] = "open"
    BY <1>0, <1>5 DEF Open, TypeOK
  <2>2. /\ replay'[t] = replay[t] /\ queue'[t] = queue[t]
        /\ cursor'[t] = cursor[t] /\ latest' = latest
    BY <1>0, <2>1 DEF Open, TypeOK
  <2>3. Dropped(t)
    BY <2>1 DEF IInv
  <2>. QED  BY <2>2, <2>3 DEF Dropped
<1>6. \A t \in Subs : (status[t] = "reconcile" => latest - cursor[t] > Capacity)'
  BY <1>0 DEF IInv, Open, TypeOK
<1>. QED  BY <1>1, <1>2, <1>3, <1>4, <1>5, <1>6 DEF IInv

\* Yielding the id after the cursor keeps the history gap-free.
LEMMA YieldNoGap ==
  ASSUME TypeOK, NoGap, NEW s \in Subs, NEW id \in Ids,
         id = cursor[s] + 1, Yield(s, id)
  PROVE  /\ NoGap'
         /\ received' \in [Subs -> Seq(Ids)]
         /\ cursor' \in [Subs -> 0..MaxId]
<1>1. /\ received[s] \in Seq(Ids) /\ first[s] \in Int /\ Len(received[s]) \in Nat
      /\ Consecutive(received[s], first[s])
      /\ cursor[s] = first[s] + Len(received[s])
      /\ cursor[s] \in Nat
  BY DEF TypeOK, NoGap
<1>2. /\ Append(received[s], id) \in Seq(Ids)
      /\ Len(Append(received[s], id)) = Len(received[s]) + 1
      /\ Consecutive(Append(received[s], id), first[s])
  BY <1>1, AppendNext
<1>3. /\ received' = [received EXCEPT ![s] = Append(received[s], id)]
      /\ cursor' = [cursor EXCEPT ![s] = id]
      /\ first' = first
  BY DEF Yield
<1>4. received' \in [Subs -> Seq(Ids)] /\ cursor' \in [Subs -> 0..MaxId]
  BY <1>2, <1>3 DEF TypeOK, Ids
<1>5. ASSUME NEW t \in Subs
      PROVE  (/\ Consecutive(received[t], first[t])
              /\ cursor[t] = first[t] + Len(received[t]))'
  <2>1. CASE t = s
    <3>1. received'[s] = Append(received[s], id) /\ cursor'[s] = id /\ first'[s] = first[s]
      BY <1>3 DEF TypeOK
    <3>. QED  BY <1>1, <1>2, <2>1, <3>1
  <2>2. CASE t # s
    BY <1>3, <2>2 DEF TypeOK, NoGap
  <2>. QED  BY <2>1, <2>2
<1>. QED  BY <1>4, <1>5 DEF NoGap

\* The step of __anext__ that takes from the replay.
LEMMA TakeReplayIInv ==
  ASSUME IInv, NEW s \in Subs, TakeReplay(s)
  PROVE  IInv' /\ cursor'[s] = cursor[s] + 1 /\ cursor[s] < latest
<1>. DEFINE id == Head(replay[s])
            rest == Tail(replay[s])
<1>1. /\ replay[s] \in Seq(Ids) /\ queue[s] \in Seq(Ids \union {None})
      /\ Len(queue[s]) \in Nat /\ cursor[s] \in Int /\ latest \in Int
      /\ status[s] = "open" /\ replay[s] # <<>>
  BY DEF IInv, TypeOK, TakeReplay
<1>2. Consecutive(replay[s], cursor[s])
  BY <1>1 DEF IInv, Attached, Dropped
<1>3. /\ id = cursor[s] + 1 /\ id \in Ids
      /\ rest \in Seq(Ids)
      /\ Len(rest) = Len(replay[s]) - 1
      /\ Len(replay[s]) \in Nat \ {0}
      /\ Consecutive(rest, cursor[s] + 1)
  BY <1>1, <1>2, DropFirst
<1>4. /\ replay' = [replay EXCEPT ![s] = rest]
      /\ queue' = queue /\ latest' = latest /\ events' = events
      /\ subscribers' = subscribers /\ status' = status /\ first' = first
      /\ cursor' = [cursor EXCEPT ![s] = id]
      /\ Yield(s, id)
  BY DEF TakeReplay, Yield
<1>. HIDE DEF id, rest
<1>5. /\ NoGap'
      /\ received' \in [Subs -> Seq(Ids)]
      /\ cursor' \in [Subs -> 0..MaxId]
  BY <1>3, <1>4, YieldNoGap DEF IInv
<1>6. TypeOK'
  BY <1>3, <1>4, <1>5 DEF IInv, TypeOK
<1>7. Window'
  BY <1>4 DEF IInv, Window
<1>8. /\ replay'[s] = rest /\ cursor'[s] = cursor[s] + 1
      /\ replay'[s] \in Seq(Ids) /\ cursor'[s] \in Int
  BY <1>3, <1>4 DEF IInv, TypeOK
<1>9. ASSUME NEW t \in Subs, t # s
      PROVE  replay'[t] = replay[t] /\ cursor'[t] = cursor[t]
  BY <1>4, <1>9 DEF IInv, TypeOK
<1>10. ASSUME NEW t \in subscribers' PROVE Attached(t)'
  <2>1. t \in subscribers /\ t \in Subs /\ Attached(t)
    BY <1>4 DEF IInv, TypeOK
  <2>2. CASE t = s
    <3>. DEFINE old == Len(replay[s])
                new == Len(replay'[s])
                was == cursor[s]
                is == cursor'[s]
    <3>0. /\ new = old - 1 /\ is = was + 1
          /\ new \in Nat /\ old \in Nat /\ is \in Int /\ was \in Int
      BY <1>1, <1>3, <1>8
    <3>. HIDE DEF old, new, was, is
    <3>8. is + new = was + old
      BY <3>0
    <3>1. cursor'[s] + Len(replay'[s]) = cursor[s] + Len(replay[s])
      BY <3>8, Zenon DEF old, new, was, is
    <3>2. Consecutive(queue[s], cursor'[s] + Len(replay'[s]))
      BY <2>1, <2>2, <3>1 DEF Attached
    <3>3. Consecutive(replay'[s], cursor'[s])
      BY <1>3, <1>8
    <3>5. /\ was + old + Len(queue[s]) = latest
          /\ old <= Capacity /\ Len(queue[s]) <= Capacity
      BY <2>1, <2>2 DEF Attached, old, was
    <3>6. is + new + Len(queue[s]) = latest
      BY <3>5, <3>8, Zenon
    <3>7. new <= Capacity
      BY <3>0, <3>5
    <3>4. /\ Len(replay'[s]) <= Capacity /\ Len(queue[s]) <= Capacity
          /\ cursor'[s] + Len(replay'[s]) + Len(queue[s]) = latest
      BY <3>5, <3>6, <3>7, Zenon DEF new, is
    <3>. QED  BY <1>1, <1>4, <2>2, <3>2, <3>3, <3>4 DEF Attached
  <2>3. CASE t # s
    BY <1>4, <1>9, <2>1, <2>3 DEF Attached
  <2>. QED  BY <2>2, <2>3
<1>11. ASSUME NEW t \in Subs, (status[t] = "open" /\ t \notin subscribers)'
       PROVE  Dropped(t)'
  <2>1. Dropped(t)
    BY <1>4, <1>11 DEF IInv
  <2>2. CASE t = s
    <3>. DEFINE old == Len(replay[s])
                new == Len(replay'[s])
                was == cursor[s]
                is == cursor'[s]
    <3>1. /\ new = old - 1 /\ is = was + 1 /\ latest \in Int
          /\ new \in Nat /\ old \in Nat /\ is \in Int /\ was \in Int
      BY <1>1, <1>3, <1>8
    <3>2. latest - (was + old) > Capacity /\ queue[s] = <<None>>
      BY <2>1, <2>2 DEF Dropped
    <3>3. queue'[s] = <<None>> /\ latest' = latest
          /\ Consecutive(replay'[s], is)
      BY <1>3, <1>4, <1>8, <3>2
    <3>. HIDE DEF old, new, was, is
    <3>4. latest - (is + new) > Capacity
      BY <3>1, <3>2
    <3>. QED  BY <2>2, <3>3, <3>4, Zenon DEF Dropped, new, is
  <2>3. CASE t # s
    BY <1>4, <1>9, <2>1, <2>3 DEF Dropped
  <2>. QED  BY <2>2, <2>3
<1>12. \A t \in Subs : (status[t] = "reconcile" => latest - cursor[t] > Capacity)'
  BY <1>1, <1>4, <1>9 DEF IInv
<1>13. cursor[s] < latest
  <2>. DEFINE len == Len(replay[s])
              live == Len(queue[s])
              at == cursor[s]
  <2>1. /\ len \in Nat \ {0} /\ live \in Nat
        /\ at \in Int /\ latest \in Int
    BY <1>1, <1>3
  <2>2. at + len + live = latest \/ latest - (at + len) > Capacity
    BY <1>1 DEF IInv, Attached, Dropped
  <2>. HIDE DEF len, live, at
  <2>3. at < latest
    BY <2>1, <2>2
  <2>. QED  BY <2>3 DEF at
<1>. QED  BY <1>5, <1>6, <1>7, <1>8, <1>10, <1>11, <1>12, <1>13 DEF IInv

\* The step of __anext__ that takes an event from the queue.
LEMMA TakeLiveIInv ==
  ASSUME IInv, NEW s \in Subs, TakeLive(s)
  PROVE  IInv' /\ cursor'[s] = cursor[s] + 1 /\ cursor[s] < latest
<1>. DEFINE id == Head(queue[s])
            rest == Tail(queue[s])
<1>1. /\ queue[s] \in Seq(Ids \union {None})
      /\ cursor[s] \in Int /\ latest \in Int
      /\ status[s] = "open" /\ replay[s] = <<>> /\ queue[s] # <<>> /\ id # None
  BY DEF IInv, TypeOK, TakeLive
<1>2. s \in subscribers /\ Attached(s)
  <2>1. CASE s \notin subscribers
    BY <1>1, <2>1 DEF IInv, Dropped
  <2>. QED  BY <2>1 DEF IInv
<1>3. Len(replay[s]) = 0 /\ Consecutive(queue[s], cursor[s])
  BY <1>1, <1>2 DEF Attached
<1>4. /\ id = cursor[s] + 1 /\ id \in Ids
      /\ rest \in Seq(Ids \union {None})
      /\ Len(rest) = Len(queue[s]) - 1
      /\ Len(queue[s]) \in Nat \ {0}
      /\ Consecutive(rest, cursor[s] + 1)
  BY <1>1, <1>3, DropFirst DEF None
<1>5. /\ queue' = [queue EXCEPT ![s] = rest]
      /\ replay' = replay /\ latest' = latest /\ events' = events
      /\ subscribers' = subscribers /\ status' = status /\ first' = first
      /\ cursor' = [cursor EXCEPT ![s] = id]
      /\ Yield(s, id)
  BY DEF TakeLive, Yield
<1>. HIDE DEF id, rest
<1>6. /\ NoGap'
      /\ received' \in [Subs -> Seq(Ids)]
      /\ cursor' \in [Subs -> 0..MaxId]
  BY <1>4, <1>5, YieldNoGap DEF IInv
<1>7. TypeOK'
  BY <1>4, <1>5, <1>6 DEF IInv, TypeOK
<1>8. Window'
  BY <1>5 DEF IInv, Window
<1>9. /\ queue'[s] = rest /\ cursor'[s] = cursor[s] + 1
      /\ queue'[s] \in Seq(Ids \union {None})
      /\ replay[s] \in Seq(Ids) /\ cursor'[s] \in Int
  BY <1>4, <1>5 DEF IInv, TypeOK
<1>10. ASSUME NEW t \in Subs, t # s
       PROVE  queue'[t] = queue[t] /\ cursor'[t] = cursor[t]
  BY <1>5, <1>10 DEF IInv, TypeOK
<1>11. ASSUME NEW t \in subscribers' PROVE Attached(t)'
  <2>1. t \in subscribers /\ t \in Subs /\ Attached(t)
    BY <1>5 DEF IInv, TypeOK
  <2>2. CASE t = s
    <3>1. Consecutive(replay'[s], cursor'[s])
      BY <1>1, <1>5 DEF Consecutive
    <3>2. cursor'[s] + Len(replay'[s]) = cursor[s] + 1
      BY <1>1, <1>3, <1>5, <1>9
    <3>3. Consecutive(queue'[s], cursor'[s] + Len(replay'[s]))
      BY <1>4, <1>9, <3>2
    <3>. DEFINE old == Len(queue[s])
                new == Len(queue'[s])
                was == cursor[s]
    <3>5. new = old - 1 /\ new \in Nat /\ old \in Nat /\ was \in Int
      BY <1>1, <1>4, <1>9
    <3>6. was + 0 + old = latest /\ old <= Capacity
      BY <1>3, <2>1, <2>2 DEF Attached
    <3>7. Len(replay'[s]) = 0 /\ 0 <= Capacity
      BY <1>3, <1>5
    <3>. HIDE DEF old, new, was
    <3>8. was + 1 + new = latest /\ new <= Capacity
      BY <3>5, <3>6
    <3>4. /\ Len(replay'[s]) <= Capacity /\ Len(queue'[s]) <= Capacity
          /\ cursor'[s] + Len(replay'[s]) + Len(queue'[s]) = latest
      BY <3>2, <3>7, <3>8, Zenon DEF new, was
    <3>. QED  BY <1>1, <1>5, <2>2, <3>1, <3>3, <3>4 DEF Attached
  <2>3. CASE t # s
    BY <1>5, <1>10, <2>1, <2>3 DEF Attached
  <2>. QED  BY <2>2, <2>3
<1>12. ASSUME NEW t \in Subs, (status[t] = "open" /\ t \notin subscribers)'
       PROVE  Dropped(t)'
  BY <1>2, <1>5, <1>10, <1>12 DEF IInv, Dropped
<1>13. \A t \in Subs : (status[t] = "reconcile" => latest - cursor[t] > Capacity)'
  BY <1>1, <1>5, <1>10 DEF IInv
<1>14. cursor[s] < latest
  BY <1>1, <1>2, <1>3, <1>4 DEF Attached
<1>. QED  BY <1>6, <1>7, <1>8, <1>9, <1>11, <1>12, <1>13, <1>14 DEF IInv

\* A stream that ends, by its end marker or by its client.
LEMMA EndIInv ==
  ASSUME IInv, NEW s \in Subs, NEW end \in {"closed", "reconcile"},
         NEW rest \in Seq(Ids \union {None}),
         status[s] = "open",
         end = "reconcile" => latest - cursor[s] > Capacity,
         status' = [status EXCEPT ![s] = end],
         queue' = [queue EXCEPT ![s] = rest],
         subscribers' = subscribers \ {s},
         UNCHANGED <<latest, events, replay, cursor, first, received>>
  PROVE  IInv'
<1>1. TypeOK'
  BY DEF IInv, TypeOK, Status
<1>2. Window' /\ NoGap'
  BY DEF IInv, Window, NoGap
<1>3. ASSUME NEW t \in Subs, t # s
      PROVE  queue'[t] = queue[t] /\ status'[t] = status[t]
  BY <1>3 DEF IInv, TypeOK
<1>4. status'[s] = end
  BY DEF IInv, TypeOK
<1>5. ASSUME NEW t \in subscribers' PROVE Attached(t)'
  <2>1. t \in subscribers /\ t \in Subs /\ t # s /\ Attached(t)
    BY DEF IInv, TypeOK
  <2>. QED  BY <1>3, <2>1 DEF Attached
<1>6. ASSUME NEW t \in Subs, (status[t] = "open" /\ t \notin subscribers)'
      PROVE  Dropped(t)'
  <2>1. t # s /\ t \notin subscribers /\ status[t] = "open"
    BY <1>3, <1>4, <1>6
  <2>2. Dropped(t)
    BY <2>1 DEF IInv
  <2>. QED  BY <1>3, <2>1, <2>2 DEF Dropped
<1>7. \A t \in Subs : (status[t] = "reconcile" => latest - cursor[t] > Capacity)'
  BY <1>3, <1>4 DEF IInv
<1>. QED  BY <1>1, <1>2, <1>5, <1>6, <1>7 DEF IInv

\* The end marker reaches a client only once it is Capacity events behind.
LEMMA TakeEndBehind ==
  ASSUME IInv, NEW s \in Subs, TakeEnd(s)
  PROVE  latest - cursor[s] > Capacity
<1>1. /\ queue[s] \in Seq(Ids \union {None})
      /\ cursor[s] \in Int /\ latest \in Int
      /\ status[s] = "open" /\ replay[s] = <<>> /\ queue[s] # <<>>
      /\ Head(queue[s]) = None
  BY DEF IInv, TypeOK, TakeEnd
<1>2. s \notin subscribers
  <2>. SUFFICES ASSUME s \in subscribers PROVE FALSE
    OBVIOUS
  <2>1. Consecutive(queue[s], cursor[s] + Len(replay[s])) /\ Len(replay[s]) = 0
    BY <1>1 DEF IInv, Attached
  <2>2. Consecutive(queue[s], cursor[s])
    BY <1>1, <2>1
  <2>3. Head(queue[s]) = cursor[s] + 1
    BY <1>1, <2>2, DropFirst
  <2>. QED  BY <1>1, <2>3 DEF None, IInv, TypeOK
<1>3. Dropped(s)
  BY <1>1, <1>2 DEF IInv
<1>. QED  BY <1>1, <1>3 DEF Dropped

\* Every step of the broker keeps the invariant.
LEMMA NextIInv == IInv /\ [Next]_vars => IInv'
<1>. SUFFICES ASSUME IInv, [Next]_vars PROVE IInv'
  OBVIOUS
<1>1. CASE Publish
  BY <1>1, PublishIInv
<1>2. ASSUME NEW s \in Subs, NEW after \in 0..MaxId, SubscribeAfter(s, after)
      PROVE  IInv'
  <2>1. /\ RetainedAfter(after) \in Seq(Ids)
        /\ Len(RetainedAfter(after)) = latest - after
        /\ Consecutive(RetainedAfter(after), after)
    BY <1>2, ReplayIsComplete DEF SubscribeAfter, IInv
  <2>2. latest - after <= Capacity
    BY <1>2, CursorCheck DEF SubscribeAfter, IInv
  <2>3. after + Len(RetainedAfter(after)) = latest
    BY <2>1 DEF IInv, TypeOK
  <2>4. Len(RetainedAfter(after)) <= Capacity
    BY <2>1, <2>2
  <2>5. Open(s, after, RetainedAfter(after))
    BY <1>2 DEF SubscribeAfter
  <2>. HIDE DEF IInv
  <2>. QED  BY <2>1, <2>3, <2>4, <2>5, OpenIInv
<1>3. ASSUME NEW s \in Subs, SubscribeLive(s)
      PROVE  IInv'
  <2>. DEFINE nothing == <<>>
  <2>1. /\ latest \in 0..MaxId /\ nothing \in Seq(Ids)
        /\ latest + Len(nothing) = latest /\ Len(nothing) <= Capacity
        /\ Consecutive(nothing, latest)
    BY DEF IInv, TypeOK, Consecutive
  <2>2. Open(s, latest, nothing)
    BY <1>3 DEF SubscribeLive
  <2>. HIDE DEF nothing
  <2>. QED  BY <2>1, <2>2, OpenIInv
<1>4. ASSUME NEW s \in Subs, TakeReplay(s) PROVE IInv'
  BY <1>4, TakeReplayIInv
<1>5. ASSUME NEW s \in Subs, TakeLive(s) PROVE IInv'
  BY <1>5, TakeLiveIInv
<1>6. ASSUME NEW s \in Subs, TakeEnd(s) PROVE IInv'
  <2>1. queue[s] \in Seq(Ids \union {None}) /\ queue[s] # <<>>
    BY <1>6 DEF IInv, TypeOK, TakeEnd
  <2>2. Tail(queue[s]) \in Seq(Ids \union {None})
    BY <2>1, HeadTailProperties
  <2>. QED  BY <1>6, <2>2, TakeEndBehind, EndIInv DEF TakeEnd
<1>7. ASSUME NEW s \in Subs, Close(s) PROVE IInv'
  <2>1. queue[s] \in Seq(Ids \union {None}) /\ queue' = [queue EXCEPT ![s] = queue[s]]
    BY <1>7 DEF IInv, TypeOK, Close
  <2>. QED  BY <1>7, <2>1, EndIInv DEF Close
<1>8. CASE UNCHANGED vars
  BY <1>8 DEF vars, IInv, TypeOK, Window, NoGap, Attached, Dropped
<1>. QED
  BY <1>1, <1>2, <1>3, <1>4, <1>5, <1>6, <1>7, <1>8 DEF Next, Receive

\* The inductive invariant holds throughout, for any bounds.
THEOREM Invariance == Spec => []IInv
BY InitIInv, NextIInv, PTL DEF Spec

-----------------------------------------------------------------------------
(* The properties the runs check, for every value of the constants.        *)

\* Every variable keeps its type: no id outside 1..MaxId enters the deque, a
\* replay or a queue.
THEOREM TypeCorrect == Spec => []TypeOK
BY Invariance, PTL DEF IInv

\* A stream yields every event after its cursor once and in order, whatever
\* the interleaving of publications, other subscriptions and disconnections.
THEOREM GapFreedom == Spec => []NoGap
BY Invariance, PTL DEF IInv

\* What the broker buffers for a subscription is exactly what its client has
\* not seen, and at most twice the capacity.
THEOREM BacklogExactness == Spec => []BacklogIsExact
<1>1. IInv => BacklogIsExact
  <2>. SUFFICES ASSUME IInv, NEW s \in subscribers
                PROVE  /\ status[s] = "open"
                       /\ cursor[s] + Len(replay[s]) + Len(queue[s]) = latest
                       /\ Len(replay[s]) + Len(queue[s]) <= 2 * Capacity
    BY DEF BacklogIsExact
  <2>1. /\ replay[s] \in Seq(Ids) /\ queue[s] \in Seq(Ids \union {None})
        /\ Len(replay[s]) \in Nat /\ Len(queue[s]) \in Nat
    BY DEF IInv, TypeOK
  <2>2. /\ status[s] = "open" /\ Len(replay[s]) <= Capacity /\ Len(queue[s]) <= Capacity
        /\ cursor[s] + Len(replay[s]) + Len(queue[s]) = latest
    BY DEF IInv, Attached
  <2>3. ASSUME NEW a \in Nat, NEW b \in Nat, a <= Capacity, b <= Capacity
        PROVE  a + b <= 2 * Capacity
    BY <2>3
  <2>4. Len(replay[s]) + Len(queue[s]) <= 2 * Capacity
    BY <2>1, <2>2, <2>3
  <2>. QED  BY <2>2, <2>4
<1>. QED  BY <1>1, Invariance, PTL

\* Only a client more than Capacity events behind is cut off.
THEOREM CutOffJustified == Spec => []CutOffOnlyWhenBehind
<1>1. IInv => CutOffOnlyWhenBehind
  <2>. SUFFICES ASSUME IInv, NEW s \in Subs,
                       \/ status[s] = "reconcile"
                       \/ status[s] = "open" /\ s \notin subscribers
                PROVE  latest - cursor[s] > Capacity
    BY DEF CutOffOnlyWhenBehind
  <2>1. CASE status[s] = "reconcile"
    BY <2>1 DEF IInv
  <2>2. CASE status[s] = "open" /\ s \notin subscribers
    <3>1. /\ replay[s] \in Seq(Ids) /\ Len(replay[s]) \in Nat
          /\ cursor[s] \in Int /\ latest \in Int
      BY DEF IInv, TypeOK
    <3>. QED  BY <2>2, <3>1 DEF IInv, Dropped
  <2>. QED  BY <2>1, <2>2
<1>. QED  BY <1>1, Invariance, PTL

\* The cursor check admits a reconnecting client exactly while no event it
\* has missed is gone.
THEOREM CursorExactness == Spec => []AcceptedCursors
<1>1. IInv => AcceptedCursors
  BY CursorCheck DEF IInv, AcceptedCursors
<1>. QED  BY <1>1, Invariance, PTL

-----------------------------------------------------------------------------
(* The broker implements the feed: each step is a step of EventFeed or     *)
(* leaves its variables unchanged.                                         *)

\* Every step of the broker is one of the feed, or none.
LEMMA FeedStep == IInv /\ [Next]_vars => [Feed!Next]_(Feed!vars)
<1>. SUFFICES ASSUME IInv, [Next]_vars PROVE [Feed!Next]_(Feed!vars)
  OBVIOUS
<1>1. latest \in Nat
  BY DEF IInv, TypeOK
<1>2. CASE Publish
  BY <1>2 DEF Publish, Feed!Next, Feed!Publish
<1>3. ASSUME NEW s \in Subs, NEW after \in 0..latest,
             NEW replayed, latest - after <= Capacity, Open(s, after, replayed)
      PROVE  Feed!Next
  BY <1>3 DEF Open, Feed!Next, Feed!Join
<1>4. ASSUME NEW s \in Subs, NEW after \in 0..MaxId, SubscribeAfter(s, after)
      PROVE  Feed!Next
  <2>1. after \in 0..latest /\ latest - after <= Capacity
    BY <1>1, <1>4, CursorCheck DEF IInv, SubscribeAfter
  <2>. QED  BY <1>3, <1>4, <2>1 DEF SubscribeAfter
<1>5. ASSUME NEW s \in Subs, SubscribeLive(s)
      PROVE  Feed!Next
  <2>1. latest \in 0..latest /\ latest - latest <= Capacity
    BY <1>1
  <2>. QED  BY <1>3, <1>5, <2>1 DEF SubscribeLive
<1>6. ASSUME NEW s \in Subs, TakeReplay(s) \/ TakeLive(s)
      PROVE  Feed!Next
  <2>1. cursor'[s] = cursor[s] + 1 /\ cursor[s] < latest
    BY <1>6, TakeReplayIInv, TakeLiveIInv
  <2>2. /\ status[s] = "open" /\ status' = status /\ latest' = latest
        /\ \E id : cursor' = [cursor EXCEPT ![s] = id]
    BY <1>6 DEF TakeReplay, TakeLive, Yield
  <2>3. cursor' = [cursor EXCEPT ![s] = cursor[s] + 1]
    BY <2>1, <2>2 DEF IInv, TypeOK
  <2>. QED  BY <2>1, <2>2, <2>3 DEF Feed!Next, Feed!Deliver
<1>7. ASSUME NEW s \in Subs, TakeEnd(s)
      PROVE  Feed!Next
  BY <1>7, TakeEndBehind DEF TakeEnd, Feed!Next, Feed!CutOff
<1>8. ASSUME NEW s \in Subs, Close(s)
      PROVE  Feed!Next
  BY <1>8 DEF Close, Feed!Next, Feed!Leave
<1>9. CASE UNCHANGED vars
  BY <1>9 DEF vars, Feed!vars
<1>. QED
  BY <1>2, <1>4, <1>5, <1>6, <1>7, <1>8, <1>9 DEF Next, Receive

\* Seen from its clients, the broker with its deque and queues is the feed.
THEOREM Refinement == Spec => ImplementsFeed
<1>1. Init => Feed!Init
  BY DEF Init, Feed!Init
<1>. QED  BY <1>1, Invariance, FeedStep, PTL DEF Spec, ImplementsFeed, Feed!Spec
==============================================================================
