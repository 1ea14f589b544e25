----------------------------- MODULE Compaction ------------------------------
(***************************************************************************)
(* Keeping an agent's history inside its model's context                   *)
(* (services/benchmark_compaction.py).                                     *)
(*                                                                         *)
(* A history is a sequence of messages.  Of a message only its role, the   *)
(* tool calls it makes or answers and its size are kept.                   *)
(***************************************************************************)
EXTENDS Integers, Sequences, FiniteSets, Folds

CONSTANTS
  KeepRounds,   \* KEEP_ROUNDS: the latest rounds are never pruned
  Short         \* size of a placeholder, and the longest text left alone

ASSUME KeepRoundsAssumption == KeepRounds \in Nat \ {0}
ASSUME ShortAssumption == Short \in Nat \ {0}

\* The smaller and the larger of two numbers.
Least(a, b) == IF a <= b THEN a ELSE b
Most(a, b) == IF a >= b THEN a ELSE b

Text(role, size) == [role |-> role, calls |-> {}, size |-> size]
CallsOf(ids, size) == [role |-> "assistant", calls |-> ids, size |-> size]
ResultOf(id, size) == [role |-> "tool", calls |-> {id}, size |-> size]

\* history_characters
HistorySize(h) ==
  MapThenFoldSet(+, 0, LAMBDA i : h[i].size, LAMBDA s : CHOOSE i \in s : TRUE,
                 DOMAIN h)

\* reserve_tokens
Reserve(size, floor, largest) ==
  Least(Most(Least(floor, size \div 4), largest), size \div 2)

HasCalls(m) == m.role = "assistant" /\ m.calls # {}

\* _head_length: everything before the first reply that called tools.
HeadLength(h) ==
  LET first == {i \in DOMAIN h : HasCalls(h[i])}
  IN  IF first = {} THEN Len(h)
      ELSE (CHOOSE i \in first : \A k \in first : i <= k) - 1

\* _rounds: where each round starts; it ends where the next one starts.
RoundStarts(h) ==
  {i \in DOMAIN h : i > HeadLength(h) /\ h[i].role = "assistant"}

\* compactable
Compactable(h) == RoundStarts(h) # {}

\* A message of a round that is not among the latest ones.
Old(h, i) ==
  /\ i > HeadLength(h)
  /\ Cardinality({s \in RoundStarts(h) : s > i}) >= KeepRounds

\* A variant: pruning drops old results instead of shortening them.
PruneByDropping(h) ==
  LET kept == {i \in DOMAIN h : ~(Old(h, i) /\ h[i].role = "tool")}
      At(n) == CHOOSE i \in kept : Cardinality({k \in kept : k <= i}) = n
  IN  [n \in 1..Cardinality(kept) |-> h[At(n)]]

\* prune
Prune(h) ==
  [i \in DOMAIN h |->
     IF Old(h, i) THEN [h[i] EXCEPT !.size = Least(@, Short)] ELSE h[i]]

\* summary_request: the oldest rounds are left out until the history fits into
\* room; the head and the latest round stay.
SummaryRequest(h, room) ==
  LET starts == RoundStarts(h)
      From(s) == SubSeq(h, s, Len(h))
      With(s) ==
        IF \A k \in starts : s <= k THEN h
        ELSE SubSeq(h, 1, HeadLength(h)) \o <<Text("user", 1)>> \o From(s)
      Fits(s) == HistorySize(With(s)) + 1 <= room
      Last == CHOOSE s \in starts : \A k \in starts : k <= s
      cut == IF \E s \in starts : Fits(s)
             THEN CHOOSE s \in starts :
                    Fits(s) /\ \A k \in starts : Fits(k) => s <= k
             ELSE Last
  IN  Append(With(cut), Text("user", 1))

\* compacted: the system prompt, the task, the summary and a note.
Compacted(h, summary) ==
  LET users == {i \in DOMAIN h : h[i].role = "user"}
      task == CHOOSE i \in users : \A k \in users : i <= k
  IN  (IF h[1].role = "system" THEN <<h[1]>> ELSE <<>>)
      \o <<h[task], Text("assistant", summary), Text("user", 1)>>

\* What llama.cpp's chat templates accept: every result answers a call of the
\* reply before it, every call is answered once before the next reply, and the
\* task is there.
ValidHistory(h) ==
  LET Replies(i) == {r \in 1..(i - 1) : h[r].role = "assistant"}
      ReplyTo(i) == CHOOSE r \in Replies(i) : \A k \in Replies(i) : k <= r
      Answers(r) == {i \in DOMAIN h : /\ h[i].role = "tool" /\ i > r
                                      /\ ReplyTo(i) = r}
  IN  /\ \E i \in DOMAIN h : h[i].role = "user"
      /\ \A i \in DOMAIN h : h[i].role = "tool" => Replies(i) # {}
      /\ \A r \in DOMAIN h : h[r].role = "assistant" =>
           /\ h[r].calls = UNION {h[i].calls : i \in Answers(r)}
           /\ Cardinality(Answers(r)) = Cardinality(h[r].calls)
=============================================================================
