-------------------------- MODULE AssistantHistory ---------------------------
(***************************************************************************)
(* What the assistant's model reads: the records of one conversation as    *)
(* turns, notifications, stops and restarts leave them, and the chat made  *)
(* of them for every request (history in assistant/engine.py, the calls of *)
(* services/chat_stream.py, add_message in assistant/conversations.py).    *)
(*                                                                         *)
(* AssistantEngine models when turns start and end; here only the records  *)
(* count, and a turn may end anywhere.  Events for the reader only are     *)
(* not kept: history skips them.                                           *)
(***************************************************************************)
EXTENDS Integers, Sequences, FiniteSets, SequencesExt

CONSTANTS
  Rounds,     \* max_rounds_per_turn
  LongReply,  \* bound: calls of one reply
  LongLog,    \* bound: records
  ServerIds   \* whether the server gives every call an id of its own

ASSUME HistoryAssumption ==
  {Rounds, LongReply, LongLog} \subseteq Nat \ {0} /\ ServerIds \in BOOLEAN

VARIABLES
  records,  \* AssistantMessageRecord of the conversation, by seq
  turn,     \* "idle", "halted" (failed, paused or interrupted), "reply", "tools"
  attempts, \* round_number
  queue     \* ids of the calls of the last reply still to be run

HistoryVars == <<records, turn, attempts, queue>>

\* A record, and a message made of one: a user's, an event that the model
\* reads (is_notification, is_check), a reply with the ids of its calls, or the
\* result of a call.
Record(role, calls, id) == [role |-> role, calls |-> calls, id |-> id]
NoId == <<0, 0>>
Stored(rs) == Len(rs) <= LongLog /\ records' = rs

\* ordered_calls: the ids of a reply's n calls.
CallIds(n) ==
  [k \in 1..n |-> <<IF ServerIds THEN Len(records) + 1 ELSE attempts, k>>]

HistoryInit ==
  records = <<>> /\ turn = "idle" /\ attempts = 0 /\ queue = <<>>

TurnBegins == turn' = "reply" /\ attempts' = 1 /\ queue' = <<>>
TurnOver(how) == turn' = how /\ attempts' = 0 /\ queue' = <<>>

RunsCalls(n) == turn' = "tools" /\ queue' = CallIds(n) /\ UNCHANGED attempts

\* The end of a round that asks for another.
AsksAgain ==
  IF attempts < Rounds
  THEN turn' = "reply" /\ attempts' = attempts + 1 /\ queue' = <<>>
  ELSE TurnOver("idle")

\* _unread
Unread ==
  \E i \in DOMAIN records :
    /\ records[i].role = "notification"
    /\ \A j \in i..Len(records) : records[j].role # "assistant"

\* send
Asks ==
  /\ turn \in {"idle", "halted"}
  /\ Stored(Append(records, Record("user", <<>>, NoId)))
  /\ TurnBegins

\* resume, retry, and the turn a notification starts.
CarriesOn ==
  /\ turn = "halted" \/ (turn = "idle" /\ Unread)
  /\ TurnBegins /\ UNCHANGED records

\* notify, at any time.
Notified ==
  /\ Stored(Append(records, Record("notification", <<>>, <<0, Len(records) + 1>>)))
  /\ UNCHANGED <<turn, attempts, queue>>

\* A reply: with calls they are run; without, the turn ends or a check asks the
\* model to go on.
ReplyArrives ==
  /\ turn = "reply"
  /\ \E n \in 0..LongReply :
       LET said == Append(records, Record("assistant", CallIds(n), NoId))
       IN  \/ (n > 0 /\ Stored(said) /\ RunsCalls(n))
           \/ /\ n = 0
              /\ \/ Stored(said) /\ TurnOver("idle")
                 \/ Stored(Append(said, Record("check", <<>>, NoId))) /\ AsksAgain

\* A call's result.
ToolEnds ==
  /\ turn = "tools"
  /\ Stored(Append(records, Record("tool", <<>>, Head(queue))))
  /\ IF Len(queue) > 1
     THEN queue' = Tail(queue) /\ UNCHANGED <<turn, attempts>>
     ELSE AsksAgain

\* The turn is stopped, fails, reaches the spending limit or is cut off by the
\* end of the application.
BreaksOff ==
  /\ turn \in {"reply", "tools"}
  /\ \E how \in {"idle", "halted"} : TurnOver(how)
  /\ UNCHANGED records

HistoryNext ==
  Asks \/ CarriesOn \/ Notified \/ ReplyArrives \/ ToolEnds \/ BreaksOff

HistorySpec == HistoryInit /\ [][HistoryNext]_HistoryVars

-----------------------------------------------------------------------------
(* history                                                                 *)

\* The elements of s that are in S, as often and in the order they are in s.
Picked(s, S) ==
  LET upTo[n \in 0..Len(s)] ==
        IF n = 0 THEN <<>>
        ELSE IF s[n] \in S THEN Append(upTo[n - 1], s[n]) ELSE upTo[n - 1]
  IN  upTo[Len(s)]

\* The calls of a reply that no record answers, answered as not run.
NotRun(calls) ==
  LET answered == {records[i].id : i \in {j \in DOMAIN records : records[j].role = "tool"}}
      missing == Picked(calls, ToSet(calls) \ answered)
  IN  [k \in DOMAIN missing |-> Record("tool", <<>>, missing[k])]

\* A variant: a notification is told where it stands.
HistoryAtOnce ==
  FoldLeft(LAMBDA done, r :
             IF r.role = "assistant" THEN Append(done, r) \o NotRun(r.calls)
             ELSE Append(done, r), <<>>, records)

\* One more record is read, after what was told and the notes that wait.
\* Notifications wait for the next user message, reply or the end; a check does
\* not wait for them.
Reads(done, r) ==
  CASE r.role = "notification" -> [done EXCEPT !.notes = Append(@, r)]
    [] r.role \in {"user", "assistant"} ->
         [told |-> Append(done.told \o done.notes, r) \o NotRun(r.calls), notes |-> <<>>]
    [] OTHER -> [done EXCEPT !.told = Append(@, r)]

\* The messages of a request.
History ==
  LET upTo[n \in 0..Len(records)] ==
        IF n = 0 THEN [told |-> <<>>, notes |-> <<>>]
        ELSE Reads(upTo[n - 1], records[n])
  IN  upTo[Len(records)].told \o upTo[Len(records)].notes

\* The results that follow message i of h answer its calls, each once.
Answered(h, i) ==
  LET after == i + 1..i + Len(h[i].calls)
  IN  /\ after \subseteq DOMAIN h
      /\ \A k \in after : h[k].role = "tool"
      /\ {h[k].id : k \in after} = ToSet(h[i].calls)

\* The messages of some roles.
MessagesOf(roles) ==
  [role : roles, calls : Seq(Nat \X Nat), id : Nat \X Nat]

\* HistorySound: whenever a request may be made, also after turns that were
\* stopped in the middle of their calls and with notifications that came while
\* calls ran, each reply of the history (assistant/engine.py:66) is followed by
\* exactly one result for each of its calls before anything else, there is no
\* other result, and no user message, reply, check or notification is lost,
\* repeated or moved before an earlier one of its kind.
HistorySound ==
  turn = "reply" =>
    LET h == History
    IN  /\ \A i \in DOMAIN h : Answered(h, i)
        /\ \A k \in DOMAIN h : h[k].role = "tool" =>
             \E i \in DOMAIN h : k \in i + 1..i + Len(h[i].calls)
        /\ \A roles \in {{"user", "assistant", "check"}, {"notification"}} :
             Picked(h, MessagesOf(roles)) = Picked(records, MessagesOf(roles))

=============================================================================
