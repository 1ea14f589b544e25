--------------------------- MODULE AssistantEngine ---------------------------
(***************************************************************************)
(* The assistant: turns, approvals and notifications                       *)
(* (assistant/engine.py), the stored conversations and approvals           *)
(* (assistant/conversations.py) and the routes that call them              *)
(* (assistant/routes.py).                                                  *)
(*                                                                         *)
(* One turn runs at a time, as an asyncio task.  It is suspended before    *)
(* its first step, while a reply streams, between two attempts, while an   *)
(* approval request is described, while the operator decides and while a   *)
(* tool runs; between two of these everything happens in one step.         *)
(* Records survive a restart, the engine's own state does not.             *)
(***************************************************************************)
EXTENDS Integers, Sequences, FiniteSets

CONSTANTS
  Convs,         \* conversations
  Jobs,          \* background jobs: benchmark runs and downloads
  MaxRounds,     \* max_rounds_per_turn
  MaxCalls,      \* bound on the tool calls of one reply
  MaxRetries,    \* length of retry_delays
  MaxAsks,       \* bound on the turns the operator starts
  MaxApprovals,  \* bound on approval requests
  MaxRestarts    \* bound on restarts of the application

None == "none"

ASSUME RoundsAssumption == MaxRounds \in Nat \ {0} /\ MaxCalls \in Nat \ {0}
ASSUME BoundsAssumption ==
  /\ MaxRetries \in Nat /\ MaxAsks \in Nat
  /\ MaxApprovals \in Nat /\ MaxRestarts \in Nat
ASSUME NamesAssumption == None \notin Convs

VARIABLES
  state,      \* AssistantConversationRecord.state, "deleted" once it is gone
  unread,     \* whether a notification is stored after the last reply
  approvals,  \* AssistantApprovalRecord: conversation and state, by id
  active,     \* AssistantEngine._active
  wake,       \* _wake: a dict, popped from its end
  watches,    \* _watches: the conversation that waits for a job
  pc,         \* where the turn's task is suspended
  cancelled,  \* whether that task was cancelled and has not noticed yet
  round,      \* round_number
  attempt,    \* attempt of _reply_with_retries
  calls,      \* calls of the reply that are still to be run
  waiting,    \* _approvals: the id of the approval awaited, 0 if none
  answer,     \* the result of the future awaited for it
  job,        \* the background jobs
  asks, restarts,
  halted      \* history: the operator stopped it and has not asked again

records == <<state, unread, approvals>>
turn == <<pc, cancelled, round, attempt, calls>>
future == <<waiting, answer>>
vars == <<records, active, wake, watches, turn, future, job, asks, restarts,
          halted>>

States == {"idle", "running", "awaiting_approval", "paused", "failed",
           "interrupted", "deleted"}
Suspended == {"created", "reply", "streaming", "delay", "describe",
              "approval", "tool"}

-----------------------------------------------------------------------------
(* Starting and ending a turn.                                             *)

\* Entries of a wake queue w that may be acted on, in the conversations st
\* with the unread notifications unr.
DueIfLast(w, st, unr) ==
  {i \in {Len(w)} \ {0} : st[w[i]] = "idle" /\ unr[w[i]]}

Due(w, st, unr) == {i \in 1..Len(w) : st[w[i]] = "idle" /\ unr[w[i]]}

\* The new task of a turn; w is what is left of the wake queue.
Begin(c, st, w) ==
  /\ active' = c
  /\ state' = [st EXCEPT ![c] = "running"]
  /\ wake' = w
  /\ pc' = "created" /\ cancelled' = FALSE
  /\ round' = 0 /\ attempt' = 0 /\ calls' = 0

\* _wake_next when no turn is active: the last entry that may be acted on is
\* taken, those after it are dropped.
WakeNext(w, st, unr) ==
  \/ \E i \in Due(w, st, unr) :
       /\ \A k \in Due(w, st, unr) : k <= i
       /\ Begin(w[i], st, SubSeq(w, 1, i - 1))
  \/ /\ Due(w, st, unr) = {}
     /\ active' = None /\ state' = st /\ wake' = <<>>
     /\ pc' = None /\ cancelled' = FALSE
     /\ round' = 0 /\ attempt' = 0 /\ calls' = 0

\* A variant: the end of a turn does not look for notifications.
EndTurnQuietly(end, unr) ==
  /\ active' = None /\ state' = [state EXCEPT ![active] = end] /\ wake' = wake
  /\ pc' = None /\ cancelled' = FALSE
  /\ round' = 0 /\ attempt' = 0 /\ calls' = 0

\* The finally clause of _turn.
EndTurn(end, unr) == WakeNext(wake, [state EXCEPT ![active] = end], unr)

\* send, resume and retry: send refuses a paused conversation, resume takes no
\* other and retry takes the failed and interrupted ones, so that each
\* conversation can be asked in one way or another once no turn is active.
Ask(c) ==
  /\ active = None /\ state[c] # "deleted"
  /\ asks < MaxAsks /\ asks' = asks + 1
  /\ Begin(c, state, wake)
  /\ halted' = [halted EXCEPT ![c] = FALSE]
  /\ UNCHANGED <<unread, approvals, watches, future, job, restarts>>

-----------------------------------------------------------------------------
(* Requests while a turn runs.                                             *)

Running == pc \in Suspended

\* stop: the route returns once the task has ended.
Stop(c) ==
  /\ active = c /\ Running /\ ~cancelled
  /\ cancelled' = TRUE
  /\ UNCHANGED <<records, active, wake, watches, pc, round, attempt, calls,
                 future, job, asks, restarts, halted>>

\* A variant: an approval may be decided again.
DecideAgain(a, verdict) ==
  IF a = waiting /\ answer = None /\ ~cancelled
  THEN /\ approvals' = [approvals EXCEPT ![a].state = verdict]
       /\ answer' = verdict
  ELSE /\ approvals' = [approvals EXCEPT ![a].state = "expired"]
       /\ UNCHANGED answer

\* decide: the future is done when it has a result or the turn was cancelled.
Decide(a, verdict) ==
  /\ approvals[a].state = "pending"
  /\ IF a = waiting /\ answer = None /\ ~cancelled
     THEN /\ approvals' = [approvals EXCEPT ![a].state = verdict]
          /\ answer' = verdict
     ELSE /\ approvals' = [approvals EXCEPT ![a].state = "expired"]
          /\ UNCHANGED answer

DecideRequest ==
  /\ \E a \in 1..Len(approvals), verdict \in {"approved", "rejected"} :
       state[approvals[a].conv] # "deleted" /\ Decide(a, verdict)
  /\ UNCHANGED <<state, unread, active, wake, watches, turn, waiting, job,
                 asks, restarts, halted>>

\* delete_conversation: messages and approvals go with the record.
Delete(c) ==
  /\ active # c /\ state[c] # "deleted"
  /\ state' = [state EXCEPT ![c] = "deleted"]
  /\ UNCHANGED <<unread, approvals, active, wake, watches, turn, future, job,
                 asks, restarts, halted>>

-----------------------------------------------------------------------------
(* Notifications.                                                          *)

\* The wake entry of a conversation keeps its place when it is set again.
Woken(c) ==
  IF \E i \in 1..Len(wake) : wake[i] = c THEN wake ELSE Append(wake, c)

\* notify: a deleted conversation cannot be told.
Notify(c) ==
  IF state[c] = "deleted"
  THEN UNCHANGED <<state, unread, active, wake, turn>>
  ELSE LET unr == [unread EXCEPT ![c] = TRUE]
       IN  /\ unread' = unr
           /\ IF active = None
              THEN WakeNext(Woken(c), state, unr)
              ELSE /\ wake' = Woken(c)
                   /\ UNCHANGED <<state, active, turn>>

\* A benchmark run or a download ends and on_finished is called.
JobEnds(j) ==
  /\ job[j] = "running"
  /\ job' = [job EXCEPT ![j] = "ended"]
  /\ watches' = [watches EXCEPT ![j] = None]
  /\ IF watches[j] = None
     THEN UNCHANGED <<state, unread, active, wake, turn>>
     ELSE Notify(watches[j])
  /\ UNCHANGED <<approvals, future, asks, restarts, halted>>

-----------------------------------------------------------------------------
(* The steps of a turn.                                                    *)

\* What stays as it is in the steps between two suspensions, and, of the turn,
\* in those that leave it running.
Elsewhere == UNCHANGED <<asks, restarts, halted>>
SameTurn == UNCHANGED <<active, wake, cancelled>>

\* The turn is suspended at a point p of round r with n calls left.
SuspendAt(p, r, k, n) ==
  pc' = p /\ round' = r /\ attempt' = k /\ calls' = n /\ SameTurn

\* The head of the loop of _rounds: the round limit, the spending limit, and
\* the request, whose messages hold every notification stored so far.
Round(r, st, unr) ==
  \/ r <= MaxRounds /\ SuspendAt("reply", r, 1, 0)
     /\ state' = st
  \/ r <= MaxRounds /\ EndTurn("paused", unr)
  \/ r > MaxRounds /\ EndTurn("idle", unr)

\* The calls of a reply, n of them left.  A call that cannot be resolved gives
\* its result at once; the next round follows the last call.
NextCall(n, st, unr) ==
  \/ Round(round + 1, st, unr)
  \/ /\ \E left \in 1..n, p \in {"describe", "tool"} :
          SuspendAt(p, round, attempt, left)
     /\ state' = st

At(p) == pc = p /\ ~cancelled

Setup ==
  /\ At("created")
  /\ \/ Round(1, state, unread)
     \/ EndTurn("failed", unread)
  /\ Elsewhere /\ UNCHANGED <<unread, approvals, watches, future, job>>

ReplyStarts ==
  /\ At("reply")
  /\ SuspendAt("streaming", round, attempt, 0)
  /\ Elsewhere /\ UNCHANGED <<records, watches, future, job>>

\* A request fails.  It is tried again only if nothing was streamed.
ReplyFails ==
  /\ At("reply") \/ At("streaming")
  /\ \/ /\ pc = "reply" /\ attempt <= MaxRetries
        /\ SuspendAt("delay", round, attempt, 0) /\ UNCHANGED state
     \/ EndTurn("failed", unread)
  /\ Elsewhere /\ UNCHANGED <<unread, approvals, watches, future, job>>

TryAgain ==
  /\ At("delay")
  /\ SuspendAt("reply", round, attempt + 1, 0)
  /\ Elsewhere /\ UNCHANGED <<records, watches, future, job>>

Watching(c) == \E j \in Jobs : watches[j] = c

\* A variant: a round that ends with reminders is not counted.
ReplyEndsUncounted(unr) ==
  \/ EndTurn("idle", unr)
  \/ ~Watching(active) /\ Round(round, state, unr)
  \/ NextCall(MaxCalls, state, unr)

\* The whole reply is in and stored: a final one, one whose turn needs a
\* reminder, or one with calls.
ReplyEnds(unr) ==
  \/ EndTurn("idle", unr)
  \/ ~Watching(active) /\ Round(round + 1, state, unr)
  \/ NextCall(MaxCalls, state, unr)

Reply ==
  /\ At("streaming")
  /\ unread' = [unread EXCEPT ![active] = FALSE]
  /\ ReplyEnds(unread')
  /\ Elsewhere /\ UNCHANGED <<approvals, watches, future, job>>

\* _call: the action is described for the operator, and _ask.
AskOperator ==
  /\ At("describe") /\ Len(approvals) < MaxApprovals
  /\ approvals' = Append(approvals, [conv |-> active, state |-> "pending"])
  /\ waiting' = Len(approvals) + 1 /\ answer' = None
  /\ state' = [state EXCEPT ![active] = "awaiting_approval"]
  /\ SuspendAt("approval", round, attempt, calls)
  /\ Elsewhere /\ UNCHANGED <<unread, watches, job>>

NotDescribed ==
  /\ At("describe")
  /\ NextCall(calls - 1, state, unread)
  /\ Elsewhere /\ UNCHANGED <<unread, approvals, watches, future, job>>

\* The future has a result: the finally clause of _ask, then the call.
Answered ==
  LET st == [state EXCEPT ![active] = "running"]
  IN  /\ At("approval") /\ answer # None
      /\ waiting' = 0 /\ answer' = None
      /\ \/ /\ answer = "approved"
            /\ SuspendAt("tool", round, attempt, calls)
            /\ state' = st
         \/ /\ answer = "rejected"
            /\ NextCall(calls - 1, st, unread)
      /\ Elsewhere /\ UNCHANGED <<unread, approvals, watches, job>>

\* A tool ends; it may have started a job, which is watched in the same step.
ToolEnds ==
  /\ At("tool")
  /\ \/ UNCHANGED <<job, watches>>
     \/ \E j \in Jobs :
          /\ job[j] = None
          /\ job' = [job EXCEPT ![j] = "running"]
          /\ watches' = [watches EXCEPT ![j] = active]
  /\ NextCall(calls - 1, state, unread)
  /\ Elsewhere /\ UNCHANGED <<unread, approvals, future>>

\* A variant: every approval of the conversation expires.
ExpireAll(c) ==
  [a \in 1..Len(approvals) |->
     IF approvals[a].conv = c
     THEN [approvals[a] EXCEPT !.state = "expired"] ELSE approvals[a]]

\* A variant: none expires.
ExpireNone(c) == approvals

\* expire_pending
ExpirePending(c) ==
  [a \in 1..Len(approvals) |->
     IF approvals[a].conv = c /\ approvals[a].state = "pending"
     THEN [approvals[a] EXCEPT !.state = "expired"] ELSE approvals[a]]

\* CancelledError inside _turn.
Cancelled ==
  /\ cancelled /\ Running /\ pc # "created"
  /\ approvals' = ExpirePending(active)
  /\ waiting' = 0 /\ answer' = None
  /\ halted' = [halted EXCEPT ![active] = TRUE]
  /\ EndTurn("idle", unread)
  /\ UNCHANGED <<unread, watches, job, asks, restarts>>

\* A task cancelled before its first step never enters _turn: nothing of its
\* finally clause takes place, and the conversation stays active.
CancelledUnstarted ==
  /\ cancelled /\ pc = "created"
  /\ pc' = None /\ cancelled' = FALSE
  /\ UNCHANGED <<records, active, wake, watches, round, attempt, calls, future,
                 job, asks, restarts, halted>>

-----------------------------------------------------------------------------
\* A variant: a turn that awaited an approval is not interrupted.
InterruptAwake == [c \in Convs |->
  IF state[c] = "running" THEN "interrupted" ELSE state[c]]

\* interrupt_running
Interrupt == [c \in Convs |->
  IF state[c] \in {"running", "awaiting_approval"} THEN "interrupted"
  ELSE state[c]]

\* The application ends, in whichever way, and starts again.  Jobs that were
\* running end or go on unwatched.
Restart ==
  /\ restarts < MaxRestarts /\ restarts' = restarts + 1
  /\ state' = Interrupt
  /\ active' = None /\ wake' = <<>> /\ watches' = [j \in Jobs |-> None]
  /\ pc' = None /\ cancelled' = FALSE
  /\ round' = 0 /\ attempt' = 0 /\ calls' = 0
  /\ waiting' = 0 /\ answer' = None
  /\ UNCHANGED <<unread, approvals, job, asks, halted>>

Init ==
  /\ state = [c \in Convs |-> "idle"]
  /\ unread = [c \in Convs |-> FALSE]
  /\ halted = [c \in Convs |-> FALSE]
  /\ approvals = <<>> /\ waiting = 0 /\ answer = None
  /\ active = None /\ wake = <<>> /\ watches = [j \in Jobs |-> None]
  /\ pc = None /\ cancelled = FALSE /\ round = 0 /\ attempt = 0 /\ calls = 0
  /\ job = [j \in Jobs |-> None]
  /\ asks = 0 /\ restarts = 0

Turn ==
  \/ Setup \/ ReplyStarts \/ ReplyFails \/ TryAgain \/ Reply
  \/ AskOperator \/ NotDescribed \/ Answered \/ ToolEnds
  \/ Cancelled \/ CancelledUnstarted

Next ==
  \/ \E c \in Convs : Ask(c) \/ Stop(c) \/ Delete(c)
  \/ DecideRequest
  \/ \E j \in Jobs : JobEnds(j)
  \/ Turn
  \/ Restart

Spec == Init /\ [][Next]_vars

\* The event loop runs the turn; replies and tools end, if only by a timeout.
\* The operator need not decide and a job need not end.
FairSpec == Spec /\ WF_vars(Turn)

-----------------------------------------------------------------------------
(* Properties.                                                             *)

Approvals == [conv : Convs, state : {"pending", "approved", "rejected", "expired"}]

\* Every variable has its type, and the bounds of the settings hold.
TypeOK ==
  /\ state \in [Convs -> States]
  /\ unread \in [Convs -> BOOLEAN]
  /\ halted \in [Convs -> BOOLEAN]
  /\ approvals \in Seq(Approvals) /\ Len(approvals) <= MaxApprovals
  /\ active \in Convs \union {None}
  /\ wake \in Seq(Convs)
  /\ watches \in [Jobs -> Convs \union {None}]
  /\ pc \in Suspended \union {None} /\ cancelled \in BOOLEAN
  /\ round \in 0..MaxRounds /\ attempt \in 0..(MaxRetries + 1)
  /\ calls \in 0..MaxCalls
  /\ waiting \in 0..MaxApprovals
  /\ answer \in {None, "approved", "rejected"}
  /\ job \in [Jobs -> {None, "running", "ended"}]
  /\ asks \in 0..MaxAsks /\ restarts \in 0..MaxRestarts

\* The stored records agree with what the engine does.  A conversation says
\* that a turn is under way exactly when the engine works on it, through
\* failures, stops, pauses and restarts; and until the application restarts an
\* approval is pending only while the turn that asked for it awaits it: a stop
\* expires what it leaves unanswered.
RecordsTellTheTruth ==
  /\ TypeOK
  /\ \A c \in Convs :
       /\ state[c] \in {"running", "awaiting_approval"} <=> active = c
       /\ state[c] = "awaiting_approval" <=> active = c /\ pc = "approval"
  /\ \A a \in 1..Len(approvals) :
       approvals[a].state = "pending" /\ restarts = 0
         => a = waiting /\ pc = "approval"

\* What the operator decided is what the turn acts on: while the turn awaits
\* an approval, the record of that approval and the future agree.  And a
\* decision stands: an approval that was approved, rejected or expired never
\* changes, however late a stop or a second decision comes.
DecisionsStand ==
  /\ [](pc = "approval" =>
         /\ waiting \in 1..Len(approvals)
         /\ approvals[waiting].conv = active
         /\ approvals[waiting].state =
              (IF answer = None
               THEN (IF cancelled THEN approvals[waiting].state ELSE "pending")
               ELSE answer))
  /\ [][\A a \in 1..Len(approvals) :
          approvals[a].state # "pending" => approvals'[a] = approvals[a]]_vars

\* A turn ends or awaits the operator: failures, reminders and calls cannot
\* keep it going.
TurnEnds ==
  [](pc \in Suspended \ {"created", "approval"}
     => <>(pc \notin Suspended \ {"created", "approval"}))

\* The assistant is busy and no turn runs: what CancelledUnstarted leaves.
Wedged == active # None /\ ~Running

\* A notification for an idle conversation is answered by a reply, whoever's
\* turn it comes in, unless an operator's decision is awaited or the turn was
\* stopped before its first step (engine.py:268 and :317): when no turn runs, no
\* idle conversation is left with a notification that came after its last reply,
\* unless the operator stopped it.
NotificationWakes ==
  /\ [](active = None /\ restarts = 0 =>
         \A c \in Convs : state[c] = "idle" /\ ~halted[c] => ~unread[c])
  /\ \A c \in Convs :
       (unread[c] /\ state[c] = "idle" /\ ~halted[c] /\ restarts = 0)
       ~> (\/ ~unread[c] \/ state[c] # "idle" \/ pc = "approval" \/ Wedged
           \/ restarts > 0)

\* engine.py:264: "A stopped, paused or failed conversation waits for the
\* operator": after a stop no turn starts before the operator asks again.
StoppedWaits == \A c \in Convs : halted[c] => active # c
=============================================================================
