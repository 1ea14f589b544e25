------------------------- MODULE AssistantEngineProofs -------------------------
(***************************************************************************)
(* Theorems about AssistantEngine: the stored records tell what the engine *)
(* does, and what the operator decided stands.  The invariant has a part   *)
(* for the turn and the conversations' states, one for the awaited future, *)
(* one for the pending approvals and one for the rest of the types.        *)
(***************************************************************************)
EXTENDS AssistantEngine, SequenceTheorems, TLAPS

Busy == {"running", "awaiting_approval"}

\* The turn that the engine keeps and the states that the records show.
TurnOK ==
  /\ state \in [Convs -> States] /\ active \in Convs \union {None}
  /\ wake \in Seq(Convs) /\ pc \in Suspended \union {None} /\ cancelled \in BOOLEAN
  /\ round \in 0..MaxRounds /\ attempt \in 0..(MaxRetries + 1) /\ calls \in 0..MaxCalls
  /\ active = None => pc = None
  /\ pc = "delay" => attempt <= MaxRetries
  /\ \A c \in Convs : /\ state[c] \in Busy <=> active = c
                      /\ state[c] = "awaiting_approval" <=> active = c /\ pc = "approval"

\* The future exists while the turn awaits an approval of its own
\* conversation, and has what the record says.
FutureOK ==
  /\ waiting \in 0..MaxApprovals /\ answer \in {None, "approved", "rejected"}
  /\ pc # "approval" => waiting = 0 /\ answer = None
  /\ pc = "approval" => /\ waiting \in 1..Len(approvals)
                        /\ approvals[waiting].conv = active
                        /\ answer = None /\ ~cancelled => approvals[waiting].state = "pending"
                        /\ answer # None => approvals[waiting].state = answer

PendingOK ==
  /\ approvals \in Seq(Approvals) /\ Len(approvals) <= MaxApprovals
  /\ restarts \in 0..MaxRestarts
  /\ \A a \in 1..Len(approvals) :
       approvals[a].state = "pending" /\ restarts = 0 => a = waiting /\ pc = "approval"

RestOK ==
  /\ unread \in [Convs -> BOOLEAN] /\ halted \in [Convs -> BOOLEAN]
  /\ watches \in [Jobs -> Convs \union {None}]
  /\ job \in [Jobs -> {None, "running", "ended"}] /\ asks \in 0..MaxAsks

IInv == TurnOK /\ FutureOK /\ PendingOK /\ RestOK

\* A decision stands, in one step.
Stands == \A a \in 1..Len(approvals) :
            approvals[a].state # "pending" => approvals'[a] = approvals[a]

----------------------------------------------------------------------------
(* The steps of a turn                                                     *)

\* The counters start from nought.
LEMMA Zeros == 0 \in 0..MaxRounds /\ 0 \in 0..(MaxRetries + 1) /\ 0 \in 0..MaxCalls
<1>1. MaxRounds \in Nat /\ MaxRetries \in Nat /\ MaxCalls \in Nat
  BY RoundsAssumption, BoundsAssumption
<1> QED BY <1>1

\* The new task of a turn, in states in which no conversation is busy.
LEMMA BeginOK ==
  ASSUME NEW c \in Convs, NEW st \in [Convs -> States], NEW w \in Seq(Convs),
         \A d \in Convs : st[d] \notin Busy, Begin(c, st, w)
  PROVE  TurnOK' /\ pc' = "created"
<1>1. /\ active' = c /\ state' = [st EXCEPT ![c] = "running"] /\ wake' = w
      /\ pc' = "created" /\ cancelled' = FALSE /\ round' = 0 /\ attempt' = 0 /\ calls' = 0
  BY DEF Begin
<1>2. /\ state' \in [Convs -> States]
      /\ \A d \in Convs : state'[d] = IF d = c THEN "running" ELSE st[d]
  BY <1>1 DEF States
<1>3. \A d \in Convs : /\ state'[d] \in Busy <=> active' = d
                       /\ state'[d] # "awaiting_approval"
  BY <1>1, <1>2 DEF Busy
<1>4. active' # None BY <1>1, NamesAssumption
<1>5. pc' \in Suspended /\ pc' # "approval" /\ pc' # "delay" BY <1>1 DEF Suspended
<1> QED BY <1>1, <1>2, <1>3, <1>4, <1>5, Zeros DEF TurnOK

\* No turn, in such states.
LEMMA NoTurnOK ==
  ASSUME state' \in [Convs -> States], \A d \in Convs : state'[d] \notin Busy,
         active' = None, wake' = <<>>, pc' = None, cancelled' = FALSE,
         round' = 0, attempt' = 0, calls' = 0
  PROVE  TurnOK'
<1>1. wake' \in Seq(Convs) BY EmptySeq
<1>2. pc' # "approval" /\ pc' # "delay" BY DEF None
<1>3. \A d \in Convs : active' # d /\ state'[d] # "awaiting_approval" BY NamesAssumption DEF Busy
<1> QED BY <1>1, <1>2, <1>3, Zeros DEF TurnOK

\* A turn begins, or none does, from states in which no conversation is busy.
LEMMA WakeNextOK ==
  ASSUME NEW w \in Seq(Convs), NEW st \in [Convs -> States], NEW unr,
         \A c \in Convs : st[c] \notin Busy, WakeNext(w, st, unr)
  PROVE  TurnOK' /\ pc' \in {None, "created"}
<1>1. CASE \E i \in Due(w, st, unr) : Begin(w[i], st, SubSeq(w, 1, i - 1))
  <2> PICK i \in Due(w, st, unr) : Begin(w[i], st, SubSeq(w, 1, i - 1)) BY <1>1
  <2>1. i \in 1..Len(w) /\ w[i] \in Convs BY DEF Due
  <2>2. SubSeq(w, 1, i - 1) \in Seq(Convs)
    <3>1. \A k \in 1..(i - 1) : w[k] \in Convs BY <2>1
    <3> QED BY <2>1, <3>1, SubSeqProperties
  <2> QED BY <2>1, <2>2, BeginOK
<1>2. CASE /\ active' = None /\ state' = st /\ wake' = <<>>
           /\ pc' = None /\ cancelled' = FALSE
           /\ round' = 0 /\ attempt' = 0 /\ calls' = 0
  BY <1>2, NoTurnOK
<1> QED BY <1>1, <1>2 DEF WakeNext

\* The end of a turn.
LEMMA EndTurnOK ==
  ASSUME TurnOK, active \in Convs, NEW end \in {"idle", "failed", "paused"}, NEW unr,
         EndTurn(end, unr)
  PROVE  TurnOK' /\ pc' \in {None, "created"}
<1> DEFINE st == [state EXCEPT ![active] = end]
<1>1. st \in [Convs -> States] /\ \A c \in Convs : st[c] \notin Busy BY DEF TurnOK, States, Busy
<1>2. WakeNext(wake, st, unr) BY DEF EndTurn
<1> HIDE DEF st
<1> QED BY <1>1, <1>2, WakeNextOK DEF TurnOK

\* A turn that does not await an approval is in a running conversation.
LEMMA RunningNow ==
  ASSUME TurnOK, pc \in Suspended
  PROVE  /\ active \in Convs
         /\ pc # "approval" => state[active] = "running" /\ [state EXCEPT ![active] = "running"] = state
<1>1. active \in Convs BY NamesAssumption DEF TurnOK, Suspended, None
<1>2. pc # "approval" => state[active] = "running" BY <1>1 DEF TurnOK, Busy
<1> QED BY <1>1, <1>2 DEF TurnOK

\* The turn is suspended elsewhere than at an approval.
LEMMA SuspendOK ==
  ASSUME TurnOK, pc \in Suspended, NEW p \in Suspended \ {"approval"},
         NEW r \in 0..MaxRounds, NEW k \in 0..(MaxRetries + 1), NEW n \in 0..MaxCalls,
         p = "delay" => k <= MaxRetries,
         SuspendAt(p, r, k, n), state' = [state EXCEPT ![active] = "running"]
  PROVE  TurnOK' /\ pc' # "approval"
<1>1. active \in Convs BY RunningNow
<1>2. /\ active' = active /\ wake' = wake /\ cancelled' = cancelled
      /\ pc' = p /\ round' = r /\ attempt' = k /\ calls' = n
  BY DEF SuspendAt, SameTurn
<1>3. state' \in [Convs -> States] BY <1>1 DEF TurnOK, States
<1>4. \A c \in Convs : /\ state'[c] \in Busy <=> active' = c
                       /\ state'[c] # "awaiting_approval"
  BY <1>1, <1>2 DEF TurnOK, Busy
<1> QED BY <1>1, <1>2, <1>3, <1>4, NamesAssumption DEF TurnOK, Suspended, None

\* The head of the loop.
LEMMA RoundOK ==
  ASSUME TurnOK, pc \in Suspended, NEW r \in 1..(MaxRounds + 1), NEW unr,
         Round(r, [state EXCEPT ![active] = "running"], unr)
  PROVE  TurnOK' /\ pc' # "approval"
<1> DEFINE st == [state EXCEPT ![active] = "running"]
<1>0. active \in Convs /\ MaxRounds \in Nat /\ MaxRetries \in Nat /\ MaxCalls \in Nat
  BY RunningNow, RoundsAssumption, BoundsAssumption
<1>1. CASE r <= MaxRounds /\ SuspendAt("reply", r, 1, 0) /\ state' = st
  <2>1. r \in 0..MaxRounds /\ 1 \in 0..(MaxRetries + 1) /\ 0 \in 0..MaxCalls BY <1>0, <1>1
  <2>2. "reply" \in Suspended \ {"approval"} BY DEF Suspended
  <2> QED BY <1>1, <2>1, <2>2, SuspendOK
<1>2. CASE EndTurn("paused", unr) BY <1>0, <1>2, EndTurnOK DEF None
<1>3. CASE EndTurn("idle", unr) BY <1>0, <1>3, EndTurnOK DEF None
<1> QED BY <1>1, <1>2, <1>3 DEF Round

\* The calls that are left, or the next round.
LEMMA NextCallOK ==
  ASSUME TurnOK, pc \in Suspended, NEW n \in -1..MaxCalls, NEW unr,
         NextCall(n, [state EXCEPT ![active] = "running"], unr)
  PROVE  TurnOK' /\ pc' # "approval"
<1> DEFINE st == [state EXCEPT ![active] = "running"]
<1>0. MaxCalls \in Nat /\ MaxRounds \in Nat BY RoundsAssumption
<1>1. CASE Round(round + 1, st, unr)
  <2>1. round + 1 \in 1..(MaxRounds + 1) BY <1>0 DEF TurnOK
  <2> QED BY <1>1, <2>1, RoundOK
<1>2. CASE /\ \E left \in 1..n, p \in {"describe", "tool"} :
                SuspendAt(p, round, attempt, left)
           /\ state' = st
  <2> PICK left \in 1..n, p \in {"describe", "tool"} : SuspendAt(p, round, attempt, left) BY <1>2
  <2>1. left \in 0..MaxCalls BY <1>0
  <2>2. p \in Suspended \ {"approval"} /\ p # "delay" BY DEF Suspended
  <2> QED BY <1>2, <2>1, <2>2, SuspendOK DEF TurnOK
<1> HIDE DEF st
<1> QED BY <1>1, <1>2 DEF NextCall, st

\* notify, in a state whose other parts are as they were.
LEMMA NotifyOK ==
  ASSUME TurnOK, RestOK, NEW c \in Convs, Notify(c)
  PROVE  /\ TurnOK' /\ (pc' = "approval" <=> pc = "approval")
         /\ pc = "approval" => UNCHANGED <<active, cancelled>>
         /\ unread' \in [Convs -> BOOLEAN]
<1>1. CASE state[c] = "deleted"
  BY <1>1 DEF Notify, TurnOK, RestOK, turn
<1>2. CASE state[c] # "deleted"
  <2> DEFINE unr == [unread EXCEPT ![c] = TRUE]
  <2>1. /\ unread' = unr
        /\ IF active = None THEN WakeNext(Woken(c), state, unr)
           ELSE wake' = Woken(c) /\ UNCHANGED <<state, active, turn>>
    BY <1>2 DEF Notify
  <2>2. Woken(c) \in Seq(Convs) BY DEF Woken, TurnOK
  <2>3. unread' \in [Convs -> BOOLEAN] BY <2>1 DEF RestOK
  <2> HIDE DEF unr
  <2>4. CASE active = None
    <3>1. \A d \in Convs : state[d] \notin Busy BY <2>4, NamesAssumption DEF TurnOK
    <3>2. TurnOK' /\ pc' \in {None, "created"}
      BY <2>1, <2>2, <2>4, <3>1, WakeNextOK DEF TurnOK
    <3> QED BY <2>3, <2>4, <3>2 DEF TurnOK, None
  <2>5. CASE active # None
    BY <2>1, <2>2, <2>3, <2>5 DEF TurnOK, turn
  <2> QED BY <2>4, <2>5
<1> QED BY <1>1, <1>2

----------------------------------------------------------------------------
(* One lemma for each kind of step                                         *)

\* A step that awaits no approval before or after it and leaves the approvals.
LEMMA NoFuture ==
  ASSUME IInv, pc # "approval", pc' # "approval", TurnOK',
         UNCHANGED <<waiting, answer, approvals, restarts>>
  PROVE  FutureOK' /\ PendingOK' /\ Stands
BY DEF IInv, FutureOK, PendingOK, Stands

\* send, resume, retry
LEMMA AskKeeps == ASSUME IInv, NEW c \in Convs, Ask(c) PROVE IInv' /\ Stands
<1>1. /\ active = None /\ Begin(c, state, wake) /\ asks' = asks + 1 /\ asks < MaxAsks
      /\ halted' = [halted EXCEPT ![c] = FALSE]
      /\ UNCHANGED <<unread, approvals, watches, waiting, answer, job, restarts>>
  BY DEF Ask, future
<1>2. pc = None /\ \A d \in Convs : state[d] \notin Busy
  BY <1>1, NamesAssumption DEF IInv, TurnOK
<1>3. TurnOK' /\ pc' = "created" BY <1>1, <1>2, BeginOK DEF IInv, TurnOK
<1>4. FutureOK' /\ PendingOK' /\ Stands BY <1>1, <1>2, <1>3, NoFuture DEF None
<1>5. RestOK' BY <1>1, BoundsAssumption DEF IInv, RestOK
<1> QED BY <1>3, <1>4, <1>5 DEF IInv

\* stop, delete_conversation
LEMMA StopDeleteKeeps ==
  ASSUME IInv, NEW c \in Convs, Stop(c) \/ Delete(c) PROVE IInv' /\ Stands
<1>1. CASE Stop(c)
  BY <1>1 DEF Stop, IInv, TurnOK, FutureOK, PendingOK, RestOK, Stands, records, future
<1>2. CASE Delete(c)
  <2>1. /\ active # c /\ state' = [state EXCEPT ![c] = "deleted"]
        /\ UNCHANGED <<unread, approvals, active, wake, watches, pc, cancelled, round, attempt,
                       calls, waiting, answer, job, asks, restarts, halted>>
    BY <1>2 DEF Delete, turn, future
  <2>2. TurnOK' BY <2>1 DEF IInv, TurnOK, Busy, States
  <2> QED BY <2>1, <2>2 DEF IInv, FutureOK, PendingOK, RestOK, Stands
<1> QED BY <1>1, <1>2

\* decide
LEMMA DecideKeeps == ASSUME IInv, DecideRequest PROVE IInv' /\ Stands
<1> PICK a \in 1..Len(approvals), verdict \in {"approved", "rejected"} : Decide(a, verdict)
  BY DEF DecideRequest
<1>1. UNCHANGED <<state, unread, active, wake, watches, pc, cancelled, round, attempt, calls,
                  waiting, job, asks, restarts, halted>>
  BY DEF DecideRequest, turn
<1>2. approvals \in Seq(Approvals) /\ approvals[a].state = "pending" /\ approvals[a] \in Approvals
  BY DEF Decide, IInv, PendingOK
<1>3. PICK v \in {verdict, "expired"} :
        /\ approvals' = [approvals EXCEPT ![a].state = v]
        /\ \/ v = verdict /\ a = waiting /\ answer = None /\ ~cancelled /\ answer' = verdict
           \/ v = "expired" /\ ~(a = waiting /\ answer = None /\ ~cancelled) /\ answer' = answer
  BY DEF Decide
<1>4. /\ approvals' \in Seq(Approvals) /\ Len(approvals') = Len(approvals)
      /\ approvals'[a].state = v /\ approvals'[a].conv = approvals[a].conv
      /\ \A b \in 1..Len(approvals) \ {a} : approvals'[b] = approvals[b]
  <2> DEFINE e == [approvals[a] EXCEPT !.state = v]
  <2>1. approvals' = [approvals EXCEPT ![a] = e] BY <1>3
  <2>2. e \in Approvals /\ e.state = v /\ e.conv = approvals[a].conv BY <1>2 DEF Approvals
  <2> HIDE DEF e
  <2> QED BY <1>2, <2>1, <2>2, ExceptSeq
<1>5. Stands BY <1>2, <1>4 DEF Stands
<1>6. PendingOK' BY <1>1, <1>3, <1>4 DEF IInv, PendingOK
<1>7. FutureOK'
  <2>1. CASE pc # "approval" BY <1>1, <1>3, <2>1 DEF IInv, FutureOK, PendingOK
  <2>2. CASE pc = "approval" BY <1>1, <1>2, <1>3, <1>4, <2>2 DEF IInv, FutureOK, None
  <2> QED BY <2>1, <2>2
<1>8. TurnOK' /\ RestOK' BY <1>1 DEF IInv, TurnOK, RestOK
<1> QED BY <1>5, <1>6, <1>7, <1>8 DEF IInv

\* A job ends and the conversation that watches it is told.
LEMMA JobEndsKeeps == ASSUME IInv, NEW j \in Jobs, JobEnds(j) PROVE IInv' /\ Stands
<1>1. /\ job' = [job EXCEPT ![j] = "ended"] /\ watches' = [watches EXCEPT ![j] = None]
      /\ UNCHANGED <<approvals, waiting, answer, asks, restarts, halted>>
  BY DEF JobEnds, future
<1>2. /\ TurnOK' /\ (pc' = "approval" <=> pc = "approval")
      /\ pc = "approval" => UNCHANGED <<active, cancelled>>
      /\ unread' \in [Convs -> BOOLEAN]
  <2>1. CASE watches[j] = None
    BY <2>1 DEF JobEnds, turn, IInv, TurnOK, RestOK
  <2>2. CASE watches[j] # None
    <3>1. watches[j] \in Convs /\ Notify(watches[j]) BY <2>2 DEF JobEnds, IInv, RestOK
    <3> QED BY <3>1, NotifyOK DEF IInv
  <2> QED BY <2>1, <2>2
<1>3. RestOK' BY <1>1, <1>2 DEF IInv, RestOK
<1>4. FutureOK' /\ PendingOK' /\ Stands BY <1>1, <1>2 DEF IInv, FutureOK, PendingOK, Stands
<1> QED BY <1>2, <1>3, <1>4 DEF IInv

\* The steps of a turn that neither ask nor await the operator.
LEMMA QuietStepKeeps ==
  ASSUME IInv, Setup \/ ReplyStarts \/ ReplyFails \/ TryAgain \/ Reply \/ NotDescribed \/ ToolEnds
  PROVE  IInv' /\ Stands
<1>1. /\ pc \in Suspended \ {"approval"}
      /\ UNCHANGED <<approvals, waiting, answer, asks, restarts, halted>>
  BY DEF Setup, ReplyStarts, ReplyFails, TryAgain, Reply, NotDescribed, ToolEnds, At, Elsewhere,
         Suspended, future, records
<1>2. /\ TurnOK /\ active \in Convs /\ [state EXCEPT ![active] = "running"] = state
      /\ round \in 0..MaxRounds /\ attempt \in 0..(MaxRetries + 1) /\ calls \in 0..MaxCalls
  BY <1>1, RunningNow DEF IInv, TurnOK
<1>3. MaxRounds \in Nat \ {0} /\ MaxCalls \in Nat \ {0} /\ MaxRetries \in Nat
  BY RoundsAssumption, BoundsAssumption
<1>4. calls - 1 \in -1..MaxCalls /\ MaxCalls \in -1..MaxCalls /\ 0 \in 0..MaxCalls BY <1>2, <1>3
<1>5. RestOK' /\ TurnOK' /\ pc' # "approval"
  <2>1. CASE Setup
    <3>1. RestOK' BY <1>1, <2>1 DEF Setup, IInv, RestOK
    <3>2. CASE Round(1, state, unread)
      <4>1. 1 \in 1..(MaxRounds + 1) BY <1>3
      <4> QED BY <1>1, <1>2, <3>1, <3>2, <4>1, RoundOK
    <3>3. CASE EndTurn("failed", unread) BY <1>2, <3>1, <3>3, EndTurnOK DEF None
    <3> QED BY <2>1, <3>2, <3>3 DEF Setup
  <2>2. CASE ReplyStarts
    <3>1. RestOK' BY <1>1, <2>2 DEF ReplyStarts, records, IInv, RestOK
    <3>2. SuspendAt("streaming", round, attempt, 0) /\ state' = state
      BY <2>2 DEF ReplyStarts, records
    <3>3. "streaming" \in Suspended \ {"approval"} BY DEF Suspended
    <3> QED BY <1>1, <1>2, <1>4, <3>1, <3>2, <3>3, SuspendOK
  <2>3. CASE ReplyFails
    <3>1. RestOK' BY <1>1, <2>3 DEF ReplyFails, IInv, RestOK
    <3>2. CASE attempt <= MaxRetries /\ SuspendAt("delay", round, attempt, 0) /\ UNCHANGED state
      <4>1. "delay" \in Suspended \ {"approval"} BY DEF Suspended
      <4> QED BY <1>1, <1>2, <1>4, <3>1, <3>2, <4>1, SuspendOK
    <3>3. CASE EndTurn("failed", unread) BY <1>2, <3>1, <3>3, EndTurnOK DEF None
    <3> QED BY <2>3, <3>2, <3>3 DEF ReplyFails
  <2>4. CASE TryAgain
    <3>1. RestOK' BY <1>1, <2>4 DEF TryAgain, records, IInv, RestOK
    <3>2. SuspendAt("reply", round, attempt + 1, 0) /\ state' = state /\ pc = "delay"
      BY <2>4 DEF TryAgain, records, At
    <3>3. "reply" \in Suspended \ {"approval"} BY DEF Suspended
    <3>4. attempt + 1 \in 0..(MaxRetries + 1) BY <1>2, <1>3, <3>2 DEF TurnOK
    <3> QED BY <1>1, <1>2, <1>4, <3>1, <3>2, <3>3, <3>4, SuspendOK
  <2>5. CASE Reply
    <3>1. /\ unread' = [unread EXCEPT ![active] = FALSE] /\ ReplyEnds(unread')
          /\ UNCHANGED <<watches, job>>
      BY <2>5 DEF Reply
    <3>2. RestOK' BY <1>1, <1>2, <3>1 DEF IInv, RestOK
    <3>3. CASE EndTurn("idle", unread') BY <1>2, <3>2, <3>3, EndTurnOK DEF None
    <3>4. CASE Round(round + 1, state, unread')
      <4>1. round + 1 \in 1..(MaxRounds + 1) BY <1>2, <1>3
      <4> QED BY <1>1, <1>2, <3>2, <3>4, <4>1, RoundOK
    <3>5. CASE NextCall(MaxCalls, state, unread')
      BY <1>1, <1>2, <1>4, <3>2, <3>5, NextCallOK
    <3> QED BY <3>1, <3>3, <3>4, <3>5 DEF ReplyEnds
  <2>6. CASE NotDescribed
    <3>1. RestOK' BY <1>1, <2>6 DEF NotDescribed, IInv, RestOK
    <3>2. NextCall(calls - 1, state, unread) BY <2>6 DEF NotDescribed
    <3> QED BY <1>1, <1>2, <1>4, <3>1, <3>2, NextCallOK
  <2>7. CASE ToolEnds
    <3>1. RestOK' BY <1>1, <1>2, <2>7 DEF ToolEnds, IInv, RestOK
    <3>2. NextCall(calls - 1, state, unread) BY <2>7 DEF ToolEnds
    <3> QED BY <1>1, <1>2, <1>4, <3>1, <3>2, NextCallOK
  <2> QED BY <2>1, <2>2, <2>3, <2>4, <2>5, <2>6, <2>7
<1>6. FutureOK' /\ PendingOK' /\ Stands BY <1>1, <1>5, NoFuture
<1> QED BY <1>5, <1>6 DEF IInv

\* _ask
LEMMA AskOperatorKeeps == ASSUME IInv, AskOperator PROVE IInv' /\ Stands
<1>1. /\ pc = "describe" /\ ~cancelled /\ Len(approvals) < MaxApprovals
      /\ approvals' = Append(approvals, [conv |-> active, state |-> "pending"])
      /\ waiting' = Len(approvals) + 1 /\ answer' = None
      /\ state' = [state EXCEPT ![active] = "awaiting_approval"]
      /\ SuspendAt("approval", round, attempt, calls)
      /\ UNCHANGED <<asks, restarts, halted, unread, watches, job>>
  BY DEF AskOperator, At, Elsewhere
<1>2. active \in Convs /\ approvals \in Seq(Approvals) /\ Len(approvals) \in Nat
      /\ waiting = 0
  BY <1>1, RunningNow DEF Suspended, IInv, PendingOK, FutureOK
<1>3. [conv |-> active, state |-> "pending"] \in Approvals BY <1>2 DEF Approvals
<1>4. /\ approvals' \in Seq(Approvals) /\ Len(approvals') = Len(approvals) + 1
      /\ \A a \in 1..Len(approvals) : approvals'[a] = approvals[a]
      /\ approvals'[Len(approvals) + 1] = [conv |-> active, state |-> "pending"]
  BY <1>1, <1>2, <1>3
<1>5. UNCHANGED <<active, wake, cancelled, round, attempt, calls>> /\ pc' = "approval"
  BY <1>1 DEF SuspendAt, SameTurn
<1>6. TurnOK' BY <1>1, <1>2, <1>5, NamesAssumption DEF IInv, TurnOK, Busy, States, Suspended, None
<1>7. PendingOK'
  <2>1. ASSUME NEW a \in 1..Len(approvals'), approvals'[a].state = "pending", restarts = 0
        PROVE  a = Len(approvals) + 1
    BY <1>1, <1>2, <1>4, <2>1 DEF IInv, PendingOK
  <2> QED BY <1>1, <1>2, <1>4, <1>5, <2>1, BoundsAssumption DEF IInv, PendingOK
<1>8. FutureOK' BY <1>1, <1>2, <1>4, <1>5, BoundsAssumption DEF FutureOK, None
<1>9. RestOK' BY <1>1 DEF IInv, RestOK
<1> QED BY <1>4, <1>6, <1>7, <1>8, <1>9 DEF IInv, Stands

\* The operator's answer reaches the turn.
LEMMA AnsweredKeeps == ASSUME IInv, Answered PROVE IInv' /\ Stands
<1> DEFINE st == [state EXCEPT ![active] = "running"]
<1>1. /\ pc = "approval" /\ ~cancelled /\ answer # None /\ waiting' = 0 /\ answer' = None
      /\ \/ SuspendAt("tool", round, attempt, calls) /\ state' = st
         \/ NextCall(calls - 1, st, unread)
      /\ UNCHANGED <<unread, approvals, watches, job, asks, restarts, halted>>
  BY DEF Answered, At, Elsewhere
<1>2. pc \in Suspended /\ TurnOK /\ calls \in 0..MaxCalls /\ calls - 1 \in -1..MaxCalls
  BY <1>1, RoundsAssumption DEF Suspended, IInv, TurnOK
<1>3. TurnOK' /\ pc' # "approval"
  <2>1. CASE SuspendAt("tool", round, attempt, calls) /\ state' = st
    <3>1. "tool" \in Suspended \ {"approval"} BY DEF Suspended
    <3> QED BY <1>2, <2>1, <3>1, SuspendOK DEF TurnOK
  <2>2. CASE NextCall(calls - 1, st, unread) BY <1>2, <2>2, NextCallOK
  <2> QED BY <1>1, <2>1, <2>2
<1> HIDE DEF st
<1>4. approvals[waiting].state # "pending"
  BY <1>1 DEF IInv, FutureOK, None
<1>5. PendingOK' BY <1>1, <1>3, <1>4 DEF IInv, PendingOK
<1>6. FutureOK' BY <1>1, <1>3, BoundsAssumption DEF FutureOK
<1>7. RestOK' /\ Stands BY <1>1 DEF IInv, RestOK, Stands
<1> QED BY <1>3, <1>5, <1>6, <1>7 DEF IInv

\* A stopped turn expires what it asked, and only that.
LEMMA CancelledKeeps == ASSUME IInv, Cancelled PROVE IInv' /\ Stands
<1>1. /\ pc \in Suspended /\ approvals' = ExpirePending(active) /\ waiting' = 0 /\ answer' = None
      /\ halted' = [halted EXCEPT ![active] = TRUE] /\ EndTurn("idle", unread)
      /\ UNCHANGED <<unread, watches, job, asks, restarts>>
  BY DEF Cancelled, Running
<1>2. active \in Convs /\ TurnOK BY <1>1, RunningNow DEF IInv
<1>3. TurnOK' /\ pc' # "approval" BY <1>1, <1>2, EndTurnOK DEF None
<1>4. approvals \in Seq(Approvals) /\ Len(approvals) \in Nat
      /\ \A a \in 1..Len(approvals) : approvals[a] \in Approvals
  BY DEF IInv, PendingOK
<1>5. /\ approvals' \in Seq(Approvals) /\ Len(approvals') = Len(approvals)
      /\ \A a \in 1..Len(approvals) :
           approvals'[a] = IF approvals[a].conv = active /\ approvals[a].state = "pending"
                           THEN [approvals[a] EXCEPT !.state = "expired"] ELSE approvals[a]
  <2>1. approvals' \in [1..Len(approvals) -> Approvals]
    BY <1>1, <1>4 DEF ExpirePending, Approvals
  <2> QED BY <1>1, <1>4, <2>1 DEF ExpirePending
<1>6. Stands BY <1>5 DEF Stands
<1>7. ASSUME NEW a \in 1..Len(approvals'), restarts = 0 PROVE approvals'[a].state # "pending"
  <2>1. CASE approvals[a].state = "pending"
    <3>1. a = waiting /\ pc = "approval" BY <1>5, <1>7, <2>1 DEF IInv, PendingOK
    <3>2. approvals[a].conv = active BY <3>1 DEF IInv, FutureOK
    <3> QED BY <1>4, <1>5, <2>1, <3>2 DEF Approvals
  <2>2. CASE approvals[a].state # "pending" BY <1>5, <2>2
  <2> QED BY <2>1, <2>2
<1>8. PendingOK' BY <1>1, <1>5, <1>7 DEF IInv, PendingOK
<1>9. FutureOK' BY <1>1, <1>3, BoundsAssumption DEF FutureOK
<1>10. RestOK' BY <1>1, <1>2 DEF IInv, RestOK
<1> QED BY <1>3, <1>6, <1>8, <1>9, <1>10 DEF IInv

\* A turn stopped before its first step, and a restart of the application.
LEMMA LostTurnKeeps == ASSUME IInv, CancelledUnstarted \/ Restart PROVE IInv' /\ Stands
<1>1. CASE CancelledUnstarted
  <2>1. /\ pc = "created" /\ pc' = None /\ cancelled' = FALSE
        /\ UNCHANGED <<state, unread, approvals, active, wake, watches, round, attempt, calls,
                       waiting, answer, job, asks, restarts, halted>>
    BY <1>1 DEF CancelledUnstarted, records, future
  <2>2. TurnOK' BY <2>1 DEF IInv, TurnOK, None
  <2>3. FutureOK' /\ PendingOK' /\ Stands BY <2>1, <2>2, NoFuture DEF None
  <2> QED BY <2>1, <2>2, <2>3 DEF IInv, RestOK
<1>2. CASE Restart
  <2>1. /\ restarts' = restarts + 1 /\ restarts < MaxRestarts /\ state' = Interrupt /\ active' = None
        /\ wake' = <<>> /\ watches' = [j \in Jobs |-> None] /\ pc' = None /\ cancelled' = FALSE
        /\ round' = 0 /\ attempt' = 0 /\ calls' = 0 /\ waiting' = 0 /\ answer' = None
        /\ UNCHANGED <<unread, approvals, job, asks, halted>>
    BY <1>2 DEF Restart
  <2>2. TurnOK'
    <3>1. state' \in [Convs -> States] /\ \A c \in Convs : state'[c] \notin Busy
      BY <2>1 DEF Interrupt, IInv, TurnOK, States, Busy
    <3> QED BY <2>1, <3>1, NoTurnOK
  <2>3. FutureOK' BY <2>1, BoundsAssumption DEF FutureOK, None
  <2>4. PendingOK' BY <2>1, BoundsAssumption DEF IInv, PendingOK
  <2>5. RestOK' /\ Stands BY <2>1 DEF IInv, RestOK, Stands
  <2> QED BY <2>2, <2>3, <2>4, <2>5 DEF IInv
<1> QED BY <1>1, <1>2

----------------------------------------------------------------------------
(* Theorems                                                                *)

\* A step of the system keeps the invariant, and no step of it changes a
\* decision.
LEMMA StepKeeps == ASSUME IInv, [Next]_vars PROVE IInv' /\ (Stands \/ UNCHANGED vars)
<1>1. CASE \E c \in Convs : Ask(c) BY <1>1, AskKeeps
<1>2. CASE \E c \in Convs : Stop(c) \/ Delete(c) BY <1>2, StopDeleteKeeps
<1>3. CASE DecideRequest BY <1>3, DecideKeeps
<1>4. CASE \E j \in Jobs : JobEnds(j) BY <1>4, JobEndsKeeps
<1>5. CASE Setup \/ ReplyStarts \/ ReplyFails \/ TryAgain \/ Reply \/ NotDescribed \/ ToolEnds
  BY <1>5, QuietStepKeeps
<1>6. CASE AskOperator BY <1>6, AskOperatorKeeps
<1>7. CASE Answered BY <1>7, AnsweredKeeps
<1>8. CASE Cancelled BY <1>8, CancelledKeeps
<1>9. CASE CancelledUnstarted \/ Restart BY <1>9, LostTurnKeeps
<1>10. CASE UNCHANGED vars
  BY <1>10 DEF vars, records, turn, future, IInv, TurnOK, FutureOK, PendingOK, RestOK
<1> QED BY <1>1, <1>2, <1>3, <1>4, <1>5, <1>6, <1>7, <1>8, <1>9, <1>10 DEF Next, Turn

\* A fresh installation satisfies the invariant.
LEMMA Starts == Init => IInv
<1> SUFFICES ASSUME Init PROVE IInv OBVIOUS
<1>1. TurnOK
  <2>1. <<>> \in Seq(Convs) BY EmptySeq
  <2>2. \A d \in Convs : None # d BY NamesAssumption
  <2>3. None # "approval" /\ None # "delay" BY DEF None
  <2> QED BY <2>1, <2>2, <2>3, Zeros DEF Init, TurnOK, States, Busy
<1>2. FutureOK BY BoundsAssumption DEF Init, FutureOK, None
<1>3. PendingOK
  <2>1. <<>> \in Seq(Approvals) /\ Len(<<>>) = 0 BY EmptySeq
  <2> QED BY <2>1, BoundsAssumption DEF Init, PendingOK
<1>4. RestOK BY BoundsAssumption DEF Init, RestOK
<1> QED BY <1>1, <1>2, <1>3, <1>4 DEF IInv

\* The inductive invariant, for every set of conversations and jobs, every
\* limit of rounds, calls and retries, and every bound on what is asked.
THEOREM EngineInvariant == Spec => []IInv
<1>1. IInv /\ [Next]_vars => IInv' BY StepKeeps
<1> QED BY <1>1, Starts, PTL DEF Spec

\* A conversation shows a turn exactly when the engine works on it, and an
\* approval is pending only while its turn awaits it.
THEOREM RecordsAreTrue == Spec => []RecordsTellTheTruth
<1>1. IInv => RecordsTellTheTruth
  <2> SUFFICES ASSUME IInv PROVE RecordsTellTheTruth OBVIOUS
  <2>1. TypeOK BY DEF IInv, TurnOK, FutureOK, PendingOK, RestOK, TypeOK
  <2> QED BY <2>1 DEF IInv, TurnOK, PendingOK, Busy, RecordsTellTheTruth
<1> QED BY <1>1, EngineInvariant, PTL

\* The turn acts on what the operator decided, and a decision never changes.
THEOREM DecisionsAreKept == Spec => DecisionsStand
<1> DEFINE Awaited ==
      pc = "approval" =>
        /\ waiting \in 1..Len(approvals)
        /\ approvals[waiting].conv = active
        /\ approvals[waiting].state =
             (IF answer = None
              THEN (IF cancelled THEN approvals[waiting].state ELSE "pending")
              ELSE answer)
<1>1. IInv => Awaited BY DEF IInv, FutureOK
<1>2. IInv /\ [Next]_vars => [Stands]_vars BY StepKeeps
<1>3. Spec => []Awaited BY <1>1, EngineInvariant, PTL
<1>4. Spec => [][Stands]_vars BY <1>2, EngineInvariant, PTL DEF Spec
<1> QED BY <1>3, <1>4 DEF DecisionsStand, Stands
=============================================================================
