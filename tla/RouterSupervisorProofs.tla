------------------------ MODULE RouterSupervisorProofs ------------------------
(***************************************************************************)
(* Theorems about RouterSupervisor, for any number of launches, restart    *)
(* loops, attempts and run records.                                        *)
(*                                                                         *)
(* Most steps of a task end in one of a few ways, so the first lemmas say  *)
(* what LoopContinues, StartFails, Stopped, StopProcess and the like do to *)
(* the task and to _restart_task; the steps are then taken one by one.     *)
(***************************************************************************)
EXTENDS RouterSupervisor, SequenceTheorems, TLAPS

Up == {"STARTING", "READY", "DEGRADED"}

\* Task t returns, or it goes to sleep before another attempt (a loop), or to
\* the port probe (a restart by the caller).
Ends(t) ==
  \E at \in {"off", "probe", "sleep"} :
    /\ pc' = [pc EXCEPT ![t] = at] /\ on' = [on EXCEPT ![t] = NoProc]
    /\ \/ t = Caller /\ at # "sleep" /\ UNCHANGED tracking
       \/ /\ t # Caller /\ at = "off" /\ Forgets(t)
          /\ attempts' \in 0..MaxAttempts /\ (WindowPasses \/ attempts' = attempts)
       \/ /\ t # Caller /\ at = "sleep" /\ UNCHANGED <<loop, stray>>
          /\ attempts' \in 0..MaxAttempts /\ (WindowPasses \/ attempts' = attempts + 1)

\* What _stop_process does before it waits.
StopEffect(t) ==
  \/ state \in Down /\ state' \in Down /\ Ends(t) /\ UNCHANGED life
  \/ state = "STOPPING" /\ state' = state /\ Ends(t) /\ UNCHANGED life
  \/ state \in Up /\ proc = NoProc /\ state' = "CRASHED" /\ Ends(t) /\ UNCHANGED life
  \/ /\ state \in Up /\ proc # NoProc /\ state' = "STOPPING" /\ life' = Terminated
     /\ Suspend(t, "ending", proc) /\ UNCHANGED tracking

\* What follows its await of the watch task w, in state st.
JoinEffect(t, w, st) ==
  /\ Outcome(w) # "on" /\ Ends(t)
  /\ state' = st \/ (t # Caller /\ state' = "CRASHED" /\ Outcome(w) = "done")
  /\ IF Outcome(w) = "done" THEN watchTask' = NoProc ELSE watchTask' = watchTask

----------------------------------------------------------------------------
(* How a step of a task ends                                               *)

\* The caller is no loop, and no loop has the name of none.
LEMMA Names ==
  /\ Caller \in Tasks /\ Loops \subseteq Tasks /\ Caller \notin Loops /\ NoLoop \notin Loops
  /\ NoLoop # Caller /\ \A t \in Tasks : t # Caller => t \in Loops
BY LoopsAssumption DEF Tasks, NoLoop, Caller

\* The head of the loop: it sleeps before one more attempt, or it returns.
LEMMA LoopContinuesEnds ==
  ASSUME attempts \in 0..MaxAttempts, NEW t \in Loops, NEW st, LoopContinues(t, st)
  PROVE  Ends(t)
<1> MaxAttempts \in Nat BY AttemptsAssumption
<1> t # Caller BY Names
<1>1. CASE enabled /\ st \in Down
  <2>1. PICK kept \in (IF WindowPasses THEN 0..attempts ELSE {attempts}) :
           IF kept >= MaxAttempts
             THEN Suspend(t, "off", NoProc) /\ Forgets(t) /\ attempts' = kept
             ELSE /\ Suspend(t, "sleep", NoProc) /\ attempts' = kept + 1
                  /\ UNCHANGED <<loop, stray>>
    BY <1>1 DEF LoopContinues
  <2>2. kept \in 0..MaxAttempts /\ (WindowPasses \/ kept = attempts)
    BY <2>1
  <2>3. CASE kept >= MaxAttempts
    BY <2>1, <2>2, <2>3 DEF Ends, Suspend
  <2>4. CASE ~(kept >= MaxAttempts)
    BY <2>1, <2>2, <2>4 DEF Ends, Suspend
  <2> QED BY <2>3, <2>4
<1>2. CASE ~(enabled /\ st \in Down)
  BY <1>2 DEF LoopContinues, LoopExits, Ends, Suspend
<1> QED BY <1>1, <1>2

\* The task returns or its cancellation ends it.
LEMMA LeavesEnds ==
  ASSUME attempts \in 0..MaxAttempts, NEW t \in Tasks, Leaves(t)
  PROVE  Ends(t)
<1>1. CASE t = Caller
  BY <1>1 DEF Leaves, Release, CallerKeeps, Ends, Suspend
<1>2. CASE t # Caller
  BY <1>2 DEF Leaves, LoopExits, Ends, Suspend
<1> QED BY <1>1, <1>2

\* A launch that failed ends the caller's operation, and a loop tries again.
LEMMA StartFailsEnds ==
  ASSUME attempts \in 0..MaxAttempts, NEW t \in Tasks, NEW known, NEW st,
         StartFails(t, known, st)
  PROVE  Ends(t)
<1>1. CASE t = Caller
  BY <1>1 DEF StartFails, FailedStart, Release, CallerKeeps, Ends, Suspend
<1>2. CASE t # Caller
  BY <1>2, Names, LoopContinuesEnds DEF StartFails
<1> QED BY <1>1, <1>2

\* _stop_process returned.
LEMMA StoppedEnds ==
  ASSUME attempts \in 0..MaxAttempts, NEW t \in Tasks, NEW st, NEW heard, NEW known,
         t = Caller => op \in {"start", "stop", "restart"}, Stopped(t, st, heard, known)
  PROVE  Ends(t) /\ state' = (IF t = Caller THEN st ELSE "CRASHED")
<1>1. CASE t = Caller
  <2>1. UNCHANGED tracking /\ state' = st
    BY <1>1 DEF Stopped, CallerKeeps
  <2>2. CASE op = "stop"
    BY <1>1, <2>1, <2>2 DEF Stopped, Release, Ends, Suspend
  <2>3. CASE op = "restart"
    <3>1. StartRouter(st, known)
      BY <1>1, <2>3 DEF Stopped
    <3>2. Suspend(Caller, "probe", NoProc) \/ Suspend(Caller, "off", NoProc)
      BY <3>1 DEF StartRouter, Release
    <3> QED BY <1>1, <2>1, <3>2 DEF Ends, Suspend
  <2>4. CASE op = "start"
    BY <1>1, <2>1, <2>4 DEF Stopped, FailedStart, Release, Ends, Suspend
  <2> QED BY <1>1, <2>1, <2>2, <2>3, <2>4
<1>2. CASE t # Caller
  <2>1. LoopContinues(t, "CRASHED") /\ state' = "CRASHED"
    BY <1>2 DEF Stopped
  <2> QED BY <1>2, <2>1, Names, LoopContinuesEnds
<1> QED BY <1>1, <1>2

\* _stop_process raised.
LEMMA StopFailsEnds ==
  ASSUME attempts \in 0..MaxAttempts, NEW t \in Tasks, NEW st, NEW heard, NEW known,
         StopFails(t, st, heard, known)
  PROVE  Ends(t) /\ state' = st
<1>1. CASE t = Caller /\ op # "start"
  BY <1>1 DEF StopFails, Release, CallerKeeps, Ends, Suspend
<1>2. CASE ~(t = Caller /\ op # "start")
  <2>1. StartFails(t, known, st)
    BY <1>2 DEF StopFails
  <2> QED BY <2>1, StartFailsEnds DEF StopFails
<1> QED BY <1>1, <1>2

\* _stop_process up to its wait.
LEMMA StopProcessDoes ==
  ASSUME attempts \in 0..MaxAttempts, state \in States, NEW t \in Tasks,
         t = Caller => op \in {"start", "stop", "restart"}, StopProcess(t)
  PROVE  StopEffect(t)
<1>1. CASE state = "STOPPED" /\ Stopped(t, state, announced, runs) /\ UNCHANGED life
  <2>1. Ends(t) /\ state' = (IF t = Caller THEN state ELSE "CRASHED")
    BY <1>1, StoppedEnds
  <2> QED BY <1>1, <2>1 DEF StopEffect, Down
<1>2. CASE state = "CRASHED" /\ Stopped(t, "STOPPED", announced, runs) /\ UNCHANGED life
  <2>1. Ends(t) /\ state' = (IF t = Caller THEN "STOPPED" ELSE "CRASHED")
    BY <1>2, StoppedEnds
  <2> QED BY <1>2, <2>1 DEF StopEffect, Down
<1>3. CASE state = "STOPPING" /\ StopFails(t, state, announced, runs) /\ UNCHANGED life
  <2>1. Ends(t) /\ state' = state
    BY <1>3, StopFailsEnds
  <2> QED BY <1>3, <2>1 DEF StopEffect
<1>4. CASE MayBecome(state, "STOPPING") /\ proc = NoProc
  <2>1. StopFails(t, "CRASHED", "CRASHED", Recorded(runs, "CRASHED")) /\ UNCHANGED life
    BY <1>4 DEF StopProcess, MayBecome
  <2>2. Ends(t) /\ state' = "CRASHED"
    BY <2>1, StopFailsEnds
  <2>3. state \in Up
    BY <1>4 DEF MayBecome, States, Down, Up
  <2> QED BY <1>4, <2>1, <2>2, <2>3 DEF StopEffect
<1>5. CASE MayBecome(state, "STOPPING") /\ proc # NoProc
  <2>1. state \in Up
    BY <1>5 DEF MayBecome, States, Down, Up
  <2>2. SetState("STOPPING") /\ life' = Terminated /\ Suspend(t, "ending", proc) /\ CallerKeeps
    BY <1>5, <2>1 DEF StopProcess, Up
  <2> QED BY <1>5, <2>1, <2>2 DEF StopEffect, SetState, CallerKeeps
<1> QED BY <1>1, <1>2, <1>3, <1>4, <1>5 DEF StopProcess

\* _stop_process from the end of its await of the watch task.
LEMMA WatchJoinedDoes ==
  ASSUME attempts \in 0..MaxAttempts, NEW t \in Tasks, NEW w, NEW st, NEW heard, NEW known,
         t = Caller => op \in {"start", "stop", "restart"},
         WatchJoined(t, w, st, heard, known)
  PROVE  JoinEffect(t, w, st)
<1>1. CASE Outcome(w) = "done"
  <2>1. watchTask' = NoProc /\ Stopped(t, st, heard, known)
    BY <1>1 DEF WatchJoined
  <2>2. Ends(t) /\ state' = (IF t = Caller THEN st ELSE "CRASHED")
    BY <2>1, StoppedEnds
  <2> QED BY <1>1, <2>1, <2>2 DEF JoinEffect
<1>2. CASE Outcome(w) = "failed"
  <2>1. StopFails(t, st, heard, known) /\ watchTask' = watchTask
    BY <1>2 DEF WatchJoined
  <2>2. Ends(t) /\ state' = st
    BY <2>1, StopFailsEnds
  <2> QED BY <1>2, <2>1, <2>2 DEF JoinEffect
<1>3. CASE Outcome(w) = "cancelled"
  <2>1. Leaves(t) /\ state' = st /\ watchTask' = watchTask
    BY <1>3 DEF WatchJoined
  <2> QED BY <1>3, <2>1, LeavesEnds DEF JoinEffect
<1> QED BY <1>1, <1>2, <1>3 DEF WatchJoined

----------------------------------------------------------------------------
(* The run records and the observer                                        *)

Ops == {"none", "start", "stop", "restart"}

\* The operation and the records that it and the observer write to.
BooksOK ==
  /\ op \in Ops /\ keyFile \in BOOLEAN
  /\ runs \in Seq(Runs) /\ myRun \in 0..Len(runs) /\ active \in 0..Len(runs)
  /\ op = "none" => pc[Caller] = "off"

RecordsOK == state \in States /\ announced \in States /\ BooksOK /\ StateHeard

\* The records known, when they are those there are but for what they say.
Rewritten(known) == known \in Seq(Runs) /\ Len(known) = Len(runs)

\* Every run record has the shape of one.
LEMMA UpdatedTyped ==
  ASSUME NEW run \in Runs, NEW st \in States, NEW failed \in BOOLEAN
  PROVE  Updated(run, st, failed) \in Runs
BY DEF Updated, Runs

\* A new record has it.
LEMMA NewRunTyped == NewRun \in Runs
BY DEF NewRun, Runs, States

\* Updating one of the records, if there is a k-th, keeps the others.
LEMMA UpdateOne ==
  ASSUME NEW known \in Seq(Runs), NEW k \in Nat, NEW st \in States, NEW failed \in BOOLEAN
  PROVE  LET new == [known EXCEPT ![k] = Updated(@, st, failed)]
         IN  new \in Seq(Runs) /\ Len(new) = Len(known)
<1> DEFINE new == [known EXCEPT ![k] = Updated(@, st, failed)]
<1> DEFINE n == Len(known)
<1>1. known \in [1..n -> Runs] /\ n \in Nat
  OBVIOUS
<1>2. \A i \in 1..n : Updated(known[i], st, failed) \in Runs
  BY <1>1, UpdatedTyped
<1>3. new \in [1..n -> Runs]
  <2>1. DOMAIN new = 1..n /\ new = [i \in 1..n |-> new[i]]
    BY <1>1
  <2>2. \A i \in 1..n : new[i] = IF i = k THEN Updated(known[i], st, failed) ELSE known[i]
    BY <1>1
  <2> HIDE DEF new
  <2> QED BY <1>1, <1>2, <2>1, <2>2
<1> HIDE DEF new
<1>4. new \in Seq(Runs) /\ Len(new) = n
  BY <1>1, <1>3
<1> QED BY <1>4 DEF new

\* What the observer records when it opens no record.
LEMMA RecordedRewrites ==
  ASSUME BooksOK, NEW known, Rewritten(known), NEW st \in States
  PROVE  Rewritten(Recorded(known, st))
<1>1. active \in Nat
  BY DEF BooksOK
<1>2. CASE active = 0
  BY <1>2 DEF Recorded
<1>3. CASE active # 0
  BY <1>1, <1>3, UpdateOne, FALSE \in BOOLEAN DEF Recorded, Rewritten
<1> QED BY <1>2, <1>3

\* The records after the observer was called.
LEMMA NotifyKeeps ==
  ASSUME BooksOK, NEW st \in States, Notify(st)
  PROVE  /\ announced' = st
         /\ runs' \in Seq(Runs) /\ Len(runs') >= Len(runs) /\ active' \in 0..Len(runs')
<1>1. runs \in Seq(Runs) /\ Len(runs) \in Nat /\ active \in 0..Len(runs)
  BY DEF BooksOK
<1>2. CASE runs' = Append(runs, NewRun) /\ active' = Len(runs) + 1
  <2>1. runs' \in Seq(Runs) /\ Len(runs') = Len(runs) + 1
    BY <1>1, <1>2, NewRunTyped
  <2> QED BY <1>1, <1>2, <2>1 DEF Notify
<1>3. CASE runs' = Recorded(runs, st) /\ active' = active
  <2>1. Rewritten(runs)
    BY <1>1 DEF Rewritten
  <2>2. Rewritten(runs')
    BY <1>3, <2>1, RecordedRewrites
  <2> QED BY <1>1, <1>3, <2>2 DEF Rewritten, Notify
<1> QED BY <1>2, <1>3 DEF Notify

\* The caller's operation ends.
LEMMA ReleaseBooks ==
  ASSUME pc \in [Tasks -> Pcs], Release
  PROVE  op' = "none" /\ myRun' = 0 /\ pc'[Caller] = "off"
BY Names DEF Release, Suspend

\* A step of a loop leaves the caller's operation alone.
LEMMA LoopBooks ==
  ASSUME pc \in [Tasks -> Pcs], BooksOK, LoopKeeps, NEW t \in Loops,
         pc'[Caller] = pc[Caller], runs' \in Seq(Runs), Len(runs') >= Len(runs),
         active' \in 0..Len(runs')
  PROVE  BooksOK'
<1>1. op' = op /\ myRun' = myRun /\ keyFile' = keyFile
  BY DEF LoopKeeps
<1>2. myRun \in 0..Len(runs) /\ Len(runs) \in Nat /\ Len(runs') \in Nat
  BY DEF BooksOK
<1>3. myRun' \in 0..Len(runs')
  BY <1>1, <1>2
<1> QED BY <1>1, <1>3 DEF BooksOK

\* A step of the caller that releases the lock and rewrites records.
LEMMA CallerBooks ==
  ASSUME pc \in [Tasks -> Pcs], BooksOK, Release, Rewritten(runs'), active' = active,
         keyFile' \in BOOLEAN
  PROVE  BooksOK'
<1>1. op' = "none" /\ myRun' = 0 /\ pc'[Caller] = "off"
  BY ReleaseBooks
<1>2. runs' \in Seq(Runs) /\ Len(runs') = Len(runs) /\ Len(runs) \in Nat
  BY DEF Rewritten, BooksOK
<1>3. 0 \in 0..Len(runs') /\ active' \in 0..Len(runs')
  BY <1>2 DEF BooksOK
<1> QED BY <1>1, <1>2, <1>3 DEF BooksOK, Ops

\* A loop's step moves no other task.
LEMMA EndsApart ==
  ASSUME pc \in [Tasks -> Pcs], NEW t \in Loops, Ends(t)
  PROVE  pc'[Caller] = pc[Caller]
BY Names DEF Ends

\* The books after the ways in which a step may end.
LEMMA FailedStartBooks ==
  ASSUME pc \in [Tasks -> Pcs], BooksOK, NEW known, Rewritten(known), NEW st \in States,
         FailedStart(known, st), active' = active
  PROVE  BooksOK'
<1>1. myRun \in Nat
  BY DEF BooksOK
<1>2. Rewritten(runs')
  <2>1. runs' = [known EXCEPT ![myRun] = Updated(@, st, TRUE)]
    BY DEF FailedStart
  <2>2. known \in Seq(Runs) /\ Len(known) = Len(runs)
    BY DEF Rewritten
  <2>3. runs' \in Seq(Runs) /\ Len(runs') = Len(known)
    BY <1>1, <2>1, <2>2, UpdateOne, TRUE \in BOOLEAN
  <2> QED BY <2>2, <2>3 DEF Rewritten
<1> QED BY <1>2, CallerBooks DEF FailedStart

\* A launch that failed keeps the books, whoever asked for it.
LEMMA StartFailsBooks ==
  ASSUME pc \in [Tasks -> Pcs], attempts \in 0..MaxAttempts, BooksOK, NEW known,
         Rewritten(known), NEW st \in States, NEW t \in Tasks, StartFails(t, known, st),
         active' = active
  PROVE  BooksOK'
<1>1. CASE t = Caller
  BY <1>1, FailedStartBooks DEF StartFails
<1>2. CASE t # Caller
  <2>1. t \in Loops /\ LoopKeeps /\ runs' = known
    BY <1>2, Names DEF StartFails
  <2>2. pc'[Caller] = pc[Caller]
    BY <2>1, StartFailsEnds, EndsApart
  <2>3. runs' \in Seq(Runs) /\ Len(runs') >= Len(runs) /\ active' \in 0..Len(runs')
    BY <2>1 DEF Rewritten, BooksOK
  <2> QED BY <2>1, <2>2, <2>3, LoopBooks
<1> QED BY <1>1, <1>2

\* So does a task that returns.
LEMMA LeavesBooks ==
  ASSUME pc \in [Tasks -> Pcs], attempts \in 0..MaxAttempts, BooksOK, NEW known,
         Rewritten(known), NEW t \in Tasks, Leaves(t), runs' = known, active' = active
  PROVE  BooksOK'
<1>1. CASE t = Caller
  <2>1. Release /\ keyFile' = keyFile
    BY <1>1 DEF Leaves
  <2> QED BY <2>1, CallerBooks DEF BooksOK
<1>2. CASE t # Caller
  <2>1. t \in Loops /\ LoopKeeps
    BY <1>2, Names DEF Leaves
  <2>2. pc'[Caller] = pc[Caller]
    BY <2>1, LeavesEnds, EndsApart
  <2>3. runs' \in Seq(Runs) /\ Len(runs') >= Len(runs) /\ active' \in 0..Len(runs')
    BY <2>1 DEF Rewritten, BooksOK
  <2> QED BY <2>1, <2>2, <2>3, LoopBooks
<1> QED BY <1>1, <1>2

\* A start that a restart goes on to keeps them, refused or not.
LEMMA StartRouterBooks ==
  ASSUME pc \in [Tasks -> Pcs], BooksOK, NEW known, Rewritten(known), NEW st \in States,
         StartRouter(st, known)
  PROVE  BooksOK'
<1>1. CASE Release /\ runs' = known /\ UNCHANGED <<active, keyFile>>
  BY <1>1, CallerBooks DEF BooksOK
<1>2. CASE /\ keyFile' = TRUE /\ runs' = Append(known, NewRun) /\ op' = "start"
           /\ active' = Len(known) + 1 /\ myRun' = Len(known) + 1
  <2>1. known \in Seq(Runs) /\ Len(known) \in Nat
    BY DEF Rewritten
  <2>2. runs' \in Seq(Runs) /\ Len(runs') = Len(known) + 1
    BY <1>2, <2>1, NewRunTyped
  <2>3. myRun' \in 0..Len(runs') /\ active' \in 0..Len(runs')
    BY <1>2, <2>1, <2>2
  <2> QED BY <1>2, <2>2, <2>3 DEF BooksOK, Ops
<1> QED BY <1>1, <1>2 DEF StartRouter

\* The records after _stop_process returned.
LEMMA StoppedRecords ==
  ASSUME pc \in [Tasks -> Pcs], attempts \in 0..MaxAttempts, BooksOK, NEW known,
         Rewritten(known), NEW st \in States, NEW heard \in States,
         heard = st \/ (heard = "CRASHED" /\ st = "STOPPED"), NEW t \in Tasks,
         t = Caller => op # "none", Stopped(t, st, heard, known)
  PROVE  RecordsOK'
<1>1. CASE t = Caller
  <2>1. state' = st /\ announced' = heard
    BY <1>1 DEF Stopped
  <2>2. CASE op = "stop"
    <3>1. Release /\ runs' = known /\ keyFile' = FALSE /\ active' = active
      BY <1>1, <2>2 DEF Stopped
    <3> QED BY <3>1, <2>1, CallerBooks DEF RecordsOK, StateHeard
  <2>3. CASE op = "restart"
    BY <1>1, <2>1, <2>3, StartRouterBooks DEF Stopped, RecordsOK, StateHeard
  <2>4. CASE op = "start"
    BY <1>1, <2>1, <2>4, FailedStartBooks DEF Stopped, RecordsOK, StateHeard
  <2> QED BY <1>1, <2>2, <2>3, <2>4 DEF BooksOK, Ops
<1>2. CASE t # Caller
  <2>1. /\ t \in Loops /\ LoopKeeps /\ LoopContinues(t, "CRASHED") /\ state' = "CRASHED"
        /\ announced' = "CRASHED" /\ runs' = Recorded(known, "CRASHED") /\ active' = active
    BY <1>2, Names DEF Stopped
  <2>2. pc'[Caller] = pc[Caller]
    BY <2>1, LoopContinuesEnds, EndsApart
  <2>3. Rewritten(runs')
    BY <2>1, RecordedRewrites DEF States, Down
  <2>4. runs' \in Seq(Runs) /\ Len(runs') >= Len(runs) /\ active' \in 0..Len(runs')
    BY <2>1, <2>3 DEF Rewritten, BooksOK
  <2>5. BooksOK'
    BY <2>1, <2>2, <2>4, LoopBooks
  <2> QED BY <2>1, <2>5 DEF RecordsOK, StateHeard, States, Down
<1> QED BY <1>1, <1>2

\* The records after it raised.
LEMMA StopFailsRecords ==
  ASSUME pc \in [Tasks -> Pcs], attempts \in 0..MaxAttempts, BooksOK, NEW known,
         Rewritten(known), NEW st \in States, NEW heard \in States,
         heard = st \/ (heard = "CRASHED" /\ st = "STOPPED"), NEW t \in Tasks,
         StopFails(t, st, heard, known)
  PROVE  RecordsOK'
<1>1. state' = st /\ announced' = heard /\ active' = active
  BY DEF StopFails
<1>2. BooksOK'
  <2>1. CASE t = Caller /\ op # "start"
    <3>1. Release /\ runs' = known /\ keyFile' = keyFile
      BY <2>1 DEF StopFails
    <3> QED BY <1>1, <3>1, CallerBooks DEF BooksOK
  <2>2. CASE ~(t = Caller /\ op # "start")
    <3>1. StartFails(t, known, st)
      BY <2>2 DEF StopFails
    <3> QED BY <1>1, <3>1, StartFailsBooks
  <2> QED BY <2>1, <2>2
<1> QED BY <1>1, <1>2 DEF RecordsOK, StateHeard

\* The records after its first step.
LEMMA StopProcessRecords ==
  ASSUME pc \in [Tasks -> Pcs], attempts \in 0..MaxAttempts, RecordsOK, NEW t \in Tasks,
         t = Caller => op # "none", StopProcess(t)
  PROVE  RecordsOK'
<1>0. BooksOK /\ state \in States /\ announced \in States /\ Rewritten(runs)
  BY DEF RecordsOK, BooksOK, Rewritten
<1>1. CASE state = "STOPPED" /\ Stopped(t, state, announced, runs)
  BY <1>0, <1>1, StoppedRecords DEF RecordsOK, StateHeard
<1>2. CASE state = "CRASHED" /\ Stopped(t, "STOPPED", announced, runs)
  <2>1. announced = "CRASHED" /\ "STOPPED" \in States
    BY <1>2 DEF RecordsOK, StateHeard, States, Down
  <2> QED BY <1>0, <1>2, <2>1, StoppedRecords
<1>3. CASE state = "STOPPING" /\ StopFails(t, state, announced, runs)
  <2>1. announced = state
    BY <1>3 DEF RecordsOK, StateHeard
  <2> QED BY <1>0, <1>3, <2>1, StopFailsRecords
<1>4. CASE StopFails(t, "CRASHED", "CRASHED", Recorded(runs, "CRASHED"))
  <2>1. "CRASHED" \in States
    BY DEF States, Down
  <2>2. Rewritten(Recorded(runs, "CRASHED"))
    BY <1>0, <2>1, RecordedRewrites
  <2> QED BY <1>0, <1>4, <2>1, <2>2, StopFailsRecords
<1>5. CASE SetState("STOPPING") /\ Suspend(t, "ending", proc) /\ LoopKeeps
  <2>1. "STOPPING" \in States
    BY DEF States
  <2>2. /\ state' = "STOPPING" /\ announced' = "STOPPING"
        /\ runs' \in Seq(Runs) /\ Len(runs') >= Len(runs) /\ active' \in 0..Len(runs')
    BY <1>0, <1>5, <2>1, NotifyKeeps DEF SetState
  <2>3. op' = op /\ myRun' = myRun /\ keyFile' = keyFile
    BY <1>5 DEF LoopKeeps
  <2>4. myRun' \in 0..Len(runs')
    BY <1>0, <2>2, <2>3 DEF BooksOK
  <2>5. op' = "none" => pc'[Caller] = "off"
    BY <1>0, <1>5, <2>3, Names DEF BooksOK, Suspend
  <2> QED BY <1>0, <2>1, <2>2, <2>3, <2>4, <2>5 DEF RecordsOK, BooksOK, StateHeard
<1> QED BY <1>1, <1>2, <1>3, <1>4, <1>5 DEF StopProcess

----------------------------------------------------------------------------
(* The types of the rest                                                   *)

\* The types of what the tasks and the processes go by.
ControlOK ==
  /\ proc \in Procs \union {NoProc} /\ watchTask \in Procs \union {NoProc}
  /\ enabled \in BOOLEAN /\ loop \in Loops \union {NoLoop} /\ attempts \in 0..MaxAttempts
  /\ life \in [Procs -> {"none", "running", "termed", "killed", "exited"}]
  /\ watch \in [Procs -> {"none", "on", "done", "failed", "cancelled"}]
  /\ pc \in [Tasks -> Pcs] /\ on \in [Tasks -> Procs \union {NoProc}]
  /\ cancelled \subseteq Loops /\ awaited \in Loops \union {NoLoop} /\ stray \in BOOLEAN

\* The caller's pc is off only when no operation is under way.
LEMMA Operating ==
  ASSUME RecordsOK, pc[Caller] # "off"
  PROVE  op \in {"start", "stop", "restart"}
BY DEF RecordsOK, BooksOK, Ops

\* A step that touches neither the books nor the state.
LEMMA QuietRecords ==
  ASSUME RecordsOK, UNCHANGED <<state, op, myRun, runs, active, announced, keyFile>>,
         op = "none" => pc'[Caller] = "off"
  PROVE  RecordsOK'
BY DEF RecordsOK, BooksOK, StateHeard

\* A change of state that is not a start opens no record.
LEMMA QuietNotify ==
  ASSUME BooksOK, NEW st \in States, st # "STARTING", Notify(st)
  PROVE  Rewritten(runs') /\ active' = active /\ announced' = st
<1>1. Rewritten(runs)
  BY DEF BooksOK, Rewritten
<1>2. runs' = Recorded(runs, st) /\ active' = active /\ announced' = st
  BY DEF Notify
<1> QED BY <1>1, <1>2, RecordedRewrites

\* A change of state by a step that leaves the operations alone.
LEMMA SetStateRecords ==
  ASSUME RecordsOK, NEW st \in States, SetState(st), UNCHANGED <<op, myRun, keyFile>>,
         op = "none" => pc'[Caller] = "off"
  PROVE  RecordsOK'
<1>1. BooksOK /\ Notify(st) /\ state' = st
  BY DEF RecordsOK, SetState
<1>2. /\ announced' = st
      /\ runs' \in Seq(Runs) /\ Len(runs') >= Len(runs) /\ active' \in 0..Len(runs')
  BY <1>1, NotifyKeeps
<1>3. myRun' \in 0..Len(runs')
  <2>1. myRun' = myRun /\ myRun \in 0..Len(runs) /\ Len(runs) \in Nat /\ Len(runs') \in Nat
    BY <1>1, <1>2 DEF BooksOK
  <2> QED BY <1>2, <2>1
<1> QED BY <1>1, <1>2, <1>3 DEF RecordsOK, BooksOK, StateHeard

\* ... and one that ends what a task does.
LEMMA ExitedEarlyRecords ==
  ASSUME ControlOK, RecordsOK, NEW t \in Tasks, NEW w, ExitedEarly(t, w)
  PROVE  RecordsOK'
<1>1. /\ BooksOK /\ Rewritten(runs) /\ state \in States /\ pc \in [Tasks -> Pcs]
      /\ attempts \in 0..MaxAttempts
  BY DEF RecordsOK, BooksOK, Rewritten, ControlOK
<1>2. /\ active' = active /\ state' = state /\ announced' = announced
      /\ StartFails(t, runs, state) \/ (Leaves(t) /\ runs' = runs)
  BY DEF ExitedEarly
<1>3. BooksOK'
  BY <1>1, <1>2, StartFailsBooks, LeavesBooks
<1> QED BY <1>2, <1>3 DEF RecordsOK, StateHeard

\* The records after it awaited the watch task.
LEMMA WatchJoinedRecords ==
  ASSUME ControlOK, RecordsOK, NEW t \in Tasks, t = Caller => op # "none", NEW w,
         NEW st \in States, NEW heard \in States, NEW known, Rewritten(known),
         heard = st \/ (heard = "CRASHED" /\ st = "STOPPED"),
         WatchJoined(t, w, st, heard, known)
  PROVE  RecordsOK'
<1>1. BooksOK /\ pc \in [Tasks -> Pcs] /\ attempts \in 0..MaxAttempts
  BY DEF RecordsOK, ControlOK
<1>2. CASE Stopped(t, st, heard, known)
  BY <1>1, <1>2, StoppedRecords
<1>3. CASE StopFails(t, st, heard, known)
  BY <1>1, <1>3, StopFailsRecords
<1>4. CASE Leaves(t) /\ state' = st /\ announced' = heard /\ runs' = known /\ active' = active
  BY <1>1, <1>4, LeavesBooks DEF RecordsOK, StateHeard
<1> QED BY <1>2, <1>3, <1>4 DEF WatchJoined

\* The records after stop(), which may have to cancel a loop first.
LEMMA StopRecords ==
  ASSUME ControlOK, RecordsOK, op # "none", Stop
  PROVE  RecordsOK'
<1>1. CASE CancelLoop("cancelStop")
  BY <1>1, QuietRecords DEF CancelLoop, records
<1>2. CASE StopProcess(Caller)
  BY <1>2, Names, StopProcessRecords DEF ControlOK
<1> QED BY <1>1, <1>2 DEF Stop

\* The records after the launcher was called.
LEMMA LaunchingRecords ==
  ASSUME RecordsOK, NEW t \in Tasks, t = Caller => op # "none", pc \in [Tasks -> Pcs],
         Launching(t)
  PROVE  RecordsOK'
<1>1. "STARTING" \in States /\ SetState("STARTING") /\ UNCHANGED <<op, myRun, keyFile>>
  BY DEF Launching, States
<1>2. op = "none" => pc'[Caller] = "off"
  BY Names DEF Launching, Suspend, RecordsOK, BooksOK
<1> QED BY <1>1, <1>2, SetStateRecords

\* The records after the launch was refused.
LEMMA LaunchRefusedRecords ==
  ASSUME ControlOK, RecordsOK, NEW t \in Tasks, LaunchRefused(t)
  PROVE  RecordsOK'
<1>1. /\ BooksOK /\ Rewritten(runs) /\ state \in States /\ pc \in [Tasks -> Pcs]
      /\ attempts \in 0..MaxAttempts
  BY DEF RecordsOK, BooksOK, Rewritten, ControlOK
<1>2. active' = active /\ state' = state /\ announced' = announced
  BY DEF LaunchRefused
<1>3. BooksOK'
  <2>1. CASE t = Caller
    BY <1>1, <1>2, <2>1, FailedStartBooks DEF LaunchRefused
  <2>2. CASE t # Caller
    BY <1>1, <1>2, <2>2, StartFailsBooks DEF LaunchRefused
  <2> QED BY <2>1, <2>2
<1> QED BY <1>2, <1>3 DEF RecordsOK, StateHeard

\* Every step of a task keeps the records typed, and the observer in step.
LEMMA TaskStepRecords ==
  ASSUME ControlOK, RecordsOK, NEW t \in Tasks, TaskStep(t)
  PROVE  RecordsOK'
<1>1. /\ BooksOK /\ Rewritten(runs) /\ state \in States /\ pc \in [Tasks -> Pcs]
      /\ attempts \in 0..MaxAttempts
  BY DEF RecordsOK, BooksOK, Rewritten, ControlOK
<1>2. pc[Caller] # "off" => op # "none"
  BY <1>1 DEF BooksOK
<1>3. CASE LaunchSucceeds(t)
  <2>1. At(t, {"launch"}) /\ state' = state
    BY <1>3 DEF LaunchSucceeds
  <2>2. CASE /\ state = "STARTING" /\ Notify(state) /\ Suspend(t, "poll", NoProc)
             /\ LoopKeeps
    <3>1. SetState(state) /\ UNCHANGED <<op, myRun, keyFile>>
      BY <2>1, <2>2 DEF SetState, LoopKeeps
    <3>2. op = "none" => pc'[Caller] = "off"
      BY <1>1, <1>2, <2>1, <2>2 DEF Suspend, At, BooksOK
    <3> QED BY <1>1, <3>1, <3>2, SetStateRecords
  <2>3. CASE /\ announced' = state /\ active' = active
             /\ StartFails(t, Recorded(runs, state), state)
    <3>1. Rewritten(Recorded(runs, state))
      BY <1>1, RecordedRewrites
    <3>2. BooksOK'
      BY <1>1, <2>3, <3>1, StartFailsBooks
    <3> QED BY <1>1, <2>1, <2>3, <3>2 DEF RecordsOK, StateHeard
  <2> QED BY <1>3, <2>2, <2>3 DEF LaunchSucceeds
<1>4. CASE LaunchFails(t)
  <2>1. /\ state' = "CRASHED" /\ announced' = "CRASHED" /\ active' = active
        /\ StartFails(t, Recorded(runs, "CRASHED"), "CRASHED")
    BY <1>4 DEF LaunchFails
  <2>2. "CRASHED" \in States
    BY DEF States, Down
  <2>3. Rewritten(Recorded(runs, "CRASHED"))
    BY <1>1, <2>2, RecordedRewrites
  <2>4. BooksOK'
    BY <1>1, <2>1, <2>2, <2>3, StartFailsBooks
  <2> QED BY <2>1, <2>2, <2>4 DEF RecordsOK, StateHeard
<1>5. CASE ProbeAnswers(t)
  <2>1. op = "none" => pc'[Caller] = "off"
    BY <1>1, <1>2, <1>5 DEF ProbeAnswers, Suspend, At, BooksOK
  <2> QED BY <1>5, <2>1, QuietRecords DEF ProbeAnswers, supervisor, records
<1>6. CASE MarkReady(t)
  <2>1. CASE SetState("READY") /\ Leaves(t)
    <3>1. state' = "READY" /\ Notify("READY") /\ "READY" \in States
      BY <2>1 DEF SetState, States
    <3>2. Rewritten(runs') /\ active' = active /\ announced' = "READY"
      BY <1>1, <3>1, QuietNotify
    <3>3. PICK known : known = runs'
      OBVIOUS
    <3>4. BooksOK'
      BY <1>1, <2>1, <3>2, <3>3, LeavesBooks
    <3> QED BY <3>1, <3>2, <3>4 DEF RecordsOK, StateHeard
  <2>2. CASE StartFails(t, runs, state) /\ UNCHANGED <<state, announced, active>>
    <3>1. BooksOK'
      BY <1>1, <2>2, StartFailsBooks
    <3> QED BY <2>2, <3>1 DEF RecordsOK, StateHeard
  <2> QED BY <1>6, <2>1, <2>2 DEF MarkReady
<1>7. CASE ProbeFails(t)
  <2>1. CASE ExitedEarly(t, watchTask)
    BY <2>1, ExitedEarlyRecords
  <2>2. CASE Suspend(t, "joinEarly", watchTask) /\ UNCHANGED <<supervisor, op, myRun, records, keyFile>>
    <3>1. op = "none" => pc'[Caller] = "off"
      BY <1>1, <1>2, <1>7, <2>2 DEF ProbeFails, Suspend, At, BooksOK
    <3> QED BY <2>2, <3>1, QuietRecords DEF supervisor, records
  <2> QED BY <1>7, <2>1, <2>2 DEF ProbeFails
<1>8. CASE JoinEarly(t)
  BY <1>8, ExitedEarlyRecords DEF JoinEarly
<1>9. CASE ReadyTimeout(t)
  <2>1. t = Caller => op # "none"
    BY <1>2, <1>9 DEF ReadyTimeout, At
  <2>2. CASE t = Caller
    BY <1>9, <2>1, <2>2, StopRecords DEF ReadyTimeout
  <2>3. CASE t # Caller
    BY <1>1, <1>9, <2>3, StopProcessRecords DEF ReadyTimeout
  <2> QED BY <2>2, <2>3
<1>10. CASE GraceTimeout(t)
  <2>1. op = "none" => pc'[Caller] = "off"
    BY <1>1, <1>2, <1>10 DEF GraceTimeout, Suspend, At, BooksOK
  <2> QED BY <1>10, <2>1, QuietRecords DEF GraceTimeout, supervisor, records
<1>11. CASE ProcessGone(t)
  <2> DEFINE st == IF state = "STOPPING" THEN "STOPPED" ELSE state
  <2> DEFINE heard == IF state = "STOPPING" THEN "STOPPED" ELSE announced
  <2> DEFINE known == IF state = "STOPPING" THEN Recorded(runs, "STOPPED") ELSE runs
  <2>1. "STOPPED" \in States
    BY DEF States, Down
  <2>2. st \in States /\ heard \in States /\ (heard = st \/ (heard = "CRASHED" /\ st = "STOPPED"))
    BY <2>1 DEF RecordsOK, StateHeard
  <2>3. Rewritten(known)
    BY <1>1, <2>1, RecordedRewrites
  <2>4. t = Caller => op # "none"
    BY <1>2, <1>11 DEF ProcessGone, At
  <2>5. \/ WatchJoined(t, watchTask, st, heard, known)
        \/ /\ state' = st /\ announced' = heard /\ runs' = known
           /\ Suspend(t, "joinWatch", watchTask) /\ LoopKeeps /\ active' = active
    BY <1>11 DEF ProcessGone
  <2> HIDE DEF st, heard, known
  <2>6. CASE WatchJoined(t, watchTask, st, heard, known)
    BY <2>2, <2>3, <2>4, <2>6, WatchJoinedRecords
  <2>7. CASE /\ state' = st /\ announced' = heard /\ runs' = known
             /\ Suspend(t, "joinWatch", watchTask) /\ LoopKeeps /\ active' = active
    <3>1. op' = op /\ myRun' = myRun /\ keyFile' = keyFile
      BY <2>7 DEF LoopKeeps
    <3>2. op = "none" => pc'[Caller] = "off"
      BY <1>1, <1>2, <2>4, <2>7 DEF Suspend, BooksOK
    <3> QED BY <1>1, <2>2, <2>3, <2>7, <3>1, <3>2 DEF RecordsOK, BooksOK, StateHeard, Rewritten
  <2> QED BY <2>5, <2>6, <2>7
<1>12. CASE JoinWatch(t)
  <2>1. t = Caller => op # "none"
    BY <1>2, <1>12 DEF JoinWatch, At
  <2>2. /\ WatchJoined(t, on[t], state, announced, runs)
        /\ announced \in States /\ (announced = state \/ (announced = "CRASHED" /\ state = "STOPPED"))
    BY <1>12 DEF JoinWatch, RecordsOK, StateHeard
  <2> QED BY <1>1, <2>1, <2>2, WatchJoinedRecords
<1> QED BY <1>3, <1>4, <1>5, <1>6, <1>7, <1>8, <1>9, <1>10, <1>11, <1>12 DEF TaskStep

\* ... and so does every other step.
LEMMA RecordsNext ==
  ASSUME ControlOK, RecordsOK, [Next]_vars
  PROVE  RecordsOK'
<1>1. /\ BooksOK /\ Rewritten(runs) /\ state \in States /\ pc \in [Tasks -> Pcs]
      /\ attempts \in 0..MaxAttempts /\ Caller \in Tasks /\ Loops \subseteq Tasks
      /\ Caller \notin Loops
  BY Names DEF RecordsOK, BooksOK, Rewritten, ControlOK
<1>2. pc[Caller] # "off" => op # "none"
  BY <1>1 DEF BooksOK
<1>3. CASE Request
  <2>1. op' \in Ops /\ op' # "none" /\ UNCHANGED <<state, myRun, runs, active, announced, keyFile>>
    BY <1>3 DEF Request, Ops, supervisor, records
  <2> QED BY <2>1 DEF RecordsOK, BooksOK, StateHeard
<1>4. CASE StartRequest
  <2>1. StartRouter(state, runs) /\ UNCHANGED <<state, announced>>
    BY <1>4 DEF StartRequest, supervisor
  <2> QED BY <1>1, <2>1, StartRouterBooks DEF RecordsOK, StateHeard
<1>5. CASE StopRequest
  BY <1>2, <1>5, StopRecords DEF StopRequest
<1>6. CASE PortTaken
  <2>1. /\ runs' = [runs EXCEPT ![myRun] = Updated(@, "CRASHED", TRUE)] /\ Release
        /\ UNCHANGED <<state, active, announced, keyFile>>
    BY <1>6 DEF PortTaken, supervisor
  <2>2. myRun \in Nat /\ runs \in Seq(Runs) /\ "CRASHED" \in States
    BY <1>1 DEF BooksOK, States, Down
  <2>3. Rewritten(runs')
    BY <2>1, <2>2, UpdateOne, TRUE \in BOOLEAN DEF Rewritten
  <2>4. keyFile' \in BOOLEAN
    BY <2>1 DEF RecordsOK, BooksOK
  <2>5. BooksOK'
    BY <1>1, <2>1, <2>3, <2>4, CallerBooks
  <2> QED BY <2>1, <2>5 DEF RecordsOK, StateHeard
<1>7. CASE BeginStart /\ pc[Caller] # "off"
  <2>1. CASE Launching(Caller)
    BY <1>1, <1>2, <1>7, <2>1, LaunchingRecords
  <2>2. CASE LaunchRefused(Caller)
    BY <1>1, <2>2, LaunchRefusedRecords
  <2> QED BY <1>7, <2>1, <2>2 DEF BeginStart
<1>8. CASE PortFree
  <2>1. pc[Caller] # "off"
    BY <1>8 DEF PortFree
  <2>2. CASE CancelLoop("cancelStart")
    BY <1>2, <2>1, <2>2, QuietRecords DEF CancelLoop, records
  <2> QED BY <1>7, <1>8, <2>1, <2>2 DEF PortFree
<1>9. CASE StartAfterCancelling
  BY <1>7, <1>9 DEF StartAfterCancelling
<1>10. CASE StopAfterCancelling
  BY <1>1, <1>2, <1>10, StopProcessRecords DEF StopAfterCancelling
<1>11. ASSUME NEW t \in Tasks, TaskStep(t) PROVE RecordsOK'
  BY <1>11, TaskStepRecords
<1>12. ASSUME NEW t \in Loops, LoopBegins(t) PROVE RecordsOK'
  <2>1. Ends(t) /\ UNCHANGED <<state, op, myRun, runs, active, announced, keyFile>>
    BY <1>1, <1>12, LoopContinuesEnds DEF LoopBegins, records
  <2>2. pc'[Caller] = pc[Caller]
    BY <1>1, <2>1, EndsApart
  <2> QED BY <1>1, <2>1, <2>2, QuietRecords DEF BooksOK
<1>13. ASSUME NEW t \in Loops, LoopWakes(t) PROVE RecordsOK'
  <2>1. t # Caller /\ t \in Tasks
    BY <1>1
  <2>2. CASE Leaves(t) /\ UNCHANGED <<state, records>>
    BY <1>1, <2>1, <2>2, LeavesBooks DEF RecordsOK, StateHeard, records
  <2>3. CASE Launching(t)
    BY <1>1, <2>1, <2>3, LaunchingRecords
  <2>4. CASE LaunchRefused(t)
    BY <2>1, <2>4, LaunchRefusedRecords
  <2> QED BY <1>13, <2>2, <2>3, <2>4 DEF LoopWakes
<1>14. ASSUME NEW t \in Loops, LoopCancelled(t) PROVE RecordsOK'
  <2>1. UNCHANGED <<state, op, myRun, runs, active, announced, keyFile>> /\ pc'[Caller] = pc[Caller]
    BY <1>1, <1>14 DEF LoopCancelled, Suspend, records
  <2> QED BY <1>1, <2>1, QuietRecords DEF BooksOK
<1>15. ASSUME pc'[Caller] = pc[Caller], UNCHANGED <<op, myRun, keyFile>>,
              NEW st \in States, SetState(st) PROVE RecordsOK'
  BY <1>1, <1>15, SetStateRecords DEF BooksOK
<1>16. ASSUME ScheduleRestart \/ UNCHANGED pc PROVE pc'[Caller] = pc[Caller]
  BY <1>1, <1>16 DEF ScheduleRestart, Suspend
<1>17. "STOPPED" \in States /\ "CRASHED" \in States /\ "DEGRADED" \in States
  BY DEF States, Down
<1>18. ASSUME NEW p \in Procs, Watch(p) PROVE RecordsOK'
  <2>1. UNCHANGED <<op, myRun, keyFile>> /\ pc'[Caller] = pc[Caller]
    BY <1>16, <1>18 DEF Watch
  <2>2. \/ UNCHANGED <<state, records>> \/ SetState("STOPPED") \/ SetState("CRASHED")
    BY <1>18 DEF Watch
  <2> QED BY <1>1, <1>15, <1>17, <2>1, <2>2, QuietRecords DEF records, BooksOK
<1>19. ASSUME NEW p \in Procs, WatchFails(p) PROVE RecordsOK'
  <2>1. UNCHANGED <<op, myRun, keyFile>> /\ pc'[Caller] = pc[Caller]
    BY <1>16, <1>19 DEF WatchFails
  <2>2. \/ UNCHANGED <<state, records>> \/ SetState("CRASHED")
    BY <1>19 DEF WatchFails
  <2> QED BY <1>1, <1>15, <1>17, <2>1, <2>2, QuietRecords DEF records, BooksOK
<1>20. CASE LogCaptureFails
  BY <1>15, <1>17, <1>20 DEF LogCaptureFails, tasks
<1>21. ASSUME NEW p \in Procs, Crash(p) \/ ObeysSignal(p) \/ Dies(p) PROVE RecordsOK'
  BY <1>1, <1>21, QuietRecords DEF Crash, ObeysSignal, Dies, Exits, supervisor, tasks, records, BooksOK
<1>22. CASE CancelCaller
  <2>1. Leaves(Caller) /\ UNCHANGED <<state, runs, active, announced>>
    BY <1>22 DEF CancelCaller, records
  <2> QED BY <1>1, <2>1, LeavesBooks DEF RecordsOK, StateHeard
<1>23. CASE UNCHANGED vars
  BY <1>1, <1>23, QuietRecords DEF vars, supervisor, tasks, records, BooksOK
<1> QED BY <1>3, <1>4, <1>5, <1>6, <1>8, <1>9, <1>10, <1>11, <1>12, <1>13, <1>14, <1>18,
           <1>19, <1>20, <1>21, <1>22, <1>23
        DEF Next, HttpNext, CallerStep, LoopTaskStep

----------------------------------------------------------------------------
(* The lifecycle                                                           *)

\* What LifecycleKept says of one step.
Moves ==
  \/ state' = state
  \/ MayBecome(state, state')
  \/ state = "STOPPED" /\ state' = "CRASHED"

\* A router may crash in any state.
LEMMA Crashes ==
  ASSUME state \in States, state' = "CRASHED"
  PROVE  Moves
BY DEF Moves, MayBecome, States, Down

\* The steps of _stop_process follow the table.
LEMMA StopMoves ==
  ASSUME state \in States, NEW t \in Tasks, StopEffect(t)
  PROVE  Moves
BY DEF StopEffect, Moves, MayBecome, States, Down, Up

\* Every step of a task follows the table.
LEMMA TaskStepMoves ==
  ASSUME ControlOK, RecordsOK, NEW t \in Tasks, TaskStep(t)
  PROVE  Moves
<1>1. state \in States /\ attempts \in 0..MaxAttempts
  BY DEF RecordsOK, ControlOK
<1>2. pc[Caller] # "off" => op \in {"start", "stop", "restart"}
  BY Operating
<1>3. CASE LaunchFails(t)
  BY <1>1, <1>3, Crashes DEF LaunchFails
<1>4. CASE MarkReady(t)
  BY <1>4 DEF MarkReady, SetState, Moves
<1>5. CASE ReadyTimeout(t)
  <2>1. t = Caller => op \in {"start", "stop", "restart"}
    BY <1>2, <1>5 DEF ReadyTimeout, At
  <2>2. CASE StopProcess(t)
    BY <1>1, <2>1, <2>2, StopProcessDoes, StopMoves
  <2>3. CASE CancelLoop("cancelStop")
    BY <2>3 DEF CancelLoop, Moves
  <2> QED BY <1>5, <2>2, <2>3 DEF ReadyTimeout, Stop
<1>6. CASE ProcessGone(t)
  <2> DEFINE st == IF state = "STOPPING" THEN "STOPPED" ELSE state
  <2> DEFINE heard == IF state = "STOPPING" THEN "STOPPED" ELSE announced
  <2> DEFINE known == IF state = "STOPPING" THEN Recorded(runs, "STOPPED") ELSE runs
  <2>1. t = Caller => op \in {"start", "stop", "restart"}
    BY <1>2, <1>6 DEF ProcessGone, At
  <2>2. WatchJoined(t, watchTask, st, heard, known) \/ state' = st
    BY <1>6 DEF ProcessGone
  <2>3. state' \in {st, "CRASHED"}
    BY <1>1, <2>1, <2>2, WatchJoinedDoes DEF JoinEffect
  <2>4. CASE state' = "CRASHED"
    BY <1>1, <2>4, Crashes
  <2>5. CASE state' = st
    BY <1>1, <2>5 DEF Moves, MayBecome
  <2> QED BY <2>3, <2>4, <2>5
<1>7. CASE JoinWatch(t)
  <2>1. t = Caller => op \in {"start", "stop", "restart"}
    BY <1>2, <1>7 DEF JoinWatch, At
  <2>2. WatchJoined(t, on[t], state, announced, runs)
    BY <1>7 DEF JoinWatch
  <2>3. state' \in {state, "CRASHED"}
    BY <1>1, <2>1, <2>2, WatchJoinedDoes DEF JoinEffect
  <2> QED BY <1>1, <2>3, Crashes DEF Moves
<1>8. CASE LaunchSucceeds(t) \/ ProbeAnswers(t) \/ ProbeFails(t) \/ JoinEarly(t) \/ GraceTimeout(t)
  <2>1. state' = state
    BY <1>8 DEF LaunchSucceeds, ProbeAnswers, ProbeFails, ExitedEarly, JoinEarly, GraceTimeout,
                supervisor
  <2> QED BY <2>1 DEF Moves
<1> QED BY <1>3, <1>4, <1>5, <1>6, <1>7, <1>8 DEF TaskStep

\* So does every other step.
LEMMA MovesNext ==
  ASSUME ControlOK, RecordsOK, [Next]_vars
  PROVE  Moves
<1>1. state \in States /\ attempts \in 0..MaxAttempts /\ Caller \in Tasks
  BY Names DEF RecordsOK, ControlOK
<1>2. pc[Caller] # "off" => op \in {"start", "stop", "restart"}
  BY Operating
<1>3. CASE Request \/ StartRequest \/ PortTaken \/ CancelCaller \/ UNCHANGED vars
  <2>1. state' = state
    BY <1>3 DEF Request, StartRequest, PortTaken, CancelCaller, vars, supervisor
  <2> QED BY <2>1 DEF Moves
<1>4. ASSUME StopProcess(Caller), pc[Caller] # "off" PROVE Moves
  BY <1>1, <1>2, <1>4, StopProcessDoes, StopMoves
<1>5. CASE StopRequest \/ StopAfterCancelling
  BY <1>4, <1>5 DEF StopRequest, StopAfterCancelling, Stop, CancelLoop, Moves
<1>6. ASSUME NEW t \in Tasks, Launching(t) \/ LaunchRefused(t) PROVE Moves
  BY <1>6 DEF Launching, LaunchRefused, SetState, Moves
<1>7. CASE PortFree \/ StartAfterCancelling
  <2>1. state' = state \/ Launching(Caller) \/ LaunchRefused(Caller)
    BY <1>7 DEF PortFree, StartAfterCancelling, BeginStart, CancelLoop
  <2> QED BY <1>1, <1>6, <2>1 DEF Moves
<1>8. ASSUME NEW t \in Tasks, TaskStep(t) PROVE Moves
  BY <1>8, TaskStepMoves
<1>9. ASSUME NEW t \in Loops, LoopTaskStep(t) PROVE Moves
  <2>1. state' = state \/ Launching(t) \/ LaunchRefused(t)
    BY <1>9 DEF LoopTaskStep, LoopBegins, LoopWakes, LoopCancelled
  <2> QED BY <1>6, <2>1, Names DEF Moves
<1>10. ASSUME NEW p \in Procs, Watch(p) \/ WatchFails(p) PROVE Moves
  <2>1. \/ state' = state \/ state' = "CRASHED"
        \/ state = "STOPPING" /\ state' = "STOPPED"
    BY <1>10 DEF Watch, WatchFails, SetState
  <2> QED BY <1>1, <2>1, Crashes DEF Moves, MayBecome
<1>11. CASE LogCaptureFails
  BY <1>11 DEF LogCaptureFails, SetState, Moves, MayBecome
<1>12. ASSUME NEW p \in Procs, Crash(p) \/ ObeysSignal(p) \/ Dies(p) PROVE Moves
  BY <1>12 DEF Crash, ObeysSignal, Dies, Exits, supervisor, Moves
<1> QED BY <1>3, <1>5, <1>7, <1>8, <1>9, <1>10, <1>11, <1>12
        DEF Next, HttpNext, CallerStep

----------------------------------------------------------------------------
(* Tasks and processes                                                     *)

\* The awaits of a process, or of its watch task.
Held == {"joinEarly", "joinWatch", "ending", "killing"}

TaskTypes ==
  /\ loop \in Loops \union {NoLoop} /\ attempts \in 0..MaxAttempts /\ stray \in BOOLEAN
  /\ pc \in [Tasks -> Pcs] /\ on \in [Tasks -> Procs \union {NoProc}]
  /\ cancelled \subseteq Loops /\ awaited \in Loops \union {NoLoop}

ProcessTypes ==
  /\ proc \in Procs \union {NoProc} /\ watchTask \in Procs \union {NoProc} /\ enabled \in BOOLEAN
  /\ life \in [Procs -> {"none", "running", "termed", "killed", "exited"}]
  /\ watch \in [Procs -> {"none", "on", "done", "failed", "cancelled"}]

\* The loop that is cancelled is the one the caller awaits, and neither it nor
\* the loop in _restart_task has ended; who awaits a process awaits a real one.
TrackOK ==
  /\ cancelled = (IF awaited = NoLoop THEN {} ELSE {awaited})
  /\ awaited # NoLoop => pc[Caller] \in {"cancelStart", "cancelStop"}
  /\ \A t \in cancelled : pc[t] # "off" /\ t # loop
  /\ LoopTracked
  /\ \A t \in Tasks : pc[t] \in Held => on[t] \in Procs /\ life[on[t]] # "none"

\* A process that was launched has a watch task, which ends after it; and no
\* more loops launched than there were launches.
LifeOK ==
  /\ relaunches \in 0..MaxLaunches
  /\ proc # NoProc => life[proc] # "none"
  /\ \A p \in Procs : /\ life[p] = "none" <=> watch[p] = "none"
                      /\ watch[p] \in {"done", "failed"} => life[p] = "exited"
                      /\ life[p] = "none" => relaunches < p

LifeGoesOn == \A p \in Procs : life[p] # "none" => life'[p] # "none"

\* The types, divided into those of the tasks and those of the processes.
LEMMA ControlParts == ControlOK <=> TaskTypes /\ ProcessTypes
BY DEF ControlOK, TaskTypes, ProcessTypes

\* Where a task that takes a step goes.
Shift(t) ==
  \E at \in Pcs, target \in Procs \union {NoProc} :
    /\ pc' = [pc EXCEPT ![t] = at] /\ on' = [on EXCEPT ![t] = target]
    /\ at \in Held => target \in Procs /\ life'[target] # "none"
    /\ t # Caller /\ at = "off" => loop' = NoLoop
    /\ loop' \in {loop, NoLoop} /\ attempts' \in 0..MaxAttempts /\ stray' \in BOOLEAN

\* No process has the name of none.
LEMMA NoProcIsNone == NoProc \in Procs \union {NoProc} /\ NoProc \notin Procs
BY LaunchesAssumption DEF NoProc, Procs

\* A task that ends what it does is one that goes somewhere.
LEMMA EndsShifts ==
  ASSUME TaskTypes, NEW t \in Tasks, Ends(t)
  PROVE  Shift(t)
<1>1. PICK at \in {"off", "probe", "sleep"} :
        /\ pc' = [pc EXCEPT ![t] = at] /\ on' = [on EXCEPT ![t] = NoProc]
        /\ \/ t = Caller /\ UNCHANGED tracking
           \/ t # Caller /\ at = "off" /\ Forgets(t) /\ attempts' \in 0..MaxAttempts
           \/ t # Caller /\ at = "sleep" /\ UNCHANGED <<loop, stray>> /\ attempts' \in 0..MaxAttempts
  BY DEF Ends
<1>2. at \in Pcs /\ at \notin Held
  BY DEF Pcs, Held
<1>3. loop' \in {loop, NoLoop} /\ attempts' \in 0..MaxAttempts /\ stray' \in BOOLEAN
  BY <1>1 DEF TaskTypes, tracking, Forgets
<1>4. t # Caller /\ at = "off" => loop' = NoLoop
  BY <1>1 DEF Forgets
<1> QED BY <1>1, <1>2, <1>3, <1>4, NoProcIsNone DEF Shift

\* Such a step keeps the tasks in order.
LEMMA ShiftTracks ==
  ASSUME TaskTypes, TrackOK, NEW t \in Tasks, t \notin cancelled,
         t = Caller => pc[Caller] \notin {"cancelStart", "cancelStop"} \/ awaited = NoLoop,
         Shift(t), UNCHANGED <<cancelled, awaited>>, LifeGoesOn
  PROVE  TaskTypes' /\ TrackOK'
<1>1. PICK at \in Pcs, target \in Procs \union {NoProc} :
        /\ pc' = [pc EXCEPT ![t] = at] /\ on' = [on EXCEPT ![t] = target]
        /\ at \in Held => target \in Procs /\ life'[target] # "none"
        /\ t # Caller /\ at = "off" => loop' = NoLoop
        /\ loop' \in {loop, NoLoop} /\ attempts' \in 0..MaxAttempts /\ stray' \in BOOLEAN
  BY DEF Shift
<1>2. pc \in [Tasks -> Pcs] /\ on \in [Tasks -> Procs \union {NoProc}]
  BY DEF TaskTypes
<1>3. TaskTypes'
  BY <1>1, <1>2 DEF TaskTypes
<1>4. awaited' # NoLoop => pc'[Caller] \in {"cancelStart", "cancelStop"}
  BY <1>1, <1>2, Names DEF TrackOK
<1>5. \A l \in cancelled' : pc'[l] # "off" /\ l # loop'
  BY <1>1, <1>2, Names DEF TrackOK, TaskTypes
<1>6. LoopTracked'
  BY <1>1, <1>2, Names DEF TrackOK, LoopTracked, TaskTypes
<1>7. \A u \in Tasks : pc'[u] \in Held => on'[u] \in Procs /\ life'[on'[u]] # "none"
  BY <1>1, <1>2 DEF TrackOK, LifeGoesOn
<1> QED BY <1>3, <1>4, <1>5, <1>6, <1>7 DEF TrackOK

\* So does one that is taken by no task.
LEMMA StillTracks ==
  ASSUME TaskTypes, TrackOK, UNCHANGED <<pc, on, cancelled, awaited, tracking>>, LifeGoesOn
  PROVE  TaskTypes' /\ TrackOK'
BY DEF TaskTypes, TrackOK, LoopTracked, LifeGoesOn, tracking

\* _cancel_restart hands the tracked loop over to the caller's await.
LEMMA CancelLoopTracks ==
  ASSUME TaskTypes, TrackOK, NEW at \in {"cancelStart", "cancelStop"}, CancelLoop(at),
         pc[Caller] \notin {"cancelStart", "cancelStop"}
  PROVE  TaskTypes' /\ TrackOK'
<1>1. /\ loop # NoLoop /\ loop' = NoLoop /\ cancelled' = cancelled \union {loop}
      /\ awaited' = loop /\ pc' = [pc EXCEPT ![Caller] = at] /\ on' = [on EXCEPT ![Caller] = NoProc]
      /\ attempts' = attempts /\ stray' = stray /\ life' = life
  BY DEF CancelLoop, Suspend
<1>2. cancelled = {} /\ loop \in Loops /\ pc \in [Tasks -> Pcs]
  BY <1>1 DEF TrackOK, TaskTypes
<1>3. at \in Pcs /\ at \notin Held
  BY DEF Pcs, Held
<1>4. TaskTypes'
  BY <1>1, <1>2, <1>3, NoProcIsNone DEF TaskTypes
<1>5. pc'[loop] # "off" /\ pc'[Caller] = at
  BY <1>1, <1>2, Names DEF TrackOK, LoopTracked
<1>6. \A u \in Tasks : pc'[u] \in Held => on'[u] \in Procs /\ life'[on'[u]] # "none"
  BY <1>1, <1>2, <1>3 DEF TrackOK, TaskTypes
<1> QED BY <1>1, <1>2, <1>4, <1>5, <1>6 DEF TrackOK, LoopTracked

\* A loop that is scheduled is tracked, and was not running.
LEMMA ScheduleTracks ==
  ASSUME TaskTypes, TrackOK, ScheduleRestart, UNCHANGED <<attempts, stray, cancelled, awaited>>,
         LifeGoesOn
  PROVE  TaskTypes' /\ TrackOK'
<1>1. CASE UNCHANGED <<loop, pc, on>>
  BY <1>1, StillTracks DEF tracking
<1>2. CASE \E t \in Loops : pc[t] = "off" /\ loop' = t /\ Suspend(t, "begin", NoProc)
  <2>1. PICK t \in Loops : pc[t] = "off" /\ loop' = t /\ Suspend(t, "begin", NoProc)
    BY <1>2
  <2>2. /\ pc \in [Tasks -> Pcs] /\ on \in [Tasks -> Procs \union {NoProc}] /\ t \in Tasks
        /\ t # Caller /\ NoLoop \notin Loops /\ Caller \in Tasks
    BY Names DEF TaskTypes
  <2>3. "begin" \in Pcs /\ "begin" \notin Held
    BY DEF Pcs, Held
  <2>4. TaskTypes'
    BY <2>1, <2>2, <2>3, NoProcIsNone DEF TaskTypes, Suspend
  <2>5. pc'[t] = "begin" /\ pc'[Caller] = pc[Caller] /\ t \notin cancelled
    BY <2>1, <2>2 DEF Suspend, TrackOK
  <2>6. \A l \in cancelled' : pc'[l] # "off" /\ l # loop'
    BY <2>1, <2>2, <2>5 DEF Suspend, TrackOK, TaskTypes
  <2>7. \A u \in Tasks : pc'[u] \in Held => on'[u] \in Procs /\ life'[on'[u]] # "none"
    BY <2>1, <2>2, <2>3 DEF TrackOK, TaskTypes, LifeGoesOn, Suspend
  <2> QED BY <2>1, <2>4, <2>5, <2>6, <2>7 DEF TrackOK, LoopTracked
<1> QED BY <1>1, <1>2 DEF ScheduleRestart

\* The cancellation of a loop is over when the caller goes on.
LEMMA LoopCancelledTracks ==
  ASSUME TaskTypes, TrackOK, NEW t \in Loops, LoopCancelled(t)
  PROVE  TaskTypes' /\ TrackOK'
<1>1. /\ t \in cancelled /\ cancelled' = cancelled \ {t} /\ life' = life /\ attempts' = attempts
      /\ pc' = [pc EXCEPT ![t] = "off"] /\ on' = [on EXCEPT ![t] = NoProc]
      /\ awaited' = IF awaited = t THEN NoLoop ELSE awaited
      /\ IF pc[t] = "begin" THEN UNCHANGED <<loop, stray>> ELSE Forgets(t)
  BY DEF LoopCancelled, Suspend, processes
<1>2. cancelled' = {} /\ awaited' = NoLoop /\ t # loop
  BY <1>1 DEF TrackOK
<1>3. "off" \in Pcs /\ "off" \notin Held /\ t \in Tasks
  BY Names DEF Pcs, Held
<1>4. TaskTypes'
  BY <1>1, <1>2, <1>3, NoProcIsNone DEF TaskTypes, Forgets
<1>5. LoopTracked'
  BY <1>1, <1>2 DEF LoopTracked, Forgets, TrackOK, TaskTypes
<1>6. \A u \in Tasks : pc'[u] \in Held => on'[u] \in Procs /\ life'[on'[u]] # "none"
  BY <1>1, <1>3 DEF TrackOK, TaskTypes
<1> QED BY <1>2, <1>4, <1>5, <1>6 DEF TrackOK

\* A step that launches no process: none comes to life, none comes back.
Onward ==
  /\ relaunches' \in {relaunches, 0} /\ proc' \in {proc, NoProc}
  /\ watchTask' \in {watchTask, NoProc} /\ enabled' \in BOOLEAN
  /\ life' \in [Procs -> {"none", "running", "termed", "killed", "exited"}]
  /\ watch' \in [Procs -> {"none", "on", "done", "failed", "cancelled"}]
  /\ \A p \in Procs :
       /\ life'[p] = "none" <=> life[p] = "none"
       /\ life[p] = "exited" => life'[p] = "exited"
       /\ watch'[p] = "none" <=> watch[p] = "none"
       /\ watch'[p] \in {"done", "failed"} => watch'[p] = watch[p] \/ life'[p] = "exited"

\* The count of relaunches may begin.
LEMMA ZeroLaunches == 0 \in 0..MaxLaunches /\ 0 \in Nat /\ MaxLaunches \in Nat
<1>1. MaxLaunches \in Nat
  BY LaunchesAssumption
<1> QED BY <1>1

\* Such a step keeps the processes in order.
LEMMA OnwardKeeps ==
  ASSUME ProcessTypes, LifeOK, Onward
  PROVE  ProcessTypes' /\ LifeOK' /\ LifeGoesOn
<1>1. ProcessTypes'
  BY NoProcIsNone DEF ProcessTypes, Onward
<1>2. relaunches' \in 0..MaxLaunches
  BY ZeroLaunches DEF Onward, LifeOK
<1>3. proc' # NoProc => life'[proc'] # "none"
  BY DEF Onward, LifeOK, ProcessTypes
<1>4. \A p \in Procs : /\ life'[p] = "none" <=> watch'[p] = "none"
                       /\ watch'[p] \in {"done", "failed"} => life'[p] = "exited"
  BY DEF Onward, LifeOK
<1>5. ASSUME NEW p \in Procs, life'[p] = "none" PROVE relaunches' < p
  <2>1. relaunches < p /\ p \in 1..MaxLaunches
    BY <1>5 DEF Onward, LifeOK, Procs
  <2> QED BY <2>1, ZeroLaunches DEF Onward
<1>6. LifeGoesOn
  BY DEF Onward, LifeGoesOn
<1> QED BY <1>1, <1>2, <1>3, <1>4, <1>5, <1>6 DEF LifeOK

\* Cancelling the watch tasks that a task awaits, or none.
LEMMA CancellingOnly ==
  ASSUME NEW w \in [Procs -> {"none", "on", "done", "failed", "cancelled"}],
         NEW u
  PROVE  /\ Cancelling(w, u) \in [Procs -> {"none", "on", "done", "failed", "cancelled"}]
         /\ \A p \in Procs : /\ Cancelling(w, u)[p] = "none" <=> w[p] = "none"
                             /\ Cancelling(w, u)[p] \in {"done", "failed"}
                                  => Cancelling(w, u)[p] = w[p]
                             /\ Cancelling(w, u)[p] = "on" => w[p] = "on"
BY DEF Cancelling

\* Nothing happens to the processes.
LEMMA ProcessesRest ==
  ASSUME ProcessTypes, LifeOK, UNCHANGED <<life, watch>>, relaunches' \in {relaunches, 0},
         proc' \in {proc, NoProc}, watchTask' \in {watchTask, NoProc}, enabled' \in BOOLEAN
  PROVE  Onward
BY DEF Onward, ProcessTypes

\* Watch tasks are cancelled, at most.
LEMMA WatchesRest ==
  ASSUME ProcessTypes, LifeOK, UNCHANGED <<life, proc, watchTask, relaunches>>,
         enabled' \in BOOLEAN, NEW u, NEW v,
         \/ watch' = watch \/ watch' = Cancelling(watch, u)
         \/ watch' = Cancelling(Cancelling(watch, u), v)
  PROVE  Onward
<1>1. watch \in [Procs -> {"none", "on", "done", "failed", "cancelled"}]
  BY DEF ProcessTypes
<1>2. CASE watch' = watch \/ watch' = Cancelling(watch, u)
  BY <1>1, <1>2, CancellingOnly DEF Onward, ProcessTypes
<1>3. CASE watch' = Cancelling(Cancelling(watch, u), v)
  <2>1. PICK w : w = Cancelling(watch, u)
    OBVIOUS
  <2>2. /\ w \in [Procs -> {"none", "on", "done", "failed", "cancelled"}]
        /\ \A p \in Procs : /\ w[p] = "none" <=> watch[p] = "none"
                            /\ w[p] \in {"done", "failed"} => w[p] = watch[p]
    BY <1>1, <2>1, CancellingOnly
  <2>3. watch' = Cancelling(w, v)
    BY <1>3, <2>1
  <2>4. /\ watch' \in [Procs -> {"none", "on", "done", "failed", "cancelled"}]
        /\ \A p \in Procs : /\ watch'[p] = "none" <=> w[p] = "none"
                            /\ watch'[p] \in {"done", "failed"} => watch'[p] = w[p]
    BY <2>2, <2>3, CancellingOnly
  <2> QED BY <2>2, <2>4 DEF Onward, ProcessTypes
<1> QED BY <1>2, <1>3

\* The signal of terminate_tree goes to a process that was launched.
LEMMA StopOnward ==
  ASSUME ProcessTypes, LifeOK, UNCHANGED <<proc, watchTask, relaunches>>, enabled' \in BOOLEAN,
         NEW t \in Tasks, StopEffect(t), NEW u,
         watch' = watch \/ watch' = Cancelling(watch, u)
  PROVE  Onward
<1>1. CASE life' = life
  BY <1>1, WatchesRest
<1>2. CASE proc # NoProc /\ life' = Terminated
  <2>1. /\ life \in [Procs -> {"none", "running", "termed", "killed", "exited"}]
        /\ watch \in [Procs -> {"none", "on", "done", "failed", "cancelled"}]
        /\ life' \in [Procs -> {"none", "running", "termed", "killed", "exited"}]
        /\ \A p \in Procs : /\ life'[p] = "none" <=> life[p] = "none"
                            /\ life[p] = "exited" => life'[p] = "exited"
    BY <1>2 DEF ProcessTypes, Terminated
  <2>2. /\ watch' \in [Procs -> {"none", "on", "done", "failed", "cancelled"}]
        /\ \A p \in Procs : /\ watch'[p] = "none" <=> watch[p] = "none"
                            /\ watch'[p] \in {"done", "failed"} => watch'[p] = watch[p]
    BY <2>1, CancellingOnly
  <2> QED BY <2>1, <2>2 DEF Onward
<1> QED BY <1>1, <1>2 DEF StopEffect

\* What holds of the tasks, the processes and the records together.
Sound == TaskTypes /\ ProcessTypes /\ TrackOK /\ LifeOK /\ RecordsOK

\* Who is about to stop the router for the caller does so in an operation.
LEMMA StopProcessEffect ==
  ASSUME Sound, NEW t \in Tasks, pc[t] # "off", StopProcess(t)
  PROVE  StopEffect(t)
<1>1. t = Caller => op \in {"start", "stop", "restart"}
  BY Operating DEF Sound
<1> QED BY <1>1, StopProcessDoes DEF Sound, TaskTypes, RecordsOK

\* stop() launches nothing.
LEMMA StopIsOnward ==
  ASSUME Sound, pc[Caller] # "off", Stop
  PROVE  Onward
<1>1. /\ ProcessTypes /\ LifeOK /\ Caller \in Tasks /\ enabled' \in BOOLEAN
      /\ UNCHANGED <<proc, watchTask, relaunches>>
  BY Names DEF Sound, Stop
<1>2. CASE CancelLoop("cancelStop")
  BY <1>1, <1>2, WatchesRest DEF CancelLoop
<1>3. CASE StopProcess(Caller) /\ watch' = Cancelling(watch, Caller)
  <2>1. StopEffect(Caller)
    BY <1>1, <1>3, StopProcessEffect
  <2> QED BY <1>1, <1>3, <2>1, StopOnward
<1> QED BY <1>2, <1>3 DEF Stop

\* Nor do the steps of a task, but for the one that does.
LEMMA TaskStepOnward ==
  ASSUME Sound, NEW t \in Tasks, TaskStep(t), ~LaunchSucceeds(t)
  PROVE  Onward
<1>1. /\ ProcessTypes /\ LifeOK /\ enabled \in BOOLEAN /\ attempts \in 0..MaxAttempts
      /\ state \in States
  BY DEF Sound, ProcessTypes, TaskTypes, RecordsOK
<1>2. pc[Caller] # "off" => op \in {"start", "stop", "restart"}
  BY Operating DEF Sound
<1>3. CASE LaunchFails(t) \/ ProbeAnswers(t) \/ MarkReady(t) \/ ProbeFails(t) \/ JoinEarly(t)
  <2>1. UNCHANGED <<life, watch, proc, watchTask, enabled, relaunches>>
    BY <1>3 DEF LaunchFails, ProbeAnswers, MarkReady, ProbeFails, JoinEarly, ExitedEarly,
                supervisor, processes
  <2> QED BY <1>1, <2>1, ProcessesRest
<1>4. CASE ReadyTimeout(t)
  <2>1. pc[t] # "off"
    BY <1>4 DEF ReadyTimeout, At
  <2>2. CASE t = Caller
    BY <1>4, <2>1, <2>2, StopIsOnward DEF ReadyTimeout
  <2>3. CASE t # Caller
    <3>1. /\ StopProcess(t) /\ watch' = Cancelling(watch, t)
          /\ UNCHANGED <<proc, watchTask, enabled, relaunches>>
      BY <1>4, <2>3 DEF ReadyTimeout
    <3>2. StopEffect(t) /\ enabled' \in BOOLEAN
      BY <1>1, <2>1, <3>1, StopProcessEffect
    <3> QED BY <1>1, <3>1, <3>2, StopOnward
  <2> QED BY <2>2, <2>3
<1>5. CASE GraceTimeout(t)
  <2>1. /\ life' = [life EXCEPT ![on[t]] = "killed"] /\ life[on[t]] # "exited"
        /\ pc[t] \in Held
        /\ UNCHANGED <<proc, watchTask, enabled, watch, relaunches>>
    BY <1>5 DEF GraceTimeout, supervisor, At, Held
  <2>2. on[t] \in Procs /\ life[on[t]] # "none"
    BY <2>1 DEF Sound, TrackOK
  <2> QED BY <1>1, <2>1, <2>2 DEF Onward, ProcessTypes
<1>6. ASSUME pc[t] # "off", NEW w, NEW st, NEW heard, NEW known,
             WatchJoined(t, w, st, heard, known)
      PROVE  watchTask' \in {watchTask, NoProc}
  BY <1>1, <1>2, <1>6, WatchJoinedDoes DEF JoinEffect
<1>7. CASE ProcessGone(t)
  <2>1. watchTask' \in {watchTask, NoProc}
    BY <1>6, <1>7 DEF ProcessGone, At
  <2> QED BY <1>1, <1>7, <2>1, ProcessesRest DEF ProcessGone, processes
<1>8. CASE JoinWatch(t)
  <2>1. watchTask' \in {watchTask, NoProc}
    BY <1>6, <1>8 DEF JoinWatch, At
  <2> QED BY <1>1, <1>8, <2>1, ProcessesRest DEF JoinWatch, processes
<1> QED BY <1>3, <1>4, <1>5, <1>7, <1>8 DEF TaskStep

\* A launch is of the next process.
LEMMA LaunchLife ==
  ASSUME Sound, NEW t \in Tasks, LaunchSucceeds(t)
  PROVE  ProcessTypes' /\ LifeOK' /\ LifeGoesOn
<1>1. PICK p \in Procs :
        /\ \A q \in Procs : life[q] = "none" <=> q >= p
        /\ life' = [life EXCEPT ![p] = "running"] /\ watch' = [watch EXCEPT ![p] = "on"]
        /\ proc' = p /\ watchTask' = p /\ enabled' = enabled
        /\ relaunches' = IF t = Caller THEN relaunches ELSE relaunches + 1
  BY DEF LaunchSucceeds
<1>2. /\ life \in [Procs -> {"none", "running", "termed", "killed", "exited"}]
      /\ watch \in [Procs -> {"none", "on", "done", "failed", "cancelled"}]
      /\ enabled \in BOOLEAN /\ relaunches \in 0..MaxLaunches
  BY DEF Sound, ProcessTypes, LifeOK
<1>3. MaxLaunches \in Nat /\ p \in 1..MaxLaunches /\ relaunches \in Nat /\ NoProc \notin Procs
      /\ p # NoProc
  BY <1>2, ZeroLaunches, NoProcIsNone DEF Procs
<1>4. life[p] = "none" /\ relaunches < p
  BY <1>1, <1>3 DEF Sound, LifeOK, Procs
<1>5. relaunches' \in 0..MaxLaunches /\ relaunches' <= p
  BY <1>1, <1>3, <1>4
<1>6. ProcessTypes'
  BY <1>1, <1>2, <1>3 DEF ProcessTypes
<1>7. \A q \in Procs : /\ life'[q] = "none" <=> watch'[q] = "none"
                       /\ watch'[q] \in {"done", "failed"} => life'[q] = "exited"
  BY <1>1, <1>2, <1>4 DEF Sound, LifeOK
<1>8. ASSUME NEW q \in Procs, life'[q] = "none" PROVE relaunches' < q
  <2>1. q # p /\ life[q] = "none" /\ q \in Nat
    BY <1>1, <1>2, <1>8 DEF Procs
  <2>2. q >= p
    BY <1>1, <2>1
  <2> QED BY <1>3, <1>5, <2>1, <2>2
<1>9. proc' # NoProc => life'[proc'] # "none"
  BY <1>1, <1>2
<1>10. LifeGoesOn
  BY <1>1, <1>2 DEF LifeGoesOn
<1> QED BY <1>5, <1>6, <1>7, <1>8, <1>9, <1>10 DEF LifeOK

\* Every step keeps the processes in order.
LEMMA LifeNext ==
  ASSUME Sound, [Next]_vars
  PROVE  ProcessTypes' /\ LifeOK' /\ LifeGoesOn
<1>1. /\ ProcessTypes /\ LifeOK /\ enabled \in BOOLEAN /\ Caller \in Tasks /\ Loops \subseteq Tasks
      /\ watch \in [Procs -> {"none", "on", "done", "failed", "cancelled"}]
      /\ life \in [Procs -> {"none", "running", "termed", "killed", "exited"}]
  BY Names DEF Sound, ProcessTypes
<1>2. CASE Request \/ StartRequest \/ PortTaken \/ LogCaptureFails
             \/ (\E t \in Loops : LoopTaskStep(t)) \/ UNCHANGED vars
  <2>1. UNCHANGED <<life, watch, proc, watchTask, enabled, relaunches>>
    BY <1>2 DEF Request, StartRequest, PortTaken, LogCaptureFails, LoopTaskStep, LoopBegins,
                LoopWakes, LoopCancelled, vars, supervisor, processes
  <2>2. Onward
    BY <1>1, <2>1, ProcessesRest
  <2> QED BY <1>1, <2>2, OnwardKeeps
<1>3. CASE BeginStart
  <2>1. Onward
    BY <1>1, <1>3, ProcessesRest DEF BeginStart, processes
  <2> QED BY <1>1, <2>1, OnwardKeeps
<1>4. CASE PortFree
  <2>1. CASE CancelLoop("cancelStart") /\ UNCHANGED <<proc, watchTask, enabled, relaunches>>
    <3>1. Onward
      BY <1>1, <2>1, WatchesRest DEF CancelLoop
    <3> QED BY <1>1, <3>1, OnwardKeeps
  <2> QED BY <1>3, <1>4, <2>1 DEF PortFree
<1>5. CASE StopRequest
  BY <1>1, <1>5, StopIsOnward, OnwardKeeps DEF StopRequest
<1>6. CASE StopAfterCancelling
  <2>1. StopEffect(Caller) /\ watch' = watch
    BY <1>1, <1>6, StopProcessEffect DEF StopAfterCancelling
  <2>2. Onward
    BY <1>1, <1>6, <2>1, StopOnward DEF StopAfterCancelling
  <2> QED BY <1>1, <2>2, OnwardKeeps
<1>7. CASE CancelCaller
  <2>1. Onward
    BY <1>1, <1>7, WatchesRest DEF CancelCaller
  <2> QED BY <1>1, <2>1, OnwardKeeps
<1>8. ASSUME NEW t \in Tasks, TaskStep(t) PROVE ProcessTypes' /\ LifeOK' /\ LifeGoesOn
  BY <1>1, <1>8, LaunchLife, TaskStepOnward, OnwardKeeps
<1>9. ASSUME NEW p \in Procs, Watch(p) \/ WatchFails(p)
      PROVE  ProcessTypes' /\ LifeOK' /\ LifeGoesOn
  <2>1. /\ life[p] = "exited" /\ watch[p] = "on"
        /\ watch' = [watch EXCEPT ![p] = "done"] \/ watch' = [watch EXCEPT ![p] = "failed"]
        /\ life' = life \/ (proc # NoProc /\ life[proc] # "exited"
                              /\ life' = [life EXCEPT ![proc] = "killed"])
        /\ UNCHANGED <<watchTask, enabled, relaunches>>
        /\ proc' \in {proc, NoProc}
    BY <1>9 DEF Watch, WatchFails, ScheduleRestart
  <2>2. proc # NoProc => proc \in Procs /\ life[proc] # "none"
    BY <1>1 DEF ProcessTypes, LifeOK
  <2>3. /\ life' \in [Procs -> {"none", "running", "termed", "killed", "exited"}]
        /\ \A q \in Procs : /\ life'[q] = "none" <=> life[q] = "none"
                            /\ life[q] = "exited" => life'[q] = "exited"
    BY <1>1, <2>1, <2>2
  <2>4. /\ watch' \in [Procs -> {"none", "on", "done", "failed", "cancelled"}]
        /\ \A q \in Procs :
             /\ watch'[q] = "none" <=> watch[q] = "none"
             /\ watch'[q] \in {"done", "failed"} => watch'[q] = watch[q] \/ life[q] = "exited"
    BY <1>1, <2>1
  <2>5. Onward
    BY <1>1, <2>1, <2>3, <2>4 DEF Onward
  <2> QED BY <1>1, <2>5, OnwardKeeps
<1>10. ASSUME NEW p \in Procs, Crash(p) \/ ObeysSignal(p) \/ Dies(p)
       PROVE  ProcessTypes' /\ LifeOK' /\ LifeGoesOn
  <2>1. /\ life[p] # "none" /\ life' = [life EXCEPT ![p] = "exited"]
        /\ UNCHANGED <<watch, proc, watchTask, enabled, relaunches>>
    BY <1>10 DEF Crash, ObeysSignal, Dies, Exits, supervisor
  <2>2. Onward
    BY <1>1, <2>1 DEF Onward, ProcessTypes
  <2> QED BY <1>1, <2>2, OnwardKeeps
<1>11. CASE StartAfterCancelling
  BY <1>3, <1>11 DEF StartAfterCancelling
<1> QED BY <1>2, <1>4, <1>5, <1>6, <1>7, <1>8, <1>9, <1>10, <1>11
        DEF Next, HttpNext, CallerStep

----------------------------------------------------------------------------
(* The tasks                                                               *)

\* A task that goes to another await, of no process.
LEMMA SuspendShifts ==
  ASSUME TaskTypes, NEW t \in Tasks, NEW at \in Pcs \ Held, at # "off", Suspend(t, at, NoProc),
         UNCHANGED tracking
  PROVE  Shift(t)
BY NoProcIsNone DEF Suspend, Shift, TaskTypes, tracking

\* A task that goes on to await a process.
LEMMA HoldShifts ==
  ASSUME TaskTypes, NEW t \in Tasks, NEW at \in Held, NEW p \in Procs, life'[p] # "none",
         Suspend(t, at, p), UNCHANGED tracking
  PROVE  Shift(t)
BY NoProcIsNone DEF Suspend, Shift, TaskTypes, tracking, Held, Pcs

\* The caller and the loops return.
LEMMA LeavesShifts ==
  ASSUME TaskTypes, NEW t \in Tasks, Leaves(t)
  PROVE  Shift(t)
BY LeavesEnds, EndsShifts DEF TaskTypes

\* So do those of a launch that failed.
LEMMA StartFailsShifts ==
  ASSUME TaskTypes, NEW t \in Tasks, NEW known, NEW st, StartFails(t, known, st)
  PROVE  Shift(t)
BY StartFailsEnds, EndsShifts DEF TaskTypes

\* So do they after the exit of a process that was never ready.
LEMMA ExitedEarlyShifts ==
  ASSUME TaskTypes, NEW t \in Tasks, NEW w, ExitedEarly(t, w)
  PROVE  Shift(t)
BY LeavesShifts, StartFailsShifts DEF ExitedEarly

\* _stop_process up to its wait.
LEMMA StopShifts ==
  ASSUME Sound, NEW t \in Tasks, StopEffect(t), LifeGoesOn
  PROVE  Shift(t)
<1>1. TaskTypes
  BY DEF Sound
<1>2. CASE Ends(t)
  BY <1>1, <1>2, EndsShifts
<1>3. CASE proc # NoProc /\ Suspend(t, "ending", proc) /\ UNCHANGED tracking
  <2>1. proc \in Procs /\ life'[proc] # "none"
    BY <1>3 DEF Sound, ProcessTypes, LifeOK, LifeGoesOn
  <2>2. "ending" \in Held
    BY DEF Held
  <2> QED BY <1>1, <1>3, <2>1, <2>2, HoldShifts
<1> QED BY <1>2, <1>3 DEF StopEffect

\* stop(), while the caller does not cancel a loop already.
LEMMA StopTracks ==
  ASSUME Sound, pc[Caller] \notin {"off", "cancelStart", "cancelStop"}, Stop, LifeGoesOn
  PROVE  TaskTypes' /\ TrackOK'
<1>1. TaskTypes /\ TrackOK /\ Caller \in Tasks /\ Caller \notin cancelled
  BY Names DEF Sound, TaskTypes
<1>2. CASE CancelLoop("cancelStop")
  BY <1>1, <1>2, CancelLoopTracks
<1>3. CASE StopProcess(Caller) /\ UNCHANGED <<cancelled, awaited>>
  <2>1. Shift(Caller)
    BY <1>1, <1>3, StopProcessEffect, StopShifts
  <2> QED BY <1>1, <1>3, <2>1, ShiftTracks
<1> QED BY <1>2, <1>3 DEF Stop

\* What the await of the watch task leads to.
LEMMA JoinShifts ==
  ASSUME Sound, NEW t \in Tasks, pc[t] # "off", NEW w, NEW st, NEW heard, NEW known,
         WatchJoined(t, w, st, heard, known)
  PROVE  Shift(t)
<1>1. t = Caller => op \in {"start", "stop", "restart"}
  BY Operating DEF Sound
<1>2. JoinEffect(t, w, st)
  BY <1>1, WatchJoinedDoes DEF Sound, TaskTypes
<1> QED BY <1>2, EndsShifts DEF JoinEffect, Sound

\* Every step of a task keeps the tasks in order.
LEMMA TaskStepTracks ==
  ASSUME Sound, NEW t \in Tasks, TaskStep(t), LifeGoesOn
  PROVE  TaskTypes' /\ TrackOK'
<1>1. TaskTypes /\ TrackOK /\ ProcessTypes /\ LifeOK
  BY DEF Sound
<1>2. /\ {"probed", "poll"} \subseteq Pcs \ Held /\ {"joinEarly", "killing", "joinWatch"} \subseteq Held
      /\ "poll" # "off" /\ "probed" # "off"
  BY DEF Pcs, Held
<1>3. ASSUME t \notin cancelled, pc[t] \notin {"cancelStart", "cancelStop"}, Shift(t),
             UNCHANGED <<cancelled, awaited>>
      PROVE  TaskTypes' /\ TrackOK'
  BY <1>1, <1>3, ShiftTracks
<1>4. ASSUME t = Caller \/ t # Caller, LoopKeeps, CallerKeeps PROVE UNCHANGED tracking
  BY <1>4 DEF CallerKeeps
<1>5. CASE LaunchSucceeds(t)
  <2>1. Shift(t)
    <3>1. CASE Suspend(t, "poll", NoProc) /\ CallerKeeps
      BY <1>1, <1>2, <3>1, SuspendShifts DEF CallerKeeps
    <3>2. CASE StartFails(t, Recorded(runs, state), state)
      BY <1>1, <3>2, StartFailsShifts
    <3> QED BY <1>5, <3>1, <3>2 DEF LaunchSucceeds
  <2> QED BY <1>3, <1>5, <2>1 DEF LaunchSucceeds, At
<1>6. CASE LaunchFails(t)
  BY <1>1, <1>3, <1>6, StartFailsShifts DEF LaunchFails, At
<1>7. CASE ProbeAnswers(t)
  <2>1. Suspend(t, "probed", NoProc) /\ UNCHANGED tracking
    BY <1>7 DEF ProbeAnswers, supervisor
  <2>2. Shift(t)
    BY <1>1, <1>2, <2>1, SuspendShifts
  <2> QED BY <1>3, <1>7, <2>2 DEF ProbeAnswers, At
<1>8. CASE MarkReady(t)
  <2>1. Shift(t)
    BY <1>1, <1>8, LeavesShifts, StartFailsShifts DEF MarkReady
  <2> QED BY <1>3, <1>8, <2>1 DEF MarkReady, At
<1>9. CASE ProbeFails(t)
  <2>1. CASE ExitedEarly(t, watchTask)
    <3>1. Shift(t) /\ UNCHANGED <<cancelled, awaited>>
      BY <1>1, <2>1, ExitedEarlyShifts DEF ExitedEarly
    <3> QED BY <1>3, <1>9, <3>1 DEF ProbeFails, At
  <2>2. CASE /\ Outcome(watchTask) = "on" /\ Suspend(t, "joinEarly", watchTask)
             /\ UNCHANGED <<supervisor, cancelled, awaited>>
    <3>1. watchTask \in Procs /\ life[watchTask] # "none"
      BY <1>1, <2>2 DEF Outcome, ProcessTypes, LifeOK
    <3>2. life'[watchTask] # "none" /\ UNCHANGED tracking
      BY <2>2, <3>1 DEF LifeGoesOn, supervisor
    <3>3. Shift(t)
      BY <1>1, <1>2, <2>2, <3>1, <3>2, HoldShifts
    <3> QED BY <1>3, <1>9, <2>2, <3>3 DEF ProbeFails, At
  <2> QED BY <1>9, <2>1, <2>2 DEF ProbeFails
<1>10. CASE JoinEarly(t)
  <2>1. Shift(t)
    BY <1>1, <1>10, ExitedEarlyShifts DEF JoinEarly
  <2> QED BY <1>3, <1>10, <2>1 DEF JoinEarly, ExitedEarly, At
<1>11. CASE ReadyTimeout(t)
  <2>1. t \notin cancelled /\ pc[t] \notin {"off", "cancelStart", "cancelStop"}
    BY <1>11 DEF ReadyTimeout, At
  <2>2. CASE t = Caller
    BY <1>11, <2>1, <2>2, StopTracks DEF ReadyTimeout
  <2>3. CASE t # Caller
    <3>1. StopProcess(t) /\ UNCHANGED <<cancelled, awaited>>
      BY <1>11, <2>3 DEF ReadyTimeout
    <3>2. Shift(t)
      BY <2>1, <3>1, StopProcessEffect, StopShifts
    <3> QED BY <1>3, <2>1, <3>1, <3>2
  <2> QED BY <2>2, <2>3
<1>12. CASE GraceTimeout(t)
  <2>1. /\ pc[t] \in Held /\ Suspend(t, "killing", on[t]) /\ UNCHANGED tracking
    BY <1>12 DEF GraceTimeout, At, Held, supervisor
  <2>2. on[t] \in Procs /\ life'[on[t]] # "none"
    BY <1>1, <2>1 DEF TrackOK, LifeGoesOn
  <2>3. Shift(t)
    BY <1>1, <1>2, <2>1, <2>2, HoldShifts
  <2> QED BY <1>3, <1>12, <2>3 DEF GraceTimeout, At
<1>13. CASE ProcessGone(t)
  <2>1. pc[t] \notin {"off", "cancelStart", "cancelStop"} /\ t \notin cancelled
        /\ UNCHANGED <<cancelled, awaited>>
    BY <1>13 DEF ProcessGone, At
  <2>2. \/ \E st, heard, known : WatchJoined(t, watchTask, st, heard, known)
        \/ Outcome(watchTask) = "on" /\ Suspend(t, "joinWatch", watchTask) /\ CallerKeeps
    BY <1>13 DEF ProcessGone
  <2>3. CASE \E st, heard, known : WatchJoined(t, watchTask, st, heard, known)
    BY <1>3, <2>1, <2>3, JoinShifts
  <2>4. CASE Outcome(watchTask) = "on" /\ Suspend(t, "joinWatch", watchTask) /\ CallerKeeps
    <3>1. watchTask \in Procs /\ life[watchTask] # "none"
      BY <1>1, <2>4 DEF Outcome, ProcessTypes, LifeOK
    <3>2. life'[watchTask] # "none" /\ UNCHANGED tracking
      BY <2>4, <3>1 DEF LifeGoesOn, CallerKeeps
    <3>3. Shift(t)
      BY <1>1, <1>2, <2>4, <3>1, <3>2, HoldShifts
    <3> QED BY <1>3, <2>1, <3>3
  <2> QED BY <2>2, <2>3, <2>4
<1>14. CASE JoinWatch(t)
  <2>1. pc[t] \notin {"off", "cancelStart", "cancelStop"} /\ t \notin cancelled
        /\ UNCHANGED <<cancelled, awaited>>
        /\ WatchJoined(t, on[t], state, announced, runs)
    BY <1>14 DEF JoinWatch, At
  <2> QED BY <1>3, <2>1, JoinShifts
<1> QED BY <1>5, <1>6, <1>7, <1>8, <1>9, <1>10, <1>11, <1>12, <1>13, <1>14 DEF TaskStep

\* Every other step does, too.
LEMMA TracksNext ==
  ASSUME Sound, [Next]_vars, LifeGoesOn
  PROVE  TaskTypes' /\ TrackOK'
<1>1. TaskTypes /\ TrackOK /\ Caller \in Tasks /\ Loops \subseteq Tasks /\ Caller \notin cancelled
      /\ Caller \notin Loops
  BY Names DEF Sound, TaskTypes
<1>2. /\ {"locked", "probe", "launch"} \subseteq Pcs \ Held
      /\ "locked" # "off" /\ "probe" # "off" /\ "launch" # "off" /\ "begin" # "off"
  BY DEF Pcs, Held
<1>3. ASSUME pc[Caller] \notin {"cancelStart", "cancelStop"} \/ awaited = NoLoop, Shift(Caller),
             UNCHANGED <<cancelled, awaited>>
      PROVE  TaskTypes' /\ TrackOK'
  BY <1>1, <1>3, ShiftTracks
<1>4. CASE Request
  <2>1. Suspend(Caller, "locked", NoProc) /\ UNCHANGED <<tracking, cancelled, awaited>>
        /\ pc[Caller] = "off"
    BY <1>4 DEF Request, supervisor
  <2>2. Shift(Caller)
    BY <1>1, <1>2, <2>1, SuspendShifts
  <2> QED BY <1>3, <2>1, <2>2
<1>5. ASSUME Release, UNCHANGED tracking PROVE Shift(Caller)
  <2>1. Ends(Caller)
    BY <1>5 DEF Release, Suspend, Ends
  <2> QED BY <1>1, <2>1, EndsShifts
<1>6. CASE StartRequest
  <2>1. StartRouter(state, runs) /\ UNCHANGED <<tracking, cancelled, awaited>>
        /\ pc[Caller] = "locked"
    BY <1>6 DEF StartRequest, supervisor
  <2>2. Shift(Caller)
    BY <1>1, <1>2, <1>5, <2>1, SuspendShifts DEF StartRouter
  <2> QED BY <1>3, <2>1, <2>2
<1>7. CASE StopRequest
  BY <1>7, StopTracks DEF StopRequest
<1>8. CASE PortTaken
  <2>1. Release /\ UNCHANGED <<tracking, cancelled, awaited>> /\ pc[Caller] = "probe"
    BY <1>8 DEF PortTaken, supervisor
  <2> QED BY <1>3, <1>5, <2>1
<1>9. ASSUME pc[Caller] \notin {"cancelStart", "cancelStop"} \/ awaited = NoLoop, BeginStart
      PROVE  TaskTypes' /\ TrackOK'
  <2>1. /\ loop' = loop /\ attempts' = 0 /\ UNCHANGED <<cancelled, awaited>>
        /\ stray' = (stray \/ \E t \in Loops : pc[t] # "off")
        /\ Launching(Caller) \/ LaunchRefused(Caller)
    BY <1>9 DEF BeginStart
  <2>2. stray' \in BOOLEAN /\ attempts' \in 0..MaxAttempts
    BY <2>1, AttemptsAssumption
  <2>3. \E at \in {"launch", "off"} : Suspend(Caller, at, NoProc)
    BY <2>1 DEF Launching, LaunchRefused, FailedStart, Release
  <2>4. "off" \in Pcs /\ "off" \notin Held
    BY DEF Pcs, Held
  <2>5. Shift(Caller)
    BY <1>2, <2>1, <2>2, <2>3, <2>4, NoProcIsNone DEF Suspend, Shift
  <2> QED BY <1>3, <1>9, <2>1, <2>5
<1>10. CASE PortFree
  <2>1. CASE CancelLoop("cancelStart")
    BY <1>1, <1>10, <2>1, CancelLoopTracks DEF PortFree
  <2> QED BY <1>9, <1>10, <2>1 DEF PortFree
<1>11. CASE StartAfterCancelling
  BY <1>9, <1>11 DEF StartAfterCancelling
<1>12. CASE StopAfterCancelling
  <2>1. /\ pc[Caller] # "off" /\ awaited = NoLoop /\ StopProcess(Caller)
        /\ UNCHANGED <<cancelled, awaited>>
    BY <1>12 DEF StopAfterCancelling
  <2>2. Shift(Caller)
    BY <1>1, <2>1, StopProcessEffect, StopShifts
  <2> QED BY <1>3, <2>1, <2>2
<1>13. CASE CancelCaller
  <2>1. Shift(Caller)
    BY <1>1, <1>13, LeavesShifts DEF CancelCaller
  <2> QED BY <1>3, <1>13, <2>1 DEF CancelCaller
<1>14. ASSUME NEW t \in Tasks, TaskStep(t) PROVE TaskTypes' /\ TrackOK'
  BY <1>14, TaskStepTracks
<1>15. ASSUME NEW t \in Loops, t \notin cancelled, Shift(t), UNCHANGED <<cancelled, awaited>>
       PROVE  TaskTypes' /\ TrackOK'
  BY <1>1, <1>15, ShiftTracks
<1>16. ASSUME NEW t \in Loops, LoopBegins(t) PROVE TaskTypes' /\ TrackOK'
  <2>1. Ends(t)
    BY <1>1, <1>16, LoopContinuesEnds DEF LoopBegins, TaskTypes
  <2> QED BY <1>1, <1>15, <1>16, <2>1, EndsShifts DEF LoopBegins, At
<1>17. ASSUME NEW t \in Loops, LoopWakes(t) PROVE TaskTypes' /\ TrackOK'
  <2>0. t \in Tasks /\ t # Caller
    BY <1>1
  <2>1. CASE Leaves(t)
    BY <1>1, <1>15, <1>17, <2>0, <2>1, LeavesShifts DEF LoopWakes, At
  <2>2. CASE Launching(t) /\ UNCHANGED tracking
    <3>1. Shift(t)
      BY <1>1, <1>2, <2>0, <2>2, SuspendShifts DEF Launching
    <3> QED BY <1>15, <1>17, <3>1 DEF LoopWakes, At
  <2>3. CASE LaunchRefused(t)
    <3>1. Shift(t)
      BY <1>1, <2>0, <2>3, StartFailsShifts DEF LaunchRefused
    <3> QED BY <1>15, <1>17, <3>1 DEF LoopWakes, At
  <2> QED BY <1>17, <2>1, <2>2, <2>3 DEF LoopWakes
<1>18. ASSUME NEW t \in Loops, LoopCancelled(t) PROVE TaskTypes' /\ TrackOK'
  BY <1>1, <1>18, LoopCancelledTracks
<1>19. ASSUME NEW p \in Procs, Watch(p) \/ WatchFails(p) PROVE TaskTypes' /\ TrackOK'
  <2>1. UNCHANGED <<attempts, stray, cancelled, awaited>>
    BY <1>19 DEF Watch, WatchFails
  <2>2. ScheduleRestart \/ UNCHANGED <<loop, pc, on>>
    BY <1>19 DEF Watch, WatchFails
  <2> QED BY <1>1, <2>1, <2>2, ScheduleTracks, StillTracks DEF tracking
<1>20. CASE LogCaptureFails \/ UNCHANGED vars
  <2>1. UNCHANGED <<pc, on, cancelled, awaited, tracking>>
    BY <1>20 DEF LogCaptureFails, vars, supervisor, tasks
  <2> QED BY <1>1, <2>1, StillTracks
<1>21. ASSUME NEW p \in Procs, Crash(p) \/ ObeysSignal(p) \/ Dies(p)
       PROVE  TaskTypes' /\ TrackOK'
  <2>1. UNCHANGED <<pc, on, cancelled, awaited, tracking>>
    BY <1>21 DEF Crash, ObeysSignal, Dies, Exits, supervisor, tasks
  <2> QED BY <1>1, <2>1, StillTracks
<1> QED BY <1>4, <1>6, <1>7, <1>8, <1>10, <1>11, <1>12, <1>13, <1>14, <1>16, <1>17, <1>18,
           <1>19, <1>20, <1>21
        DEF Next, HttpNext, CallerStep, LoopTaskStep

----------------------------------------------------------------------------
(* The supervisor and its processes, while no restart loop has strayed     *)

\* The awaits of _stop_process, and of _stop_process or of the launcher.
Ending == {"ending", "killing", "joinWatch"}
Busy == Ending \union {"launch"}

\* The one loop that runs is the tracked one, and it does not while the caller
\* launches or stops the router; no loop is scheduled while the caller stops it.
Alone ==
  /\ \A t \in Loops \ cancelled : pc[t] # "off" => t = loop
  /\ pc[Caller] \in Busy => \A t \in Loops : pc[t] = "off"
  /\ pc[Caller] \in Ending \union {"cancelStop"} => ~enabled /\ loop = NoLoop

\* The process p is gone and _stop_process awaits its watch task.
Leaving(p) ==
  /\ p # proc /\ state = "STOPPED" /\ life[p] = "exited"
  /\ \E t \in Tasks \ cancelled : pc[t] = "joinWatch" /\ on[t] = p

\* A watch task that runs is that of the process the supervisor holds, or of
\* one that _stop_process has seen exit.
WatchesOK ==
  \A p \in Procs :
    watch[p] = "on" => (p = proc /\ p = watchTask /\ state \notin Down) \/ Leaving(p)

\* A process that is alive is watched.
LiveWatched == \A p \in Procs : life[p] \in {"running", "termed", "killed"} => watch[p] = "on"

\* Watch tasks are only awaited once their process has exited.
JoinsOK == \A t \in Tasks : pc[t] \in {"joinEarly", "joinWatch"} => life[on[t]] = "exited"

\* What a task that launches or stops the router can count on.
BusyOK ==
  \A t \in Tasks \ cancelled :
    /\ pc[t] = "joinWatch" => state = "STOPPED"
    /\ pc[t] \in {"ending", "killing"} => proc = on[t] /\ state \in {"STOPPING", "STOPPED"}
    /\ pc[t] = "launch" => state \in Up /\ \A p \in Procs : watch[p] # "on"

Watched == WatchesOK /\ LiveWatched /\ JoinsOK /\ BusyOK

\* Every launch by a loop was counted as an attempt first.
BudgetOK ==
  ~WindowPasses =>
    /\ relaunches <= attempts
    /\ loop # NoLoop /\ pc[loop] \in {"sleep", "launch"} => relaunches < attempts

InHand == Alone /\ Watched /\ BudgetOK

\* No other task is launching or stopping the router.
OthersCalm(t) == \A u \in Tasks \ cancelled : u # t => pc[u] \notin Busy

\* A loop that runs excludes the caller, and the caller excludes the loops.
LEMMA LoopIsAlone ==
  ASSUME Sound, Alone, NEW t \in Loops, t \notin cancelled, pc[t] # "off"
  PROVE  t = loop /\ OthersCalm(t) /\ pc[Caller] \notin Busy /\ pc[Caller] # "cancelStop"
<1>1. t = loop /\ pc[Caller] \notin Busy
  BY DEF Alone
<1>2. \A u \in Tasks \ cancelled : u # t /\ u # Caller => pc[u] = "off"
  BY <1>1, Names DEF Alone
<1>3. "off" \notin Busy
  BY DEF Busy, Ending
<1> QED BY <1>1, <1>2, <1>3, Names DEF OthersCalm, Alone

\* When no loop is tracked and none is being cancelled, none runs.
LEMMA CallerIsAlone ==
  ASSUME Sound, Alone, loop = NoLoop, cancelled = {}
  PROVE  (\A t \in Loops : pc[t] = "off") /\ OthersCalm(Caller)
<1>1. \A t \in Loops : pc[t] = "off"
  BY Names DEF Alone
<1>2. "off" \notin Busy
  BY DEF Busy, Ending
<1> QED BY <1>1, <1>2, Names DEF OthersCalm

\* So at most one of them is.
LEMMA BusyIsAlone ==
  ASSUME Sound, Alone, NEW t \in Tasks, t \notin cancelled, pc[t] \in Busy
  PROVE  OthersCalm(t)
<1>1. CASE t = Caller
  <2>1. \A l \in Loops : pc[l] = "off"
    BY <1>1 DEF Alone
  <2> QED BY <1>1, <2>1, Names DEF OthersCalm, Busy, Ending
<1>2. CASE t # Caller
  BY <1>2, LoopIsAlone, Names DEF Busy, Ending
<1> QED BY <1>1, <1>2

\* No cancellation is pending unless the caller awaits it.
LEMMA NothingPending ==
  ASSUME Sound, pc[Caller] \notin {"cancelStart", "cancelStop"} \/ awaited = NoLoop
  PROVE  cancelled = {}
BY DEF Sound, TrackOK

\* A step by which one task goes to another await keeps the tasks apart.
LEMMA StepAlone ==
  ASSUME Sound, Alone, NEW t \in Tasks, t \notin cancelled, NEW at,
         pc' = [pc EXCEPT ![t] = at], cancelled' = cancelled,
         t # Caller => /\ pc[t] # "off" /\ enabled' = enabled
                       /\ loop' = IF at = "off" THEN NoLoop ELSE loop,
         t = Caller => /\ loop' = loop
                       /\ at \in Busy => \A l \in Loops : pc[l] = "off"
                       /\ at \in Ending \union {"cancelStop"} => ~enabled' /\ loop = NoLoop
  PROVE  Alone'
<1>1. pc \in [Tasks -> Pcs] /\ Caller \in Tasks
  BY Names DEF Sound, TaskTypes
<1>2. CASE t = Caller
  BY <1>1, <1>2, Names DEF Alone
<1>3. CASE t # Caller
  <2>1. t \in Loops
    BY <1>3, Names
  <2>2. t = loop /\ pc[Caller] \notin Busy /\ pc'[Caller] = pc[Caller] /\ loop' \in {loop, NoLoop}
    BY <1>1, <1>3, <2>1, LoopIsAlone
  <2>3. \A u \in Loops \ cancelled' : pc'[u] # "off" => u = loop'
    BY <1>1, <1>3, <2>1, <2>2, Names DEF Alone
  <2>4. pc'[Caller] \in Ending \union {"cancelStop"} => ~enabled' /\ loop' = NoLoop
    BY <1>3, <2>2 DEF Alone
  <2> QED BY <2>2, <2>3, <2>4 DEF Alone
<1> QED BY <1>2, <1>3

\* A step that ends what a task does.
LEMMA EndsAlone ==
  ASSUME Sound, Alone, NEW t \in Tasks, t \notin cancelled, pc[t] # "off", Ends(t),
         cancelled' = cancelled, t # Caller => enabled' = enabled
  PROVE  Alone'
<1>1. PICK at \in {"off", "probe", "sleep"} :
        /\ pc' = [pc EXCEPT ![t] = at]
        /\ \/ t = Caller /\ at # "sleep" /\ UNCHANGED tracking
           \/ t # Caller /\ at = "off" /\ Forgets(t)
           \/ t # Caller /\ at = "sleep" /\ loop' = loop
  BY DEF Ends
<1>2. at \notin Busy /\ at \notin Ending \union {"cancelStop"}
  BY <1>1 DEF Busy, Ending
<1>3. t # Caller => loop' = IF at = "off" THEN NoLoop ELSE loop
  BY <1>1 DEF Forgets
<1>4. t = Caller => loop' = loop
  BY <1>1 DEF tracking
<1> QED BY <1>1, <1>2, <1>3, <1>4, StepAlone

\* A task that neither launches nor stops the router goes to such an await.
LEMMA CalmStep ==
  ASSUME Sound, Watched, NEW t \in Tasks, t \notin cancelled, pc[t] # "joinWatch", NEW at,
         at \notin Busy \union {"joinEarly"}, pc' = [pc EXCEPT ![t] = at],
         NEW target, on' = [on EXCEPT ![t] = target],
         UNCHANGED <<life, watch, proc, watchTask, cancelled>>,
         state' = state \/ (state \in Up /\ state' \in Up)
  PROVE  Watched'
<1>1. pc \in [Tasks -> Pcs] /\ on \in [Tasks -> Procs \union {NoProc}]
  BY DEF Sound, TaskTypes
<1>2. "launch" \in Busy /\ "ending" \in Busy /\ "killing" \in Busy /\ "joinWatch" \in Busy
  BY DEF Busy, Ending
<1>3. state \in Up => state \notin Down /\ state \notin {"STOPPED", "STOPPING"}
  BY DEF Up, Down
<1>4. state' \in Up => state' \notin Down
  BY DEF Up, Down
<1>5. WatchesOK'
  <2>1. ASSUME NEW p \in Procs, Leaving(p), state' = state PROVE Leaving(p)'
    BY <1>1, <2>1 DEF Leaving
  <2>2. ASSUME NEW p \in Procs, watch'[p] = "on"
        PROVE  (p = proc' /\ p = watchTask' /\ state' \notin Down) \/ Leaving(p)'
    <3>1. (p = proc /\ p = watchTask /\ state \notin Down) \/ Leaving(p)
      BY <2>2 DEF Watched, WatchesOK
    <3>2. Leaving(p) => state' = state
      BY <1>3 DEF Leaving
    <3> QED BY <1>4, <2>1, <3>1, <3>2
  <2> QED BY <2>2 DEF WatchesOK
<1>6. LiveWatched'
  BY DEF Watched, LiveWatched
<1>7. JoinsOK'
  BY <1>1, <1>2 DEF Watched, JoinsOK
<1>8. BusyOK'
  BY <1>1, <1>2, <1>3 DEF Watched, BusyOK
<1> QED BY <1>5, <1>6, <1>7, <1>8 DEF Watched

\* A step after which no watch task runs, nor any process.
LEMMA ClearStep ==
  ASSUME Sound, Watched, NEW t \in Tasks, t \notin cancelled, OthersCalm(t), NEW at,
         at \notin Busy \union {"joinEarly"}, pc' = [pc EXCEPT ![t] = at],
         NEW target, on' = [on EXCEPT ![t] = target],
         UNCHANGED <<life, watch, cancelled>>, \A p \in Procs : watch[p] # "on"
  PROVE  Watched'
<1>1. pc \in [Tasks -> Pcs] /\ on \in [Tasks -> Procs \union {NoProc}]
  BY DEF Sound, TaskTypes
<1>2. "launch" \in Busy /\ "ending" \in Busy /\ "killing" \in Busy /\ "joinWatch" \in Busy
  BY DEF Busy, Ending
<1>3. WatchesOK' /\ LiveWatched'
  BY DEF Watched, WatchesOK, LiveWatched
<1>4. JoinsOK'
  BY <1>1, <1>2 DEF Watched, JoinsOK
<1>5. BusyOK'
  BY <1>1, <1>2 DEF OthersCalm, BusyOK
<1> QED BY <1>3, <1>4, <1>5 DEF Watched

\* The task returns, or goes on to try again.
LEMMA EndsWatched ==
  ASSUME Sound, Watched, NEW t \in Tasks, t \notin cancelled, Ends(t), UNCHANGED <<life, watch, cancelled>>,
         \/ /\ pc[t] # "joinWatch" /\ UNCHANGED <<proc, watchTask>>
            /\ state' = state \/ (state \in Up /\ state' \in Up)
         \/ OthersCalm(t) /\ \A p \in Procs : watch[p] # "on"
  PROVE  Watched'
<1>1. PICK at \in {"off", "probe", "sleep"} :
        pc' = [pc EXCEPT ![t] = at] /\ on' = [on EXCEPT ![t] = NoProc]
  BY DEF Ends
<1>2. at \notin Busy \union {"joinEarly"}
  BY <1>1 DEF Busy, Ending
<1> QED BY <1>1, <1>2, CalmStep, ClearStep

\* Passing a cancellation on to a watch task that task t awaits.
LEMMA CancellingStops ==
  ASSUME Sound, JoinsOK, NEW t \in Tasks,
         NEW w \in [Procs -> {"none", "on", "done", "failed", "cancelled"}]
  PROVE  /\ \A p \in Procs : Cancelling(w, t)[p] = "on" => w[p] = "on"
         /\ \A p \in Procs : /\ life[p] # "exited" => Cancelling(w, t)[p] = w[p]
                             /\ pc[t] = "joinWatch" /\ on[t] = p => Cancelling(w, t)[p] # "on"
<1>1. pc[t] \in {"joinEarly", "joinWatch"} => on[t] \in Procs /\ life[on[t]] = "exited"
  BY DEF JoinsOK, Sound, TrackOK, Held
<1> QED BY <1>1 DEF Cancelling

\* A watch task that runs belongs to the process the supervisor holds while no
\* other task stops it.
LEMMA WatchIsCurrent ==
  ASSUME Watched, NEW t \in Tasks, t \notin cancelled, OthersCalm(t), pc[t] # "joinWatch",
         NEW p \in Procs, watch[p] = "on"
  PROVE  p = proc /\ p = watchTask /\ state \notin Down
<1>1. ~Leaving(p)
  BY DEF Leaving, OthersCalm, Busy, Ending
<1> QED BY <1>1 DEF Watched, WatchesOK

\* _stop_process, up to its wait.
LEMMA StopEffectWatched ==
  ASSUME Sound, Watched, NEW t \in Tasks, t \notin cancelled, OthersCalm(t), pc[t] # "joinWatch",
         StopEffect(t), UNCHANGED <<proc, watchTask, cancelled>>,
         watch' = watch \/ watch' = Cancelling(watch, t)
  PROVE  Watched'
<1>1. /\ pc \in [Tasks -> Pcs] /\ on \in [Tasks -> Procs \union {NoProc}]
      /\ life \in [Procs -> {"none", "running", "termed", "killed", "exited"}]
      /\ watch \in [Procs -> {"none", "on", "done", "failed", "cancelled"}]
      /\ state \in States /\ proc \in Procs \union {NoProc}
  BY DEF Sound, TaskTypes, ProcessTypes, RecordsOK
<1>2. "launch" \in Busy /\ "ending" \in Busy /\ "killing" \in Busy /\ "joinWatch" \in Busy
  BY DEF Busy, Ending
<1>3. \A p \in Procs : /\ watch'[p] = "on" => watch[p] = "on"
                       /\ life[p] # "exited" => watch'[p] = watch[p]
  BY <1>1, CancellingStops DEF Watched
<1>4. \A p \in Procs : watch[p] = "on" => p = proc /\ p = watchTask /\ state \notin Down
  BY WatchIsCurrent
<1>5. \A p \in Procs : /\ life'[p] \in {"running", "termed", "killed"}
                            => life[p] \in {"running", "termed", "killed"}
                       /\ life[p] = "exited" => life'[p] = "exited"
  BY <1>1 DEF StopEffect, Terminated
<1>6. LiveWatched'
  BY <1>3, <1>5 DEF Watched, LiveWatched
<1>7. CASE Ends(t) /\ (state' = state \/ \A p \in Procs : watch[p] # "on")
  <2>1. PICK at \in {"off", "probe", "sleep"} :
          pc' = [pc EXCEPT ![t] = at] /\ on' = [on EXCEPT ![t] = NoProc]
    BY <1>7 DEF Ends
  <2>2. at \notin Busy \union {"joinEarly"}
    BY <2>1 DEF Busy, Ending
  <2>3. WatchesOK'
    BY <1>3, <1>4, <1>7 DEF WatchesOK
  <2>4. JoinsOK'
    BY <1>1, <1>2, <1>5, <2>1, <2>2 DEF Watched, JoinsOK, Sound, TrackOK, Held
  <2>5. BusyOK'
    BY <1>1, <1>2, <2>1, <2>2 DEF OthersCalm, BusyOK
  <2> QED BY <1>6, <2>3, <2>4, <2>5 DEF Watched
<1>8. CASE state' = "STOPPING" /\ proc # NoProc /\ Suspend(t, "ending", proc)
  <2>1. WatchesOK'
    BY <1>3, <1>4, <1>8 DEF WatchesOK, Down
  <2>2. JoinsOK'
    BY <1>1, <1>2, <1>5, <1>8 DEF Watched, JoinsOK, Sound, TrackOK, Held, Suspend
  <2>3. BusyOK'
    BY <1>1, <1>2, <1>8 DEF OthersCalm, BusyOK, Suspend
  <2> QED BY <1>6, <2>1, <2>2, <2>3 DEF Watched
<1>9. state \in Down => \A p \in Procs : watch[p] # "on"
  BY <1>4
<1>10. proc = NoProc => \A p \in Procs : watch[p] # "on"
  BY <1>4, NoProcIsNone
<1> QED BY <1>7, <1>8, <1>9, <1>10 DEF StopEffect

\* The launcher is called: nothing runs.
LEMMA LaunchingWatched ==
  ASSUME Sound, Watched, NEW t \in Tasks, t \notin cancelled, OthersCalm(t), pc[t] # "joinWatch",
         Launching(t), UNCHANGED <<life, watch, cancelled>>
  PROVE  Watched'
<1>1. pc \in [Tasks -> Pcs] /\ on \in [Tasks -> Procs \union {NoProc}]
  BY DEF Sound, TaskTypes
<1>2. "launch" \in Busy /\ "ending" \in Busy /\ "killing" \in Busy /\ "joinWatch" \in Busy
  BY DEF Busy, Ending
<1>3. state' = "STARTING" /\ state \in Down /\ Suspend(t, "launch", NoProc)
  BY DEF Launching, SetState, MayBecome, Down, Sound, RecordsOK, States
<1>4. \A p \in Procs : watch[p] # "on"
  BY <1>3, WatchIsCurrent
<1>5. WatchesOK' /\ LiveWatched'
  BY <1>4 DEF Watched, WatchesOK, LiveWatched
<1>6. JoinsOK'
  BY <1>1, <1>3 DEF Watched, JoinsOK, Suspend
<1>7. BusyOK'
  BY <1>1, <1>2, <1>3, <1>4 DEF OthersCalm, BusyOK, Suspend, Up
<1> QED BY <1>5, <1>6, <1>7 DEF Watched

\* The launcher returns a process, which is the only one.
LEMMA LaunchSucceedsWatched ==
  ASSUME Sound, Alone, Watched, NEW t \in Tasks, LaunchSucceeds(t)
  PROVE  Watched'
<1>1. PICK p \in Procs :
        /\ \A q \in Procs : life[q] = "none" <=> q >= p
        /\ life' = [life EXCEPT ![p] = "running"] /\ watch' = [watch EXCEPT ![p] = "on"]
        /\ proc' = p /\ watchTask' = p /\ state' = state /\ cancelled' = cancelled
        /\ pc[t] = "launch" /\ t \notin cancelled
        /\ Suspend(t, "poll", NoProc) \/ StartFails(t, Recorded(runs, state), state)
  BY DEF LaunchSucceeds, At
<1>2. /\ pc \in [Tasks -> Pcs] /\ on \in [Tasks -> Procs \union {NoProc}]
      /\ life \in [Procs -> {"none", "running", "termed", "killed", "exited"}]
      /\ watch \in [Procs -> {"none", "on", "done", "failed", "cancelled"}]
  BY DEF Sound, TaskTypes, ProcessTypes
<1>3. "launch" \in Busy /\ "ending" \in Busy /\ "killing" \in Busy /\ "joinWatch" \in Busy
  BY DEF Busy, Ending
<1>4. OthersCalm(t)
  BY <1>1, <1>3, BusyIsAlone
<1>5. state \in Up /\ \A q \in Procs : watch[q] # "on"
  BY <1>1 DEF Watched, BusyOK
<1>6. life[p] = "none"
  BY <1>1, <1>2, ZeroLaunches DEF Procs
<1>7. PICK at \in {"off", "probe", "sleep", "poll"} :
        pc' = [pc EXCEPT ![t] = at] /\ on' = [on EXCEPT ![t] = NoProc]
  <2>1. StartFails(t, Recorded(runs, state), state) => Ends(t)
    BY StartFailsEnds DEF Sound, TaskTypes
  <2> QED BY <1>1, <2>1 DEF Suspend, Ends
<1>8. at \notin Busy /\ at # "joinEarly"
  BY <1>7 DEF Busy, Ending
<1>9. WatchesOK'
  BY <1>1, <1>2, <1>5 DEF WatchesOK, Up, Down
<1>10. LiveWatched'
  BY <1>1, <1>2 DEF Watched, LiveWatched
<1>11. JoinsOK'
  BY <1>1, <1>2, <1>3, <1>6, <1>7, <1>8 DEF Watched, JoinsOK
<1>12. BusyOK'
  BY <1>1, <1>2, <1>3, <1>4, <1>7, <1>8 DEF OthersCalm, BusyOK
<1> QED BY <1>9, <1>10, <1>11, <1>12 DEF Watched

\* The grace period ends for the process that the supervisor holds.
LEMMA GraceTimeoutWatched ==
  ASSUME Sound, Watched, NEW t \in Tasks, GraceTimeout(t)
  PROVE  Watched'
<1>1. /\ pc[t] = "ending" /\ t \notin cancelled /\ life[on[t]] # "exited"
      /\ life' = [life EXCEPT ![on[t]] = "killed"] /\ Suspend(t, "killing", on[t])
      /\ UNCHANGED <<state, proc, watchTask, watch, cancelled>>
  BY DEF GraceTimeout, At, supervisor
<1>2. /\ pc \in [Tasks -> Pcs] /\ on \in [Tasks -> Procs \union {NoProc}]
      /\ life \in [Procs -> {"none", "running", "termed", "killed", "exited"}]
  BY DEF Sound, TaskTypes, ProcessTypes
<1>3. on[t] \in Procs /\ life[on[t]] \in {"running", "termed", "killed"}
  BY <1>1, <1>2 DEF Sound, TrackOK, Held
<1>4. WatchesOK'
  <2>1. ASSUME NEW p \in Procs, Leaving(p) PROVE Leaving(p)'
    <3>1. PICK u \in Tasks \ cancelled : pc[u] = "joinWatch" /\ on[u] = p
      BY <2>1 DEF Leaving
    <3>2. u # t /\ p # on[t]
      BY <1>1, <1>3, <2>1, <3>1 DEF Leaving
    <3> QED BY <1>1, <1>2, <1>3, <2>1, <3>1, <3>2 DEF Leaving, Suspend
  <2> QED BY <1>1, <2>1 DEF Watched, WatchesOK
<1>5. LiveWatched'
  BY <1>1, <1>2, <1>3 DEF Watched, LiveWatched
<1>6. JoinsOK'
  BY <1>1, <1>2, <1>3 DEF Watched, JoinsOK, Suspend
<1>7. BusyOK'
  BY <1>1, <1>2 DEF Watched, BusyOK, Suspend
<1> QED BY <1>4, <1>5, <1>6, <1>7 DEF Watched

\* _stop_process notices the exit of the process.
LEMMA ProcessGoneWatched ==
  ASSUME Sound, Alone, Watched, NEW t \in Tasks, ProcessGone(t)
  PROVE  Watched' /\ (Ends(t) \/ (Suspend(t, "joinWatch", watchTask) /\ UNCHANGED tracking))
<1> DEFINE st == IF state = "STOPPING" THEN "STOPPED" ELSE state
<1> DEFINE heard == IF state = "STOPPING" THEN "STOPPED" ELSE announced
<1> DEFINE known == IF state = "STOPPING" THEN Recorded(runs, "STOPPED") ELSE runs
<1>1. /\ pc[t] \in {"ending", "killing"} /\ t \notin cancelled /\ life[on[t]] = "exited"
      /\ proc' = NoProc /\ UNCHANGED <<life, watch, cancelled>>
      /\ \/ WatchJoined(t, watchTask, st, heard, known)
         \/ /\ Outcome(watchTask) = "on" /\ state' = st /\ Suspend(t, "joinWatch", watchTask)
            /\ UNCHANGED tracking /\ watchTask' = watchTask
  BY DEF ProcessGone, At, processes, CallerKeeps
<1>2. /\ pc \in [Tasks -> Pcs] /\ on \in [Tasks -> Procs \union {NoProc}]
      /\ life \in [Procs -> {"none", "running", "termed", "killed", "exited"}]
      /\ watchTask \in Procs \union {NoProc}
  BY DEF Sound, TaskTypes, ProcessTypes
<1>3. "launch" \in Busy /\ "ending" \in Busy /\ "killing" \in Busy /\ "joinWatch" \in Busy
  BY DEF Busy, Ending
<1>4. OthersCalm(t)
  BY <1>1, <1>3, BusyIsAlone
<1>5. proc = on[t] /\ st = "STOPPED"
  BY <1>1 DEF Watched, BusyOK
<1>6. \A p \in Procs : watch[p] = "on" => p = proc /\ p = watchTask
  BY <1>1, <1>4, WatchIsCurrent
<1>7. ASSUME WatchJoined(t, watchTask, st, heard, known)
      PROVE  Watched' /\ Ends(t)
  <2>1. t = Caller => op \in {"start", "stop", "restart"}
    BY <1>1, Operating DEF Sound
  <2>2. JoinEffect(t, watchTask, st)
    BY <1>7, <2>1, WatchJoinedDoes DEF Sound, TaskTypes
  <2>3. Outcome(watchTask) # "on" /\ Ends(t)
    BY <2>2 DEF JoinEffect
  <2>4. \A p \in Procs : watch[p] # "on"
    BY <1>6, <2>3, NoProcIsNone DEF Outcome
  <2> QED BY <1>1, <1>4, <2>3, <2>4, EndsWatched
<1>8. CASE /\ Outcome(watchTask) = "on" /\ state' = st /\ Suspend(t, "joinWatch", watchTask)
           /\ UNCHANGED tracking /\ watchTask' = watchTask
  <2>1. watchTask \in Procs /\ watch[watchTask] = "on"
    BY <1>2, <1>8 DEF Outcome
  <2>2. life[watchTask] = "exited" /\ state' = "STOPPED" /\ watchTask # NoProc
    BY <1>1, <1>5, <1>6, <1>8, <2>1, NoProcIsNone
  <2>3. pc'[t] = "joinWatch" /\ on'[t] = watchTask
    BY <1>2, <1>8 DEF Suspend
  <2>4. WatchesOK'
    BY <1>1, <1>6, <2>2, <2>3 DEF WatchesOK, Leaving
  <2>5. LiveWatched'
    BY <1>1 DEF Watched, LiveWatched
  <2>6. JoinsOK'
    BY <1>1, <1>2, <1>8, <2>2 DEF Watched, JoinsOK, Suspend
  <2>7. BusyOK'
    BY <1>1, <1>2, <1>3, <1>4, <1>8, <2>2 DEF OthersCalm, BusyOK, Suspend
  <2> QED BY <1>8, <2>4, <2>5, <2>6, <2>7 DEF Watched
<1> QED BY <1>1, <1>7, <1>8

\* ... and the end of the watch task.
LEMMA JoinWatchWatched ==
  ASSUME Sound, Alone, Watched, NEW t \in Tasks, JoinWatch(t)
  PROVE  Watched' /\ Ends(t)
<1>1. /\ pc[t] = "joinWatch" /\ t \notin cancelled /\ UNCHANGED <<life, watch, cancelled>>
      /\ WatchJoined(t, on[t], state, announced, runs)
  BY DEF JoinWatch, At, processes
<1>2. "joinWatch" \in Busy
  BY DEF Busy, Ending
<1>3. OthersCalm(t)
  BY <1>1, <1>2, BusyIsAlone
<1>4. t = Caller => op \in {"start", "stop", "restart"}
  BY <1>1, Operating DEF Sound
<1>5. Outcome(on[t]) # "on" /\ Ends(t)
  BY <1>1, <1>4, WatchJoinedDoes DEF Sound, TaskTypes, JoinEffect
<1>6. state = "STOPPED" /\ on[t] \in Procs
  BY <1>1 DEF Watched, BusyOK, Sound, TrackOK, Held
<1>7. ASSUME NEW p \in Procs, watch[p] = "on" PROVE FALSE
  <2>1. Leaving(p)
    BY <1>6, <1>7 DEF Watched, WatchesOK, Down
  <2>2. PICK u \in Tasks \ cancelled : pc[u] = "joinWatch" /\ on[u] = p
    BY <2>1 DEF Leaving
  <2>3. u = t
    BY <1>2, <1>3, <2>2 DEF OthersCalm
  <2> QED BY <1>5, <1>6, <1>7, <2>2, <2>3, NoProcIsNone DEF Outcome
<1>8. \A p \in Procs : watch[p] # "on"
  BY <1>7
<1> QED BY <1>1, <1>3, <1>5, <1>8, EndsWatched

\* _cancel_restart: a watch task that the loop or the caller awaits goes with it.
LEMMA CancelLoopInHand ==
  ASSUME Sound, Alone, Watched, NEW at \in {"cancelStart", "cancelStop"}, CancelLoop(at),
         pc[Caller] \notin {"cancelStart", "cancelStop", "joinWatch"},
         at = "cancelStop" => enabled' = FALSE, UNCHANGED <<proc, watchTask>>
  PROVE  Alone' /\ Watched'
<1>1. /\ loop \in Loops /\ loop' = NoLoop /\ cancelled' = cancelled \union {loop}
      /\ pc' = [pc EXCEPT ![Caller] = at] /\ on' = [on EXCEPT ![Caller] = NoProc]
      /\ UNCHANGED <<state, life, proc, watchTask>>
      /\ watch' = Cancelling(Cancelling(watch, Caller), loop)
  BY DEF CancelLoop, Suspend, Sound, TaskTypes
<1>2. /\ pc \in [Tasks -> Pcs] /\ on \in [Tasks -> Procs \union {NoProc}]
      /\ watch \in [Procs -> {"none", "on", "done", "failed", "cancelled"}]
      /\ Caller \in Tasks /\ loop \in Tasks /\ loop # Caller /\ cancelled = {}
  BY <1>1, Names, NothingPending DEF Sound, TaskTypes, ProcessTypes
<1>3. at \notin Busy /\ at \notin Ending /\ at # "joinEarly"
  BY DEF Busy, Ending
<1>4. Alone'
  BY <1>1, <1>2, <1>3, Names DEF Alone
<1>5. PICK w : w = Cancelling(watch, Caller)
  OBVIOUS
<1>6. w \in [Procs -> {"none", "on", "done", "failed", "cancelled"}]
  BY <1>2, <1>5, CancellingOnly
<1>7. JoinsOK
  BY DEF Watched
<1>8. \A p \in Procs : /\ w[p] = "on" => watch[p] = "on"
                       /\ life[p] # "exited" => w[p] = watch[p]
  BY <1>2, <1>5, <1>7, CancellingStops
<1>9. watch' = Cancelling(w, loop)
  BY <1>1, <1>5
<1>10. \A p \in Procs : /\ watch'[p] = "on" => w[p] = "on"
                        /\ life[p] # "exited" => watch'[p] = w[p]
                        /\ pc[loop] = "joinWatch" /\ on[loop] = p => watch'[p] # "on"
  BY <1>2, <1>6, <1>7, <1>9, CancellingStops
<1>11. WatchesOK'
  <2>1. ASSUME NEW p \in Procs, watch'[p] = "on", Leaving(p) PROVE Leaving(p)'
    <3>1. PICK u \in Tasks \ cancelled : pc[u] = "joinWatch" /\ on[u] = p
      BY <2>1 DEF Leaving
    <3>2. u # loop /\ u # Caller
      BY <1>10, <2>1, <3>1
    <3> QED BY <1>1, <1>2, <2>1, <3>1, <3>2 DEF Leaving
  <2> QED BY <1>1, <1>8, <1>10, <2>1 DEF Watched, WatchesOK
<1>12. LiveWatched'
  BY <1>1, <1>8, <1>10 DEF Watched, LiveWatched
<1>13. JoinsOK'
  BY <1>1, <1>2, <1>3 DEF Watched, JoinsOK
<1>14. BusyOK'
  <2>1. \A p \in Procs : watch[p] # "on" => watch'[p] # "on"
    BY <1>8, <1>10
  <2>2. \A u \in Tasks \ cancelled' : u # Caller => pc'[u] = pc[u] /\ on'[u] = on[u]
    BY <1>1, <1>2
  <2>3. pc'[Caller] = at
    BY <1>1, <1>2
  <2>4. at \notin {"joinWatch", "ending", "killing", "launch"}
    BY <1>3 DEF Busy, Ending
  <2> QED BY <1>1, <2>1, <2>2, <2>3, <2>4 DEF Watched, BusyOK
<1> QED BY <1>4, <1>11, <1>12, <1>13, <1>14 DEF Watched

\* A cancelled loop ends, and had nothing to forget but itself.
LEMMA LoopCancelledInHand ==
  ASSUME Sound, Alone, Watched, NEW t \in Loops, LoopCancelled(t), ~stray'
  PROVE  Alone' /\ Watched'
<1>1. /\ t \in cancelled /\ cancelled' = cancelled \ {t} /\ awaited = t
      /\ pc' = [pc EXCEPT ![t] = "off"] /\ on' = [on EXCEPT ![t] = NoProc]
      /\ UNCHANGED <<state, proc, watchTask, enabled, life, watch>> /\ t # loop
      /\ loop' = loop
  BY Names DEF LoopCancelled, Suspend, processes, Forgets, Sound, TrackOK
<1>2. /\ pc \in [Tasks -> Pcs] /\ on \in [Tasks -> Procs \union {NoProc}] /\ t \in Tasks
      /\ t # Caller
  BY Names DEF Sound, TaskTypes
<1>3. pc'[t] = "off" /\ pc'[Caller] = pc[Caller]
  BY <1>1, <1>2
<1>4. Alone'
  BY <1>1, <1>2, <1>3 DEF Alone
<1>5. WatchesOK'
  <2>1. ASSUME NEW p \in Procs, Leaving(p) PROVE Leaving(p)'
    BY <1>1, <1>2, <2>1 DEF Leaving
  <2> QED BY <1>1, <2>1 DEF Watched, WatchesOK
<1>6. LiveWatched' /\ JoinsOK'
  BY <1>1, <1>2 DEF Watched, LiveWatched, JoinsOK
<1>7. BusyOK'
  BY <1>1, <1>2, <1>3 DEF Watched, BusyOK
<1> QED BY <1>4, <1>5, <1>6, <1>7 DEF Watched

\* A watch task ends; only the current one may schedule a restart.
LEMMA WatchInHand ==
  ASSUME Sound, Alone, Watched, NEW p \in Procs, Watch(p) \/ WatchFails(p)
  PROVE  Alone' /\ Watched'
<1>1. /\ watch[p] = "on" /\ life[p] = "exited" /\ cancelled' = cancelled /\ watchTask' = watchTask
      /\ enabled' = enabled
      /\ watch' = [watch EXCEPT ![p] = "done"] \/ watch' = [watch EXCEPT ![p] = "failed"]
  BY DEF Watch, WatchFails
<1>2. /\ pc \in [Tasks -> Pcs] /\ on \in [Tasks -> Procs \union {NoProc}] /\ Loops \subseteq Tasks
      /\ life \in [Procs -> {"none", "running", "termed", "killed", "exited"}]
      /\ watch \in [Procs -> {"none", "on", "done", "failed", "cancelled"}]
      /\ state \in States /\ Caller \in Tasks /\ Caller \notin Loops
  BY Names DEF Sound, TaskTypes, ProcessTypes, RecordsOK
<1>3. "launch" \in Busy /\ "ending" \in Busy /\ "killing" \in Busy /\ "joinWatch" \in Busy
      /\ "begin" \notin Busy /\ "begin" # "joinEarly" /\ "off" \notin Busy
  BY DEF Busy, Ending
<1>4. \A q \in Procs : /\ watch'[q] = "on" => watch[q] = "on" /\ q # p
                       /\ life[q] # "exited" => watch'[q] = watch[q]
  BY <1>1, <1>2
<1>5. (p = proc /\ p = watchTask /\ state \notin Down) \/ Leaving(p)
  BY <1>1 DEF Watched, WatchesOK
<1>6. state = "CRASHED" => ~Leaving(p) /\ state \in Down
  BY DEF Leaving, Down
<1>7. \A t \in Tasks \ cancelled : pc[t] # "launch"
  BY <1>1 DEF Watched, BusyOK
<1>8. CASE UNCHANGED <<state, proc, loop, pc, on, life>>
  <2>1. Alone'
    BY <1>1, <1>8 DEF Alone
  <2>2. WatchesOK'
    BY <1>1, <1>4, <1>8 DEF Watched, WatchesOK, Leaving
  <2>3. LiveWatched' /\ JoinsOK'
    BY <1>4, <1>8 DEF Watched, LiveWatched, JoinsOK
  <2>4. BusyOK'
    BY <1>1, <1>4, <1>8 DEF Watched, BusyOK
  <2> QED BY <2>1, <2>2, <2>3, <2>4 DEF Watched
<1>9. CASE /\ p = proc /\ state = "STOPPING" /\ state' = "STOPPED"
           /\ UNCHANGED <<proc, loop, pc, on, life>>
  <2>1. Alone'
    BY <1>1, <1>9 DEF Alone
  <2>2. WatchesOK'
    BY <1>1, <1>4, <1>9 DEF Watched, WatchesOK, Leaving
  <2>3. LiveWatched' /\ JoinsOK'
    BY <1>4, <1>9 DEF Watched, LiveWatched, JoinsOK
  <2>4. BusyOK'
    BY <1>1, <1>4, <1>7, <1>9 DEF Watched, BusyOK
  <2> QED BY <2>1, <2>2, <2>3, <2>4 DEF Watched
<1>10. CASE /\ p = proc /\ state \in Up /\ state' = "CRASHED" /\ life' = life
            /\ ScheduleRestart
  <2>1. \A q \in Procs : watch'[q] # "on"
    <3>1. \A q \in Procs : watch[q] = "on" => q = proc
      BY <1>10 DEF Watched, WatchesOK, Leaving, Up
    <3> QED BY <1>4, <1>10, <3>1
  <2>2. \A t \in Tasks \ cancelled : pc[t] \notin Busy
    BY <1>7, <1>10 DEF Watched, BusyOK, Up, Busy, Ending
  <2>3. CASE UNCHANGED <<loop, pc, on>>
    <3>1. Alone'
      BY <1>1, <2>3 DEF Alone
    <3>2. WatchesOK' /\ LiveWatched'
      BY <1>4, <1>10, <2>1 DEF Watched, WatchesOK, LiveWatched
    <3>3. JoinsOK'
      BY <1>10, <2>3 DEF Watched, JoinsOK
    <3>4. BusyOK'
      BY <1>1, <1>3, <2>2, <2>3 DEF BusyOK
    <3> QED BY <3>1, <3>2, <3>3, <3>4 DEF Watched
  <2>4. CASE /\ enabled /\ loop = NoLoop
             /\ \E t \in Loops : pc[t] = "off" /\ loop' = t /\ Suspend(t, "begin", NoProc)
    <3>1. PICK t \in Loops : pc[t] = "off" /\ loop' = t /\ Suspend(t, "begin", NoProc)
      BY <2>4
    <3>2. /\ pc' = [pc EXCEPT ![t] = "begin"] /\ on' = [on EXCEPT ![t] = NoProc]
          /\ pc'[Caller] = pc[Caller] /\ t \in Tasks
      BY <1>2, <3>1 DEF Suspend
    <3>3. \A u \in Loops \ cancelled : pc[u] = "off"
      BY <2>4, Names DEF Alone
    <3>4. pc[Caller] \notin Busy /\ pc[Caller] \notin Ending \union {"cancelStop"}
      <4>1. Caller \notin cancelled
        BY Names DEF Sound, TaskTypes
      <4>2. pc[Caller] \notin Ending \union {"cancelStop"}
        BY <2>4 DEF Alone
      <4> QED BY <1>2, <2>2, <4>1, <4>2
    <3>5. Alone'
      BY <1>1, <1>2, <3>1, <3>2, <3>3, <3>4 DEF Alone
    <3>6. WatchesOK' /\ LiveWatched'
      BY <1>4, <1>10, <2>1 DEF Watched, WatchesOK, LiveWatched
    <3>7. JoinsOK'
      BY <1>2, <1>3, <1>10, <3>2 DEF Watched, JoinsOK
    <3>8. BusyOK'
      BY <1>1, <1>2, <1>3, <2>2, <3>2 DEF BusyOK
    <3> QED BY <3>5, <3>6, <3>7, <3>8 DEF Watched
  <2> QED BY <1>10, <2>3, <2>4 DEF ScheduleRestart
<1>11. CASE Watch(p)
  <2>1. life' = life
    BY <1>11 DEF Watch
  <2>2. p = proc /\ state \notin {"STOPPED", "STOPPING"} => state \in Up
    BY <1>2, <1>5, <1>6 DEF States, Down, Up
  <2> QED BY <1>8, <1>9, <1>10, <1>11, <2>1, <2>2 DEF Watch, SetState
<1>12. CASE WatchFails(p)
  <2>1. CASE state \in {"STOPPED", "STOPPING"}
    BY <1>8, <1>12, <2>1 DEF WatchFails
  <2>2. CASE state \notin {"STOPPED", "STOPPING"}
    <3>1. p = proc /\ state \in Up
      BY <1>2, <1>5, <2>2 DEF Leaving, States, Down, Up
    <3>2. state' = "CRASHED" /\ life' = life /\ ScheduleRestart
      BY <1>1, <1>12, <2>2, <3>1 DEF WatchFails, SetState, Up
    <3> QED BY <1>10, <3>1, <3>2
  <2> QED BY <2>1, <2>2
<1> QED BY <1>1, <1>11, <1>12

\* A process ends; the log reader fails.
LEMMA QuietInHand ==
  ASSUME Sound, Alone, Watched, UNCHANGED <<proc, watchTask, enabled, loop, watch, pc, on, cancelled>>,
         \A p \in Procs : /\ life'[p] \in {"running", "termed", "killed"} => life'[p] = life[p]
                          /\ life[p] = "exited" => life'[p] = "exited",
         state' = state \/ (state \in Up /\ state' \in Up)
  PROVE  Alone' /\ Watched'
<1>1. state \in Up => state \notin Down /\ state \notin {"STOPPED", "STOPPING"}
  BY DEF Up, Down
<1>2. state' \in Up => state' \notin Down
  BY DEF Up, Down
<1>3. Alone'
  BY DEF Alone
<1>4. WatchesOK'
  <2>1. ASSUME NEW p \in Procs, Leaving(p) PROVE Leaving(p)'
    BY <1>1, <2>1 DEF Leaving
  <2> QED BY <1>2, <2>1 DEF Watched, WatchesOK
<1>5. LiveWatched'
  BY DEF Watched, LiveWatched
<1>6. JoinsOK'
  BY DEF Watched, JoinsOK, Sound, TrackOK, Held
<1>7. BusyOK'
  BY <1>1 DEF Watched, BusyOK
<1> QED BY <1>3, <1>4, <1>5, <1>6, <1>7 DEF Watched

\* The caller is cancelled, with the watch task it awaits.
LEMMA CancelCallerInHand ==
  ASSUME Sound, Alone, Watched, CancelCaller
  PROVE  Alone' /\ Watched'
<1>1. /\ pc[Caller] \notin {"off", "cancelStart", "cancelStop"} /\ Ends(Caller)
      /\ watch' = Cancelling(watch, Caller)
      /\ UNCHANGED <<state, proc, watchTask, enabled, life, cancelled>>
  BY Names, LeavesEnds DEF CancelCaller, Sound, TaskTypes
<1>2. /\ pc \in [Tasks -> Pcs] /\ on \in [Tasks -> Procs \union {NoProc}] /\ Caller \in Tasks
      /\ watch \in [Procs -> {"none", "on", "done", "failed", "cancelled"}] /\ Caller \notin cancelled
  BY Names DEF Sound, TaskTypes, ProcessTypes
<1>3. Alone'
  BY <1>1, <1>2, EndsAlone
<1>4. PICK at \in {"off", "probe", "sleep"} :
        pc' = [pc EXCEPT ![Caller] = at] /\ on' = [on EXCEPT ![Caller] = NoProc]
  BY <1>1 DEF Ends
<1>5. at \notin {"joinWatch", "joinEarly", "launch", "ending", "killing"}
  BY <1>4
<1>6. \A p \in Procs : /\ watch'[p] = "on" => watch[p] = "on"
                       /\ life[p] # "exited" => watch'[p] = watch[p]
                       /\ pc[Caller] = "joinWatch" /\ on[Caller] = p => watch'[p] # "on"
  BY <1>1, <1>2, CancellingStops DEF Watched
<1>7. WatchesOK'
  <2>1. ASSUME NEW p \in Procs, watch'[p] = "on", Leaving(p) PROVE Leaving(p)'
    <3>1. PICK u \in Tasks \ cancelled : pc[u] = "joinWatch" /\ on[u] = p
      BY <2>1 DEF Leaving
    <3>2. u # Caller
      BY <1>6, <2>1, <3>1
    <3> QED BY <1>1, <1>2, <1>4, <2>1, <3>1, <3>2 DEF Leaving
  <2> QED BY <1>1, <1>6, <2>1 DEF Watched, WatchesOK
<1>8. LiveWatched'
  BY <1>1, <1>6 DEF Watched, LiveWatched
<1>9. JoinsOK'
  BY <1>1, <1>2, <1>4, <1>5 DEF Watched, JoinsOK
<1>10. BusyOK'
  BY <1>1, <1>2, <1>4, <1>5, <1>6 DEF Watched, BusyOK
<1> QED BY <1>3, <1>7, <1>8, <1>9, <1>10 DEF Watched

\* _stop_process, called by the one task that may.
LEMMA StopEffectAlone ==
  ASSUME Sound, Alone, NEW t \in Tasks, t \notin cancelled, pc[t] # "off", StopEffect(t),
         cancelled' = cancelled, t # Caller => enabled' = enabled,
         t = Caller => loop = NoLoop /\ cancelled = {} /\ ~enabled'
  PROVE  Alone'
<1>1. CASE Ends(t)
  BY <1>1, EndsAlone
<1>2. CASE Suspend(t, "ending", proc) /\ UNCHANGED tracking
  <2>1. pc' = [pc EXCEPT ![t] = "ending"] /\ loop' = loop /\ "ending" # "off"
    BY <1>2 DEF Suspend, tracking
  <2>2. t = Caller => \A l \in Loops : pc[l] = "off"
    BY CallerIsAlone
  <2> QED BY <2>1, <2>2, StepAlone
<1> QED BY <1>1, <1>2 DEF StopEffect

\* stop() by the caller.
LEMMA StopInHand ==
  ASSUME Sound, Alone, Watched, Stop,
         pc[Caller] \notin {"off", "cancelStart", "cancelStop", "joinWatch"}
  PROVE  Alone' /\ Watched'
<1>1. Caller \in Tasks /\ Caller \notin cancelled
  BY Names DEF Sound, TaskTypes
<1>2. CASE CancelLoop("cancelStop") /\ enabled' = FALSE /\ UNCHANGED <<proc, watchTask>>
  BY <1>2, CancelLoopInHand
<1>3. CASE /\ loop = NoLoop /\ StopProcess(Caller) /\ enabled' = FALSE
           /\ watch' = Cancelling(watch, Caller)
           /\ UNCHANGED <<proc, watchTask, cancelled>>
  <2>1. cancelled = {}
    BY NothingPending
  <2>2. OthersCalm(Caller)
    BY <1>3, <2>1, CallerIsAlone
  <2>3. StopEffect(Caller)
    BY <1>1, <1>3, StopProcessEffect
  <2> QED BY <1>1, <1>3, <2>1, <2>2, <2>3, StopEffectAlone, StopEffectWatched
<1> QED BY <1>2, <1>3 DEF Stop

\* start(), when no loop is left.
LEMMA BeginStartInHand ==
  ASSUME Sound, Alone, Watched, BeginStart, ~stray',
         pc[Caller] \in {"probe", "cancelStart"}
  PROVE  Alone' /\ Watched'
<1>1. /\ \A l \in Loops : pc[l] = "off"
      /\ UNCHANGED <<proc, watchTask, loop, life, watch, cancelled>>
      /\ Launching(Caller) \/ LaunchRefused(Caller)
  BY DEF BeginStart, processes
<1>2. Caller \in Tasks /\ Caller \notin cancelled /\ Caller \notin Loops
  BY Names DEF Sound, TaskTypes
<1>3. OthersCalm(Caller)
  BY <1>1, Names DEF OthersCalm, Busy, Ending
<1>4. CASE Launching(Caller)
  <2>1. pc' = [pc EXCEPT ![Caller] = "launch"] /\ "launch" \notin Ending \union {"cancelStop"}
    BY <1>4 DEF Launching, Suspend, Ending
  <2>2. Alone'
    BY <1>1, <1>2, <2>1, StepAlone
  <2> QED BY <1>1, <1>2, <1>3, <1>4, <2>2, LaunchingWatched
<1>5. CASE LaunchRefused(Caller)
  <2>1. /\ pc' = [pc EXCEPT ![Caller] = "off"] /\ on' = [on EXCEPT ![Caller] = NoProc]
        /\ state' = state
        /\ "off" \notin Busy \union {"joinEarly"} /\ "off" \notin Ending \union {"cancelStop"}
    BY <1>5 DEF LaunchRefused, FailedStart, Release, Suspend, Ending, Busy
  <2>2. Alone'
    BY <1>1, <1>2, <2>1, StepAlone
  <2> QED BY <1>1, <1>2, <2>1, <2>2, CalmStep
<1> QED BY <1>1, <1>4, <1>5

\* A step that ends what a task does and touches no process.
LEMMA EndsInHand ==
  ASSUME Sound, Alone, Watched, NEW t \in Tasks, t \notin cancelled, pc[t] \notin {"off", "joinWatch"},
         Ends(t), UNCHANGED <<proc, watchTask, enabled, life, watch, cancelled>>,
         state' = state \/ (state \in Up /\ state' \in Up)
  PROVE  Alone' /\ Watched'
BY EndsAlone, EndsWatched

\* Every step of a task.
LEMMA TaskStepInHand ==
  ASSUME Sound, Alone, Watched, NEW t \in Tasks, TaskStep(t)
  PROVE  Alone' /\ Watched'
<1>1. TaskTypes /\ ProcessTypes /\ state \in States /\ attempts \in 0..MaxAttempts
      /\ pc \in [Tasks -> Pcs] /\ on \in [Tasks -> Procs \union {NoProc}]
  BY DEF Sound, RecordsOK, TaskTypes
<1>2. ASSUME NEW w, ExitedEarly(t, w), t \notin cancelled, pc[t] \notin {"off", "joinWatch"}
      PROVE  Alone' /\ Watched'
  <2>1. Ends(t) /\ UNCHANGED <<state, proc, watchTask, enabled, life, watch, cancelled>>
    BY <1>1, <1>2, StartFailsEnds, LeavesEnds DEF ExitedEarly, processes
  <2> QED BY <1>2, <2>1, EndsInHand
<1>3. CASE LaunchSucceeds(t)
  <2>1. Watched'
    BY <1>3, LaunchSucceedsWatched
  <2>2. t \notin cancelled /\ pc[t] = "launch" /\ UNCHANGED <<enabled, cancelled>>
    BY <1>3 DEF LaunchSucceeds, At
  <2>3. CASE Suspend(t, "poll", NoProc) /\ CallerKeeps
    <3>1. /\ pc' = [pc EXCEPT ![t] = "poll"] /\ loop' = loop /\ "poll" # "off"
          /\ "poll" \notin Busy /\ "poll" \notin Ending \union {"cancelStop"}
      BY <2>3 DEF Suspend, CallerKeeps, tracking, Busy, Ending
    <3>2. Alone'
      BY <2>2, <3>1, StepAlone
    <3> QED BY <2>1, <3>2
  <2>4. CASE StartFails(t, Recorded(runs, state), state)
    BY <1>1, <2>1, <2>2, <2>4, StartFailsEnds, EndsAlone
  <2> QED BY <1>3, <2>3, <2>4 DEF LaunchSucceeds
<1>4. CASE LaunchFails(t)
  <2>1. /\ t \notin cancelled /\ pc[t] = "launch"
        /\ UNCHANGED <<proc, watchTask, enabled, life, watch, cancelled>>
    BY <1>4 DEF LaunchFails, At, processes
  <2>2. Ends(t)
    BY <1>1, <1>4, StartFailsEnds DEF LaunchFails
  <2>3. OthersCalm(t) /\ \A p \in Procs : watch[p] # "on"
    BY <2>1, BusyIsAlone DEF Busy, Watched, BusyOK
  <2>4. Alone'
    BY <2>1, <2>2, EndsAlone
  <2>5. Watched'
    BY <2>1, <2>2, <2>3, EndsWatched
  <2> QED BY <2>4, <2>5
<1>5. CASE ProbeAnswers(t)
  <2>1. /\ t \notin cancelled /\ pc[t] = "poll" /\ loop' = loop
        /\ pc' = [pc EXCEPT ![t] = "probed"] /\ on' = [on EXCEPT ![t] = NoProc]
        /\ UNCHANGED <<state, proc, watchTask, enabled, life, watch, cancelled>>
    BY <1>5 DEF ProbeAnswers, At, Suspend, supervisor, processes, tracking
  <2>2. "probed" \notin Busy \union {"joinEarly", "off"} /\ "probed" \notin Ending \union {"cancelStop"}
    BY DEF Busy, Ending
  <2>3. Alone'
    BY <2>1, <2>2, StepAlone
  <2>4. Watched'
    BY <2>1, <2>2, CalmStep
  <2> QED BY <2>3, <2>4
<1>6. CASE MarkReady(t)
  <2>1. /\ t \notin cancelled /\ pc[t] = "probed"
        /\ UNCHANGED <<proc, watchTask, enabled, life, watch, cancelled>>
    BY <1>6 DEF MarkReady, At, processes
  <2>2. Ends(t)
    BY <1>1, <1>6, LeavesEnds, StartFailsEnds DEF MarkReady
  <2>3. state' = state \/ (state \in Up /\ state' \in Up)
    BY <1>1, <1>6 DEF MarkReady, SetState, MayBecome, Up, States, Down
  <2> QED BY <2>1, <2>2, <2>3, EndsInHand
<1>7. CASE ProbeFails(t)
  <2>1. t \notin cancelled /\ pc[t] = "poll"
    BY <1>7 DEF ProbeFails, At
  <2>2. CASE ExitedEarly(t, watchTask)
    BY <1>2, <2>1, <2>2
  <2>3. CASE /\ Outcome(watchTask) = "on" /\ Suspend(t, "joinEarly", watchTask)
             /\ UNCHANGED <<state, proc, watchTask, enabled, loop, life, watch, cancelled>>
    <3>1. "joinEarly" \notin Busy /\ "joinEarly" \notin Ending \union {"cancelStop"}
          /\ "launch" \in Busy /\ "ending" \in Busy /\ "killing" \in Busy /\ "joinWatch" \in Busy
      BY DEF Busy, Ending
    <3>2. pc' = [pc EXCEPT ![t] = "joinEarly"] /\ on' = [on EXCEPT ![t] = watchTask]
      BY <2>3 DEF Suspend
    <3>3. Alone'
      BY <2>1, <2>3, <3>1, <3>2, StepAlone
    <3>4. watchTask \in Procs /\ watch[watchTask] = "on"
      BY <1>1, <2>3 DEF Outcome, ProcessTypes
    <3>5. life[watchTask] = "exited"
      BY <1>7, <3>4, NoProcIsNone DEF ProbeFails, Watched, WatchesOK, Leaving
    <3>6. WatchesOK'
      <4>1. ASSUME NEW p \in Procs, Leaving(p) PROVE Leaving(p)'
        BY <1>1, <2>1, <2>3, <3>2, <4>1 DEF Leaving
      <4> QED BY <2>3, <4>1 DEF Watched, WatchesOK
    <3>7. LiveWatched' /\ JoinsOK'
      BY <1>1, <2>3, <3>2, <3>5 DEF Watched, LiveWatched, JoinsOK
    <3>8. BusyOK'
      BY <1>1, <2>3, <3>2 DEF Watched, BusyOK
    <3> QED BY <3>3, <3>6, <3>7, <3>8 DEF Watched
  <2> QED BY <1>7, <2>2, <2>3 DEF ProbeFails, supervisor, processes, tracking
<1>8. CASE JoinEarly(t)
  BY <1>2, <1>8 DEF JoinEarly, At
<1>9. CASE ReadyTimeout(t)
  <2>1. t \notin cancelled /\ pc[t] \in {"poll", "probed", "joinEarly"}
    BY <1>9 DEF ReadyTimeout, At
  <2>2. CASE t = Caller
    BY <1>9, <2>1, <2>2, StopInHand DEF ReadyTimeout
  <2>3. CASE t # Caller
    <3>1. /\ StopProcess(t) /\ watch' = Cancelling(watch, t)
          /\ UNCHANGED <<proc, watchTask, enabled, cancelled>>
      BY <1>9, <2>3 DEF ReadyTimeout
    <3>2. StopEffect(t) /\ OthersCalm(t)
      BY <2>1, <2>3, <3>1, Names, StopProcessEffect, LoopIsAlone
    <3> QED BY <2>1, <2>3, <3>1, <3>2, StopEffectAlone, StopEffectWatched
  <2> QED BY <2>2, <2>3
<1>10. CASE GraceTimeout(t)
  <2>1. /\ t \notin cancelled /\ pc[t] = "ending" /\ loop' = loop
        /\ pc' = [pc EXCEPT ![t] = "killing"] /\ UNCHANGED <<enabled, cancelled>>
    BY <1>10 DEF GraceTimeout, At, Suspend, supervisor, tracking
  <2>2. t = Caller => (\A l \in Loops : pc[l] = "off") /\ ~enabled' /\ loop = NoLoop
    BY <2>1 DEF Alone, Busy, Ending
  <2>3. Alone'
    BY <2>1, <2>2, StepAlone
  <2> QED BY <1>10, <2>3, GraceTimeoutWatched
<1>11. CASE ProcessGone(t)
  <2>1. /\ t \notin cancelled /\ pc[t] \in {"ending", "killing"}
        /\ UNCHANGED <<enabled, cancelled>>
    BY <1>11 DEF ProcessGone, At
  <2>2. CASE Ends(t)
    BY <1>11, <2>1, <2>2, EndsAlone, ProcessGoneWatched
  <2>3. CASE Suspend(t, "joinWatch", watchTask) /\ UNCHANGED tracking
    <3>1. pc' = [pc EXCEPT ![t] = "joinWatch"] /\ loop' = loop /\ "joinWatch" # "off"
      BY <2>3 DEF Suspend, tracking
    <3>2. t = Caller => (\A l \in Loops : pc[l] = "off") /\ ~enabled' /\ loop = NoLoop
      BY <2>1 DEF Alone, Busy, Ending
    <3>3. Alone'
      BY <2>1, <3>1, <3>2, StepAlone
    <3> QED BY <1>11, <3>3, ProcessGoneWatched
  <2> QED BY <1>11, <2>2, <2>3, ProcessGoneWatched
<1>12. CASE JoinWatch(t)
  <2>1. t \notin cancelled /\ pc[t] = "joinWatch" /\ UNCHANGED <<enabled, cancelled>>
    BY <1>12 DEF JoinWatch, At
  <2> QED BY <1>12, <2>1, JoinWatchWatched, EndsAlone
<1> QED BY <1>3, <1>4, <1>5, <1>6, <1>7, <1>8, <1>9, <1>10, <1>11, <1>12 DEF TaskStep

\* Every step of the specification, as long as no loop strays.
LEMMA AloneNext ==
  ASSUME Sound, Alone, Watched, [Next]_vars, ~stray'
  PROVE  Alone' /\ Watched'
<1>1. /\ TaskTypes /\ ProcessTypes /\ attempts \in 0..MaxAttempts
      /\ pc \in [Tasks -> Pcs] /\ on \in [Tasks -> Procs \union {NoProc}]
      /\ Caller \in Tasks /\ Caller \notin cancelled /\ Loops \subseteq Tasks /\ Caller \notin Loops
  BY Names DEF Sound, TaskTypes
<1>2. ASSUME NEW t \in Tasks, t \notin cancelled, pc[t] # "joinWatch",
             NEW at \in {"off", "locked", "probe"}, Suspend(t, at, NoProc), t = Caller,
             UNCHANGED <<state, proc, watchTask, enabled, loop, life, watch, cancelled>>
      PROVE  Alone' /\ Watched'
  <2>1. /\ pc' = [pc EXCEPT ![t] = at] /\ on' = [on EXCEPT ![t] = NoProc]
        /\ at \notin Busy \union {"joinEarly"} /\ at \notin Ending \union {"cancelStop"}
    BY <1>2 DEF Suspend, Busy, Ending
  <2>2. Alone'
    BY <1>2, <2>1, StepAlone
  <2>3. Watched'
    BY <1>2, <2>1, CalmStep
  <2> QED BY <2>2, <2>3
<1>3. CASE Request \/ StartRequest \/ PortTaken
  <2>1. /\ pc[Caller] \in {"off", "locked", "probe"}
        /\ \E at \in {"off", "locked", "probe"} : Suspend(Caller, at, NoProc)
        /\ UNCHANGED <<state, proc, watchTask, enabled, loop, life, watch, cancelled>>
    BY <1>3 DEF Request, StartRequest, PortTaken, StartRouter, Release, supervisor, processes,
                tracking
  <2> QED BY <1>1, <1>2, <2>1
<1>4. CASE StopRequest
  BY <1>4, StopInHand DEF StopRequest
<1>5. CASE PortFree
  <2>1. CASE CancelLoop("cancelStart") /\ UNCHANGED <<proc, watchTask>>
    BY <1>5, <2>1, CancelLoopInHand DEF PortFree
  <2> QED BY <1>5, <2>1, BeginStartInHand DEF PortFree
<1>6. CASE StartAfterCancelling
  BY <1>6, BeginStartInHand DEF StartAfterCancelling
<1>7. CASE StopAfterCancelling
  <2>1. /\ pc[Caller] = "cancelStop" /\ awaited = NoLoop /\ StopProcess(Caller)
        /\ UNCHANGED <<proc, watchTask, enabled, watch, cancelled>>
    BY <1>7 DEF StopAfterCancelling
  <2>2. ~enabled /\ loop = NoLoop /\ cancelled = {}
    BY <2>1, NothingPending DEF Alone
  <2>3. StopEffect(Caller) /\ OthersCalm(Caller)
    BY <1>1, <2>1, <2>2, StopProcessEffect, CallerIsAlone
  <2> QED BY <1>1, <2>1, <2>2, <2>3, StopEffectAlone, StopEffectWatched
<1>8. CASE CancelCaller
  BY <1>8, CancelCallerInHand
<1>9. ASSUME NEW t \in Tasks, TaskStep(t) PROVE Alone' /\ Watched'
  BY <1>9, TaskStepInHand
<1>10. ASSUME NEW t \in Loops, LoopBegins(t) PROVE Alone' /\ Watched'
  <2>1. /\ t \notin cancelled /\ pc[t] = "begin" /\ Ends(t)
        /\ UNCHANGED <<state, proc, watchTask, enabled, life, watch, cancelled>>
    BY <1>1, <1>10, LoopContinuesEnds DEF LoopBegins, At, processes
  <2> QED BY <1>1, <2>1, EndsInHand
<1>11. ASSUME NEW t \in Loops, LoopWakes(t) PROVE Alone' /\ Watched'
  <2>1. /\ t \notin cancelled /\ pc[t] = "sleep" /\ t # Caller /\ t \in Tasks
        /\ UNCHANGED <<proc, watchTask, enabled, life, watch, cancelled>>
    BY <1>1, <1>11 DEF LoopWakes, At, processes
  <2>2. CASE Leaves(t) /\ UNCHANGED state
    BY <1>1, <2>1, <2>2, LeavesEnds, EndsInHand
  <2>3. CASE LaunchRefused(t)
    BY <1>1, <2>1, <2>3, StartFailsEnds, EndsInHand DEF LaunchRefused
  <2>4. CASE Launching(t) /\ UNCHANGED tracking
    <3>1. OthersCalm(t)
      BY <1>11, <2>1, LoopIsAlone
    <3>2. pc' = [pc EXCEPT ![t] = "launch"] /\ loop' = loop /\ "launch" # "off"
      BY <2>4 DEF Launching, Suspend, tracking
    <3>3. Alone'
      BY <2>1, <3>2, StepAlone
    <3> QED BY <2>1, <2>4, <3>1, <3>3, LaunchingWatched
  <2> QED BY <1>11, <2>2, <2>3, <2>4 DEF LoopWakes
<1>12. ASSUME NEW t \in Loops, LoopCancelled(t) PROVE Alone' /\ Watched'
  BY <1>12, LoopCancelledInHand
<1>13. ASSUME NEW p \in Procs, Watch(p) \/ WatchFails(p) PROVE Alone' /\ Watched'
  BY <1>13, WatchInHand
<1>14. CASE LogCaptureFails
  <2>1. /\ state \in Up /\ state' \in Up
        /\ UNCHANGED <<proc, watchTask, enabled, loop, watch, pc, on, cancelled, life>>
    BY <1>14 DEF LogCaptureFails, SetState, Up, tracking, processes, tasks
  <2> QED BY <2>1, QuietInHand
<1>15. ASSUME NEW p \in Procs, Crash(p) \/ ObeysSignal(p) \/ Dies(p) PROVE Alone' /\ Watched'
  <2>1. /\ life' = [life EXCEPT ![p] = "exited"]
        /\ UNCHANGED <<state, proc, watchTask, enabled, loop, watch, pc, on, cancelled>>
    BY <1>15 DEF Crash, ObeysSignal, Dies, Exits, supervisor, tracking, tasks
  <2>2. \A q \in Procs : /\ life'[q] \in {"running", "termed", "killed"} => life'[q] = life[q]
                         /\ life[q] = "exited" => life'[q] = "exited"
    BY <1>1, <2>1 DEF ProcessTypes
  <2> QED BY <2>1, <2>2, QuietInHand
<1>16. CASE UNCHANGED vars
  <2>1. UNCHANGED <<state, proc, watchTask, enabled, loop, watch, pc, on, cancelled, life>>
    BY <1>16 DEF vars, supervisor, tracking, processes, tasks
  <2> QED BY <2>1, QuietInHand
<1> QED BY <1>3, <1>4, <1>5, <1>6, <1>7, <1>8, <1>9, <1>10, <1>11, <1>12, <1>13, <1>14, <1>15,
           <1>16
        DEF Next, HttpNext, CallerStep, LoopTaskStep

----------------------------------------------------------------------------
(* The budget of relaunches                                                *)

\* A task goes to an await that is not before a launch, or a loop from its
\* sleep to the launcher.
LEMMA StepBudget ==
  ASSUME Sound, BudgetOK, NEW t \in Tasks, NEW at, pc' = [pc EXCEPT ![t] = at],
         UNCHANGED <<attempts, relaunches>>, loop' \in {loop, NoLoop},
         at \in {"sleep", "launch"} => t = Caller \/ (t = loop /\ pc[t] = "sleep")
  PROVE  BudgetOK'
<1>1. pc \in [Tasks -> Pcs] /\ loop \in Loops \union {NoLoop} /\ (loop # NoLoop => loop # Caller)
  BY Names DEF Sound, TaskTypes
<1>2. loop' # NoLoop /\ pc'[loop'] \in {"sleep", "launch"} => pc[loop] \in {"sleep", "launch"}
  BY <1>1, Names
<1> QED BY <1>1, <1>2 DEF BudgetOK

\* A task ends; a loop that tries again counts the attempt.
LEMMA EndsBudget ==
  ASSUME Sound, Alone, BudgetOK, NEW t \in Tasks, t \notin cancelled, pc[t] # "off", Ends(t),
         \/ relaunches' = relaunches
         \/ t # Caller /\ pc[t] = "launch" /\ relaunches' = relaunches + 1
  PROVE  BudgetOK'
<1>1. PICK at \in {"off", "probe", "sleep"} :
        /\ pc' = [pc EXCEPT ![t] = at]
        /\ \/ t = Caller /\ at # "sleep" /\ UNCHANGED tracking
           \/ t # Caller /\ at = "off" /\ Forgets(t) /\ (WindowPasses \/ attempts' = attempts)
           \/ t # Caller /\ at = "sleep" /\ loop' = loop /\ (WindowPasses \/ attempts' = attempts + 1)
  BY DEF Ends
<1>2. CASE t = Caller
  <2>1. UNCHANGED <<attempts, loop, relaunches>> /\ at \notin {"sleep", "launch"}
    BY <1>1, <1>2 DEF tracking
  <2> QED BY <1>1, <2>1, StepBudget
<1>3. CASE t # Caller
  <2>1. t = loop /\ loop # NoLoop
    BY <1>3, Names, LoopIsAlone
  <2>2. attempts \in Nat /\ relaunches \in Nat /\ WindowPasses \in BOOLEAN
    BY AttemptsAssumption, ZeroLaunches, SwitchAssumption DEF Sound, TaskTypes, LifeOK
  <2>3. CASE at = "off"
    <3>1. loop' = NoLoop /\ (WindowPasses \/ attempts' = attempts)
      BY <1>1, <1>3, <2>3 DEF Forgets
    <3>2. ~WindowPasses => relaunches' <= attempts'
      BY <2>1, <2>2, <3>1 DEF BudgetOK
    <3> QED BY <3>1, <3>2 DEF BudgetOK
  <2>4. CASE at = "sleep"
    <3>1. loop' = loop /\ (WindowPasses \/ attempts' = attempts + 1)
      BY <1>1, <1>3, <2>4
    <3>2. ~WindowPasses => relaunches' < attempts'
      BY <2>1, <2>2, <3>1 DEF BudgetOK
    <3>3. ~WindowPasses => attempts' \in Nat /\ relaunches' \in Nat
      BY <2>2, <3>1
    <3> QED BY <3>2, <3>3 DEF BudgetOK
  <2> QED BY <1>1, <1>3, <2>3, <2>4
<1> QED BY <1>2, <1>3

\* What stop() does to the budget, which is nothing.
LEMMA StopEffectBudget ==
  ASSUME Sound, Alone, BudgetOK, NEW t \in Tasks, t \notin cancelled, pc[t] # "off",
         StopEffect(t), UNCHANGED relaunches
  PROVE  BudgetOK'
<1>1. CASE Ends(t)
  BY <1>1, EndsBudget
<1>2. CASE Suspend(t, "ending", proc) /\ UNCHANGED tracking
  <2>1. pc' = [pc EXCEPT ![t] = "ending"] /\ UNCHANGED <<attempts, loop>>
    BY <1>2 DEF Suspend, tracking
  <2> QED BY <2>1, StepBudget
<1> QED BY <1>1, <1>2 DEF StopEffect

\* With no tracked loop there is no launch to come.
LEMMA CancelLoopBudget ==
  ASSUME Sound, BudgetOK, NEW at \in {"cancelStart", "cancelStop"}, CancelLoop(at),
         UNCHANGED relaunches
  PROVE  BudgetOK'
BY DEF CancelLoop, BudgetOK

\* Nor does stop() by the caller.
LEMMA StopBudget ==
  ASSUME Sound, Alone, BudgetOK, Stop, pc[Caller] # "off"
  PROVE  BudgetOK'
<1>1. Caller \in Tasks /\ Caller \notin cancelled /\ relaunches' = relaunches
  BY Names DEF Sound, TaskTypes, Stop
<1>2. CASE CancelLoop("cancelStop")
  BY <1>1, <1>2, CancelLoopBudget
<1>3. CASE StopProcess(Caller)
  BY <1>1, <1>3, StopProcessEffect, StopEffectBudget
<1> QED BY <1>2, <1>3 DEF Stop

\* start() begins a new count.
LEMMA BeginStartBudget ==
  ASSUME Sound, BeginStart, ~stray'
  PROVE  BudgetOK'
<1>1. /\ attempts' = 0 /\ relaunches' = 0 /\ loop' = loop
      /\ \A l \in Loops : pc[l] = "off"
  BY DEF BeginStart
<1>2. loop = NoLoop
  BY <1>1 DEF Sound, TrackOK, LoopTracked, TaskTypes
<1> QED BY <1>1, <1>2 DEF BudgetOK

\* Every step of a task keeps to the budget.
LEMMA TaskStepBudget ==
  ASSUME Sound, Alone, Watched, BudgetOK, NEW t \in Tasks, TaskStep(t)
  PROVE  BudgetOK'
<1>1. attempts \in 0..MaxAttempts
  BY DEF Sound, TaskTypes
<1>2. ASSUME t \notin cancelled, pc[t] # "off", Ends(t), UNCHANGED relaunches PROVE BudgetOK'
  BY <1>2, EndsBudget
<1>3. ASSUME NEW at \in {"poll", "probed", "joinEarly", "killing", "joinWatch"}, NEW target,
             Suspend(t, at, target), UNCHANGED <<tracking, relaunches>>
      PROVE  BudgetOK'
  <2>1. pc' = [pc EXCEPT ![t] = at] /\ UNCHANGED <<attempts, loop>>
    BY <1>3 DEF Suspend, tracking
  <2> QED BY <1>3, <2>1, StepBudget
<1>4. CASE LaunchSucceeds(t)
  <2>1. /\ t \notin cancelled /\ pc[t] = "launch"
        /\ relaunches' = IF t = Caller THEN relaunches ELSE relaunches + 1
    BY <1>4 DEF LaunchSucceeds, At
  <2>2. CASE StartFails(t, Recorded(runs, state), state)
    <3>1. Ends(t)
      BY <1>1, <2>2, StartFailsEnds
    <3> QED BY <2>1, <3>1, EndsBudget
  <2>3. CASE Suspend(t, "poll", NoProc) /\ CallerKeeps
    <3>1. CASE t = Caller
      BY <1>3, <2>1, <2>3, <3>1 DEF CallerKeeps
    <3>2. CASE t # Caller
      <4>1. t = loop /\ loop # NoLoop
        BY <2>1, <3>2, Names, LoopIsAlone
      <4>2. attempts \in Nat /\ relaunches \in Nat
        BY AttemptsAssumption, ZeroLaunches DEF Sound, TaskTypes, LifeOK
      <4>3. relaunches' = relaunches + 1 /\ UNCHANGED <<attempts, loop>> /\ pc'[t] = "poll"
        BY <2>1, <2>3, <3>2 DEF CallerKeeps, tracking, Suspend, Sound, TaskTypes
      <4> QED BY <2>1, <4>1, <4>2, <4>3 DEF BudgetOK
    <3> QED BY <3>1, <3>2
  <2> QED BY <1>4, <2>2, <2>3 DEF LaunchSucceeds
<1>5. CASE LaunchFails(t)
  BY <1>1, <1>2, <1>5, StartFailsEnds DEF LaunchFails, At
<1>6. CASE ProbeAnswers(t)
  BY <1>3, <1>6 DEF ProbeAnswers, supervisor
<1>7. CASE MarkReady(t)
  <2>1. Ends(t)
    BY <1>1, <1>7, LeavesEnds, StartFailsEnds DEF MarkReady
  <2> QED BY <1>2, <1>7, <2>1 DEF MarkReady, At
<1>8. ASSUME NEW w, ExitedEarly(t, w) PROVE Ends(t) /\ UNCHANGED relaunches
  BY <1>1, <1>8, LeavesEnds, StartFailsEnds DEF ExitedEarly
<1>9. CASE ProbeFails(t)
  <2>1. CASE ExitedEarly(t, watchTask)
    BY <1>2, <1>8, <1>9, <2>1 DEF ProbeFails, At
  <2>2. CASE Suspend(t, "joinEarly", watchTask) /\ UNCHANGED <<tracking, relaunches>>
    BY <1>3, <2>2
  <2> QED BY <1>9, <2>1, <2>2 DEF ProbeFails, supervisor
<1>10. CASE JoinEarly(t)
  BY <1>2, <1>8, <1>10 DEF JoinEarly, At
<1>11. CASE ReadyTimeout(t)
  <2>1. t \notin cancelled /\ pc[t] # "off"
    BY <1>11 DEF ReadyTimeout, At
  <2>2. CASE t = Caller
    BY <1>11, <2>1, <2>2, StopBudget DEF ReadyTimeout
  <2>3. CASE t # Caller
    BY <1>11, <2>1, <2>3, StopProcessEffect, StopEffectBudget DEF ReadyTimeout
  <2> QED BY <2>2, <2>3
<1>12. CASE GraceTimeout(t)
  BY <1>3, <1>12 DEF GraceTimeout, supervisor
<1>13. CASE ProcessGone(t)
  <2>1. t \notin cancelled /\ pc[t] # "off" /\ UNCHANGED relaunches
    BY <1>13 DEF ProcessGone, At
  <2> QED BY <1>2, <1>3, <1>13, <2>1, ProcessGoneWatched
<1>14. CASE JoinWatch(t)
  BY <1>2, <1>14, JoinWatchWatched DEF JoinWatch, At
<1> QED BY <1>4, <1>5, <1>6, <1>7, <1>9, <1>10, <1>11, <1>12, <1>13, <1>14 DEF TaskStep

\* So does every other step.
LEMMA BudgetNext ==
  ASSUME Sound, Alone, Watched, BudgetOK, [Next]_vars, ~stray'
  PROVE  BudgetOK'
<1>1. /\ attempts \in 0..MaxAttempts /\ Caller \in Tasks /\ Caller \notin cancelled
      /\ Loops \subseteq Tasks /\ Caller \notin Loops /\ NoLoop \notin Loops
      /\ pc \in [Tasks -> Pcs] /\ loop \in Loops \union {NoLoop}
  BY Names DEF Sound, TaskTypes
<1>2. ASSUME UNCHANGED <<tracking, relaunches>>,
             pc' = pc \/ \E at \in {"off", "locked", "probe"} : pc' = [pc EXCEPT ![Caller] = at]
      PROVE  BudgetOK'
  <2>1. UNCHANGED <<attempts, loop, relaunches>>
    BY <1>2 DEF tracking
  <2>2. loop # NoLoop => pc'[loop] = pc[loop]
    BY <1>1, <1>2
  <2> QED BY <2>1, <2>2 DEF BudgetOK
<1>3. CASE \/ Request \/ StartRequest \/ PortTaken \/ LogCaptureFails \/ UNCHANGED vars
           \/ \E p \in Procs : Crash(p) \/ ObeysSignal(p) \/ Dies(p)
  <2>1. UNCHANGED <<tracking, relaunches>>
    BY <1>3 DEF Request, StartRequest, PortTaken, LogCaptureFails, Crash, ObeysSignal, Dies, Exits,
                vars, supervisor
  <2>2. pc' = pc \/ \E at \in {"off", "locked", "probe"} : pc' = [pc EXCEPT ![Caller] = at]
    BY <1>3 DEF Request, StartRequest, StartRouter, PortTaken, LogCaptureFails, Crash, ObeysSignal,
                Dies, Exits, vars, tasks, Release, Suspend
  <2> QED BY <1>2, <2>1, <2>2
<1>4. CASE StopRequest
  BY <1>4, StopBudget DEF StopRequest
<1>5. CASE PortFree \/ StartAfterCancelling
  BY <1>5, CancelLoopBudget, BeginStartBudget DEF PortFree, StartAfterCancelling
<1>6. CASE StopAfterCancelling
  BY <1>1, <1>6, StopProcessEffect, StopEffectBudget DEF StopAfterCancelling
<1>7. CASE CancelCaller
  BY <1>1, <1>7, LeavesEnds, EndsBudget DEF CancelCaller
<1>8. ASSUME NEW t \in Tasks, TaskStep(t) PROVE BudgetOK'
  BY <1>8, TaskStepBudget
<1>9. ASSUME NEW t \in Loops, LoopBegins(t) PROVE BudgetOK'
  BY <1>1, <1>9, LoopContinuesEnds, EndsBudget DEF LoopBegins, At
<1>10. ASSUME NEW t \in Loops, LoopWakes(t) PROVE BudgetOK'
  <2>1. t \notin cancelled /\ pc[t] = "sleep" /\ UNCHANGED relaunches /\ t # Caller
    BY <1>1, <1>10 DEF LoopWakes, At
  <2>2. CASE Leaves(t)
    BY <1>1, <2>1, <2>2, LeavesEnds, EndsBudget
  <2>3. CASE Launching(t) /\ UNCHANGED tracking
    <3>1. t = loop
      BY <1>10, <2>1, LoopIsAlone
    <3>2. pc' = [pc EXCEPT ![t] = "launch"] /\ UNCHANGED <<attempts, loop>>
      BY <2>3 DEF Launching, Suspend, tracking
    <3> QED BY <1>1, <2>1, <3>1, <3>2, StepBudget
  <2>4. CASE LaunchRefused(t)
    BY <1>1, <2>1, <2>4, StartFailsEnds, EndsBudget DEF LaunchRefused
  <2> QED BY <1>10, <2>2, <2>3, <2>4 DEF LoopWakes
<1>11. ASSUME NEW t \in Loops, LoopCancelled(t) PROVE BudgetOK'
  <2>1. /\ pc' = [pc EXCEPT ![t] = "off"] /\ UNCHANGED <<attempts, relaunches>>
        /\ loop' \in {loop, NoLoop}
    BY <1>11 DEF LoopCancelled, Suspend, Forgets
  <2> QED BY <1>1, <2>1, StepBudget
<1>12. ASSUME NEW p \in Procs, Watch(p) \/ WatchFails(p) PROVE BudgetOK'
  <2>1. UNCHANGED <<attempts, relaunches>>
    BY <1>12 DEF Watch, WatchFails
  <2>2. CASE UNCHANGED <<loop, pc>>
    BY <2>1, <2>2 DEF BudgetOK
  <2>3. CASE \E t \in Loops : loop' = t /\ Suspend(t, "begin", NoProc)
    <3>1. loop' # NoLoop /\ pc'[loop'] = "begin"
      BY <1>1, <2>3 DEF Suspend
    <3> QED BY <2>1, <3>1 DEF BudgetOK
  <2> QED BY <1>12, <2>2, <2>3 DEF Watch, WatchFails, ScheduleRestart
<1> QED BY <1>3, <1>4, <1>5, <1>6, <1>7, <1>8, <1>9, <1>10, <1>11, <1>12
        DEF Next, HttpNext, CallerStep, LoopTaskStep

----------------------------------------------------------------------------
(* The theorems                                                            *)

\* A loop that strayed has strayed for good.
LEMMA StrayStays ==
  ASSUME Sound, [Next]_vars, stray
  PROVE  stray'
<1>1. attempts \in 0..MaxAttempts /\ Caller \in Tasks /\ Loops \subseteq Tasks /\ Caller \notin Loops
  BY Names DEF Sound, TaskTypes
<1>2. ASSUME NEW t \in Tasks, Ends(t) PROVE stray'
  BY <1>2 DEF Ends, Forgets, tracking
<1>3. ASSUME NEW t \in Tasks, StopProcess(t), pc[t] # "off" PROVE stray'
  BY <1>2, <1>3, StopProcessEffect DEF StopEffect, tracking
<1>4. ASSUME Stop, pc[Caller] # "off" PROVE stray'
  BY <1>1, <1>3, <1>4 DEF Stop, CancelLoop
<1>5. ASSUME NEW t \in Tasks, TaskStep(t) PROVE stray'
  <2>1. ASSUME NEW w, ExitedEarly(t, w) PROVE stray'
    BY <1>1, <1>2, <2>1, LeavesEnds, StartFailsEnds DEF ExitedEarly
  <2>2. ASSUME NEW w, NEW st, NEW heard, NEW known, WatchJoined(t, w, st, heard, known), pc[t] # "off"
        PROVE  stray'
    <3>1. t = Caller => op \in {"start", "stop", "restart"}
      BY <2>2, Operating DEF Sound
    <3> QED BY <1>1, <1>2, <2>2, <3>1, WatchJoinedDoes DEF JoinEffect
  <2>3. CASE LaunchSucceeds(t) \/ LaunchFails(t) \/ MarkReady(t)
    <3>1. CallerKeeps \/ (\E known, st : StartFails(t, known, st)) \/ Leaves(t)
      BY <2>3 DEF LaunchSucceeds, LaunchFails, MarkReady
    <3> QED BY <1>1, <1>2, <3>1, LeavesEnds, StartFailsEnds DEF CallerKeeps, tracking
  <2>4. CASE ProbeAnswers(t) \/ GraceTimeout(t)
    BY <2>4 DEF ProbeAnswers, GraceTimeout, supervisor, tracking
  <2>5. CASE ProbeFails(t) \/ JoinEarly(t)
    BY <2>1, <2>5 DEF ProbeFails, JoinEarly, supervisor, tracking
  <2>6. CASE ReadyTimeout(t)
    BY <1>3, <1>4, <2>6 DEF ReadyTimeout, At
  <2>7. CASE ProcessGone(t)
    <3>1. pc[t] # "off"
      BY <2>7 DEF ProcessGone, At
    <3> QED BY <2>2, <2>7, <3>1 DEF ProcessGone, CallerKeeps, tracking
  <2>8. CASE JoinWatch(t)
    BY <2>2, <2>8 DEF JoinWatch, At
  <2> QED BY <1>5, <2>3, <2>4, <2>5, <2>6, <2>7, <2>8 DEF TaskStep
<1>6. ASSUME NEW t \in Loops, LoopTaskStep(t) PROVE stray'
  <2>1. CASE LoopBegins(t)
    BY <1>1, <1>2, <2>1, LoopContinuesEnds DEF LoopBegins
  <2>2. CASE LoopWakes(t)
    <3>1. Leaves(t) \/ UNCHANGED tracking \/ StartFails(t, runs, state)
      BY <1>1, <2>2 DEF LoopWakes, LaunchRefused
    <3> QED BY <1>1, <1>2, <3>1, LeavesEnds, StartFailsEnds DEF tracking
  <2>3. CASE LoopCancelled(t)
    BY <2>3 DEF LoopCancelled, Forgets
  <2> QED BY <1>6, <2>1, <2>2, <2>3 DEF LoopTaskStep
<1>7. CASE StopRequest \/ StopAfterCancelling
  BY <1>1, <1>3, <1>4, <1>7 DEF StopRequest, StopAfterCancelling
<1>8. CASE PortFree \/ StartAfterCancelling
  BY <1>8 DEF PortFree, StartAfterCancelling, BeginStart, CancelLoop
<1>9. CASE CancelCaller
  BY <1>1, <1>2, <1>9, LeavesEnds DEF CancelCaller
<1>10. CASE \/ Request \/ StartRequest \/ PortTaken \/ LogCaptureFails \/ UNCHANGED vars
            \/ \E p \in Procs : Crash(p) \/ ObeysSignal(p) \/ Dies(p) \/ Watch(p) \/ WatchFails(p)
  BY <1>10 DEF Request, StartRequest, PortTaken, LogCaptureFails, Crash, ObeysSignal, Dies, Exits,
               Watch, WatchFails, vars, supervisor, tracking
<1> QED BY <1>5, <1>6, <1>7, <1>8, <1>9, <1>10 DEF Next, HttpNext, CallerStep

----------------------------------------------------------------------------
(* The theorems                                                            *)

\* The inductive invariant: the tasks, the processes and the records are in
\* order, and as long as no restart loop strayed the supervisor has the tasks
\* and the processes in hand.
Invariant == Sound /\ (~stray => InHand)

\* It holds at first.
LEMMA InvariantInit == Init => Invariant
<1> SUFFICES ASSUME Init PROVE Invariant
  OBVIOUS
<1>1. /\ \A p \in Procs : life[p] = "none" /\ watch[p] = "none"
      /\ \A t \in Tasks : pc[t] = "off" /\ on[t] = NoProc
      /\ Caller \in Tasks /\ MaxAttempts \in Nat /\ MaxLaunches \in Nat
      /\ \A p \in Procs : 0 < p
  BY Names, AttemptsAssumption, ZeroLaunches DEF Init, Procs
<1>2. TaskTypes
  <2>1. pc \in [Tasks -> Pcs] /\ on \in [Tasks -> Procs \union {NoProc}] /\ 0 \in 0..MaxAttempts
    BY <1>1 DEF Init, Pcs
  <2> QED BY <2>1 DEF Init, TaskTypes
<1>3. ProcessTypes /\ LifeOK
  <2>1. ProcessTypes
    BY NoProcIsNone DEF Init, ProcessTypes
  <2>2. LifeOK
    BY <1>1, ZeroLaunches DEF Init, LifeOK
  <2> QED BY <2>1, <2>2
<1>4. TrackOK
  BY <1>1 DEF Init, TrackOK, LoopTracked, Held
<1>5. RecordsOK
  <2>1. runs \in Seq(Runs) /\ Len(runs) = 0
    BY DEF Init
  <2>2. BooksOK
    <3>1. keyFile = FALSE /\ op = "none" /\ pc[Caller] = "off" /\ myRun = 0 /\ active = 0
      BY <1>1 DEF Init
    <3>2. myRun \in 0..Len(runs) /\ active \in 0..Len(runs)
      BY <2>1, <3>1
    <3> QED BY <2>1, <3>1, <3>2 DEF BooksOK, Ops
  <2> QED BY <2>2 DEF Init, RecordsOK, StateHeard, States, Down
<1>6. Alone
  BY <1>1, Names DEF Init, Alone
<1>7. Watched
  BY <1>1 DEF Init, Watched, WatchesOK, LiveWatched, JoinsOK, BusyOK
<1>8. BudgetOK
  BY DEF Init, BudgetOK
<1> QED BY <1>2, <1>3, <1>4, <1>5, <1>6, <1>7, <1>8 DEF Invariant, Sound, InHand

\* Every step keeps it.
LEMMA InvariantNext == Invariant /\ [Next]_vars => Invariant'
<1> SUFFICES ASSUME Invariant, [Next]_vars PROVE Invariant'
  OBVIOUS
<1>1. Sound
  BY DEF Invariant
<1>2. RecordsOK'
  <2>1. ControlOK /\ RecordsOK
    BY <1>1, ControlParts DEF Sound
  <2> QED BY <2>1, RecordsNext
<1>3. ProcessTypes' /\ LifeOK' /\ LifeGoesOn
  BY <1>1, LifeNext
<1>4. TaskTypes' /\ TrackOK'
  BY <1>1, <1>3, TracksNext
<1>5. ASSUME ~stray' PROVE InHand'
  <2>1. InHand
    BY <1>1, <1>5, StrayStays DEF Invariant
  <2> QED BY <1>1, <1>5, <2>1, AloneNext, BudgetNext DEF InHand
<1> QED BY <1>2, <1>3, <1>4, <1>5 DEF Invariant, Sound

\* It holds throughout.
THEOREM RouterInvariant == Spec => []Invariant
BY InvariantInit, InvariantNext, PTL DEF Spec

\* It implies what the runs check.
LEMMA InvariantTypes == Invariant => TypeOK
BY DEF Invariant, Sound, TaskTypes, ProcessTypes, LifeOK, RecordsOK, BooksOK, Ops, TypeOK

\* The watch tasks tie the processes that live to the one the supervisor holds.
LEMMA InvariantInStep == Invariant => SupervisorInStep
<1> SUFFICES ASSUME Invariant PROVE SupervisorInStep
  OBVIOUS
<1>1. StateHeard /\ LoopTracked
  BY DEF Invariant, Sound, RecordsOK, TrackOK
<1>2. ASSUME ~stray, NEW p \in Live PROVE p = proc /\ state \notin Down
  <2>1. p \in Procs /\ watch[p] = "on" /\ life[p] # "exited"
    BY <1>2 DEF Invariant, InHand, Watched, LiveWatched, Live
  <2> QED BY <1>2, <2>1 DEF Invariant, InHand, Watched, WatchesOK, Leaving
<1>3. LiveIsSupervised
  BY <1>2 DEF LiveIsSupervised
<1> QED BY <1>1, <1>3 DEF SupervisorInStep

\* Attempts are bounded, and so are the relaunches they pay for.
LEMMA InvariantBudget == Invariant => RelaunchBudget
<1> SUFFICES ASSUME Invariant, ~WindowPasses, ~stray PROVE relaunches <= MaxAttempts
  BY DEF RelaunchBudget
<1>1. relaunches <= attempts
  BY DEF Invariant, InHand, BudgetOK
<1>2. attempts \in 0..MaxAttempts /\ relaunches \in Nat /\ MaxAttempts \in Nat
  BY AttemptsAssumption, ZeroLaunches DEF Invariant, Sound, TaskTypes, LifeOK
<1> QED BY <1>1, <1>2

\* Type correctness of the supervisor, its tasks and the run records.
THEOREM RouterTypes == Spec => []TypeOK
BY RouterInvariant, InvariantTypes, PTL

\* Whatever the interleaving of requests, crashes, timeouts and cancellations
\* of router_supervisor.py, for any number of launches: the observer was told
\* of the state, _restart_task holds no loop that ended, and unless a restart
\* loop strayed a living router is the one that the supervisor holds.
THEOREM RouterInStep == Spec => []SupervisorInStep
BY RouterInvariant, InvariantInStep, PTL

\* Unless a loop strayed, the restart loops relaunch the router at most
\* max_attempts times after a start, while window_seconds do not go by.
THEOREM RelaunchesWithinBudget == Spec => []RelaunchBudget
BY RouterInvariant, InvariantBudget, PTL

\* Every change of state follows router_lifecycle.py, but for the CRASHED
\* after a restart that was stopped because it was not ready in time.
THEOREM LifecycleFollowed == Spec => LifecycleKept
<1>1. Invariant /\ [Next]_vars => [Moves]_vars
  BY ControlParts, MovesNext DEF Invariant, Sound
<1>2. [Moves]_vars => [\/ state' = state
                       \/ MayBecome(state, state')
                       \/ state = "STOPPED" /\ state' = "CRASHED"]_vars
  BY DEF Moves
<1> QED BY <1>1, <1>2, RouterInvariant, PTL DEF Spec, LifecycleKept

\* The same of the specification under which no caller is cancelled.
THEOREM HttpInStep == HttpSpec => [](TypeOK /\ SupervisorInStep /\ RelaunchBudget)
<1>1. HttpNext => Next
  BY DEF Next
<1>2. HttpSpec => Spec
  BY <1>1, PTL DEF HttpSpec, Spec
<1> QED BY <1>2, RouterTypes, RouterInStep, RelaunchesWithinBudget, PTL
==============================================================================
