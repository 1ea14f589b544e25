--------------------------- MODULE RouterSupervisor ---------------------------
(***************************************************************************)
(* services/router_supervisor.py together with the start, stop and restart *)
(* operations of services/control_plane.py and app.py that drive it, the   *)
(* state observer of app.py, and the router processes.                     *)
(*                                                                         *)
(* Everything runs on one asyncio event loop, so what happens between two  *)
(* awaits is one step.  The tasks are                                      *)
(*   Caller      the operation that holds the control plane's lock;        *)
(*   the loops   _restart_loop tasks: one is tracked in _restart_task, but *)
(*               others may still be finishing;                            *)
(*   _watch      one per launched process.                                 *)
(* pc[t] is the await at which task t is suspended.                        *)
(***************************************************************************)
EXTENDS Integers, Sequences, FiniteSets

CONSTANTS
  Loops,        \* names for restart-loop tasks
  MaxLaunches,  \* bound on the processes ever launched
  MaxRuns,      \* bound on the run records ever created
  MaxAttempts,  \* RouterRestartPolicy.max_attempts
  WindowPasses, \* whether window_seconds may go by between two attempts
  Prompt        \* whether timers and the outside world wait until the steps
                \* that are due have been taken, as they do unless they fall
                \* into the same turn of the event loop

ASSUME LaunchesAssumption == MaxLaunches \in Nat \ {0}
ASSUME RunsAssumption == MaxRuns \in Nat \ {0}
ASSUME AttemptsAssumption == MaxAttempts \in Nat
ASSUME SwitchAssumption == {WindowPasses, Prompt} \subseteq BOOLEAN

Caller == "caller"
ASSUME LoopsAssumption == Caller \notin Loops /\ "none" \notin Loops

NoLoop == "none"
NoProc == 0
Procs == 1..MaxLaunches
Tasks == Loops \union {Caller}

Down == {"STOPPED", "CRASHED"}
States == Down \union {"STARTING", "READY", "DEGRADED", "STOPPING"}

VARIABLES
  state,      \* RouterSupervisor._state
  proc,       \* _process
  watchTask,  \* _watch_task, named by the process it watches
  enabled,    \* _restart_enabled
  loop,       \* _restart_task
  attempts,   \* len(_restart_attempts)
  life,       \* the processes: "none", "running", "termed", "killed", "exited"
  watch,      \* their _watch tasks: "none", "on", "done", "failed", "cancelled"
  pc,         \* where each task is suspended
  on,         \* the process whose exit, or whose watch task, a task awaits
  cancelled,  \* loops whose cancellation is requested and not yet delivered
  op,         \* the caller's operation: "none", "start", "stop", "restart"
  awaited,    \* the loop the caller's _cancel_restart awaits
  myRun,      \* the run record the caller created
  runs,       \* the run records
  active,     \* app.state.active_server_run_id, 0 before the first run
  announced,  \* the state in the last router.state event
  keyFile,    \* whether the native key file is materialized
  relaunches, \* history: launches by restart loops since start() last got through
  stray       \* history: a restart loop ran on that _restart_task had forgotten,
              \* or that was scheduled while start() cancelled another

tracking == <<loop, attempts, stray>>
supervisor == <<state, proc, watchTask, enabled, tracking>>
processes == <<life, watch>>
tasks == <<pc, on, cancelled, op, awaited, myRun>>
records == <<runs, active, announced>>
vars == <<supervisor, processes, tasks, records, keyFile, relaunches>>

-----------------------------------------------------------------------------
(* domain/router_lifecycle.py                                              *)

MayBecome(from, to) ==
  to \in CASE from = "STOPPED"  -> {"STARTING"}
           [] from = "STARTING" -> {"READY", "STOPPING", "CRASHED"}
           [] from = "READY"    -> {"DEGRADED", "STOPPING", "CRASHED"}
           [] from = "DEGRADED" -> {"READY", "STOPPING", "CRASHED"}
           [] from = "STOPPING" -> {"STOPPED", "CRASHED"}
           [] from = "CRASHED"  -> {"STARTING", "STOPPED"}

-----------------------------------------------------------------------------
(* Run records and the observer.                                           *)

NewRun == [state |-> "STARTING", error |-> FALSE, ended |-> FALSE]

\* ServerRunRegistry.update: ended_at is stamped once, an error is kept.
Updated(run, st, failed) ==
  [state |-> st, error |-> run.error \/ failed, ended |-> run.ended \/ st \in Down]

\* The records once the observer has heard st, when that opens none.
Recorded(known, st) ==
  IF active = 0 THEN known ELSE [known EXCEPT ![active] = Updated(@, st, FALSE)]

\* record_router_state: a start over a finished run, which is what an
\* automatic restart is, opens a record of its own.
Notify(st) ==
  /\ announced' = st
  /\ IF active # 0 /\ st = "STARTING" /\ runs[active].state \in Down
       THEN /\ Len(runs) < MaxRuns
            /\ runs' = Append(runs, NewRun)
            /\ active' = Len(runs) + 1
       ELSE /\ runs' = Recorded(runs, st)
            /\ UNCHANGED active

\* A variant: the state is assigned and the observer is not called.
SetStateSilently(st) == state' = st /\ UNCHANGED records

\* _set_state
SetState(st) == state' = st /\ Notify(st)

-----------------------------------------------------------------------------
(* How a step of a task ends.                                              *)

Suspend(t, at, target) ==
  /\ pc' = [pc EXCEPT ![t] = at]
  /\ on' = [on EXCEPT ![t] = target]

\* The caller's operation is over and the lock is released.
Release ==
  /\ Suspend(Caller, "off", NoProc)
  /\ op' = "none"
  /\ myRun' = 0

\* ControlPlane._failed_start, which records the state st the supervisor is
\* in by then.
FailedStart(known, st) ==
  /\ keyFile' = FALSE
  /\ runs' = [known EXCEPT ![myRun] = Updated(@, st, TRUE)]
  /\ Release

\* ControlPlane.start_router_locked up to the port probe.  It is refused in
\* any state but Down, and for want of a usable runtime or profile.
StartRouter(st, known) ==
  \/ /\ st \in Down
     /\ Len(known) < MaxRuns
     /\ keyFile' = TRUE
     /\ runs' = Append(known, NewRun)
     /\ active' = Len(known) + 1
     /\ myRun' = Len(known) + 1
     /\ op' = "start"
     /\ Suspend(Caller, "probe", NoProc)
  \/ /\ Release
     /\ runs' = known
     /\ UNCHANGED <<active, keyFile>>

\* A variant: a loop that returns early does not clear _restart_task.
LoopExitsTracked(t) == Suspend(t, "off", NoProc) /\ UNCHANGED tracking

\* The finally clause of _restart_loop forgets whatever _restart_task holds,
\* which may be another loop.
Forgets(t) ==
  /\ loop' = NoLoop
  /\ stray' = (stray \/ loop \notin {t, NoLoop})

LoopExits(t) ==
  /\ Suspend(t, "off", NoProc)
  /\ Forgets(t)
  /\ UNCHANGED attempts

\* A variant: one attempt too many.
LoopContinuesOnceMore(t, st) ==
  IF enabled /\ st \in Down /\ attempts <= MaxAttempts
    THEN Suspend(t, "sleep", NoProc) /\ attempts' = attempts + 1 /\ UNCHANGED <<loop, stray>>
    ELSE LoopExits(t)

\* The head of its while loop, in state st.
LoopContinues(t, st) ==
  IF enabled /\ st \in Down
    THEN \E kept \in (IF WindowPasses THEN 0..attempts ELSE {attempts}) :
           IF kept >= MaxAttempts
             THEN /\ Suspend(t, "off", NoProc)
                  /\ Forgets(t)
                  /\ attempts' = kept
             ELSE /\ Suspend(t, "sleep", NoProc)
                  /\ attempts' = kept + 1
                  /\ UNCHANGED <<loop, stray>>
    ELSE LoopExits(t)

\* What a step of the caller, and one of a loop, leaves alone.
CallerKeeps == UNCHANGED tracking
LoopKeeps == UNCHANGED <<op, myRun, keyFile>>

\* The task returns, or its CancelledError is not caught by anything.
Leaves(t) ==
  IF t = Caller
    THEN Release /\ CallerKeeps /\ UNCHANGED keyFile
    ELSE LoopExits(t) /\ LoopKeeps

\* _start_once or wait_until_ready raised one of the errors both callers
\* expect, and the supervisor is in state st.
StartFails(t, known, st) ==
  IF t = Caller
    THEN FailedStart(known, st) /\ CallerKeeps
    ELSE LoopContinues(t, st) /\ LoopKeeps /\ runs' = known

\* _stop_process returned in state st.
Stopped(t, st, heard, known) ==
  IF t = Caller
    THEN /\ state' = st
         /\ announced' = heard
         /\ CallerKeeps
         /\ CASE op = "stop" -> /\ keyFile' = FALSE
                                /\ runs' = known
                                /\ Release
                                /\ UNCHANGED active
              [] op = "restart" -> StartRouter(st, known)
              [] op = "start" -> FailedStart(known, st) /\ UNCHANGED active
    ELSE /\ state' = "CRASHED"
         /\ announced' = "CRASHED"
         /\ runs' = Recorded(known, "CRASHED")
         /\ UNCHANGED active
         /\ LoopContinues(t, "CRASHED")
         /\ LoopKeeps

\* _stop_process raised in state st.
StopFails(t, st, heard, known) ==
  /\ state' = st
  /\ announced' = heard
  /\ UNCHANGED active
  /\ IF t = Caller /\ op # "start"
       THEN Release /\ CallerKeeps /\ runs' = known /\ UNCHANGED keyFile
       ELSE StartFails(t, known, st)

-----------------------------------------------------------------------------
(* What lets a task go on.                                                 *)

\* The event loop has t's next step in its queue already.
Due(t) ==
  \/ t \in cancelled
  \/ pc[t] \in {"begin", "probed"}
  \/ pc[t] \in {"joinEarly", "joinWatch"} /\ watch[on[t]] # "on"
  \/ pc[t] \in {"cancelStart", "cancelStop"} /\ awaited = NoLoop

\* A condition of the steps that answer a timer or the outside world.
\* (The exit of a process may be noticed in any turn.)
Settled == Prompt => \A t \in Tasks : ~Due(t)

\* Task t is at that await and is not to be cancelled there.
At(t, at) == pc[t] \in at /\ t \notin cancelled

-----------------------------------------------------------------------------
(* _start_once                                                             *)

\* A variant: the transition is not checked.
LaunchingUnchecked(t) ==
  /\ keyFile
  /\ SetState("STARTING")
  /\ Suspend(t, "launch", NoProc)
  /\ UNCHANGED <<op, myRun, keyFile>>

\* RouterLaunch.arguments, which needs the key file, and require_transition
\* have raised nothing.
Launching(t) ==
  /\ keyFile /\ MayBecome(state, "STARTING")
  /\ SetState("STARTING")
  /\ Suspend(t, "launch", NoProc)
  /\ UNCHANGED <<op, myRun, keyFile>>

\* One of them raised ValueError, before anything changed.  Besides the key
\* file the arguments need files that may be gone at any time.
LaunchRefused(t) ==
  /\ IF t = Caller THEN FailedStart(runs, state) ELSE StartFails(t, runs, state)
  /\ UNCHANGED <<state, announced, active>>

\* The launcher returns a process; wait_until_ready is entered in the same
\* step, and refuses a state that has changed meanwhile.
LaunchSucceeds(t) ==
  \E p \in Procs :
    /\ At(t, {"launch"}) /\ Settled
    /\ \A q \in Procs : life[q] = "none" <=> q >= p
    /\ life' = [life EXCEPT ![p] = "running"]
    /\ watch' = [watch EXCEPT ![p] = "on"]
    /\ proc' = p
    /\ watchTask' = p
    /\ relaunches' = IF t = Caller THEN relaunches ELSE relaunches + 1
    /\ IF state = "STARTING"
         THEN /\ Notify(state)
              /\ Suspend(t, "poll", NoProc)
              /\ CallerKeeps
              /\ LoopKeeps
         ELSE /\ announced' = state
              /\ UNCHANGED active
              /\ StartFails(t, Recorded(runs, state), state)
    /\ UNCHANGED <<state, enabled, cancelled, awaited>>

LaunchFails(t) ==
  /\ At(t, {"launch"}) /\ Settled
  /\ state' = "CRASHED"
  /\ announced' = "CRASHED"
  /\ StartFails(t, Recorded(runs, "CRASHED"), "CRASHED")
  /\ UNCHANGED <<proc, watchTask, enabled, processes, cancelled, awaited, active,
                 relaunches>>

-----------------------------------------------------------------------------
(* wait_until_ready                                                        *)

Waiting == {"poll", "probed", "joinEarly"}

\* /health is answered by whatever process has the port.
ProbeAnswers(t) ==
  /\ At(t, {"poll"}) /\ Settled
  /\ \E p \in Procs : life[p] \in {"running", "termed"}
  /\ Suspend(t, "probed", NoProc)
  /\ UNCHANGED <<supervisor, processes, cancelled, op, awaited, myRun, records, keyFile,
                 relaunches>>

\* A variant: mark_ready does not check the transition.
MarkReadyUnchecked(t) ==
  /\ At(t, {"probed"})
  /\ SetState("READY")
  /\ Leaves(t)
  /\ UNCHANGED <<proc, watchTask, enabled, processes, cancelled, awaited, relaunches>>

\* mark_ready
MarkReady(t) ==
  /\ At(t, {"probed"})
  /\ IF MayBecome(state, "READY")
       THEN SetState("READY") /\ Leaves(t)
       ELSE /\ StartFails(t, runs, state)
            /\ UNCHANGED <<state, announced, active>>
  /\ UNCHANGED <<proc, watchTask, enabled, processes, cancelled, awaited, relaunches>>

\* How the task w has ended, as an await of it tells.
Outcome(w) == IF w = NoProc THEN "done" ELSE watch[w]

\* "router exited before becoming ready", raised once the watch task ended;
\* an error of the watch task's own has the same effect.
ExitedEarly(t, w) ==
  /\ Outcome(w) # "on"
  /\ IF Outcome(w) = "cancelled"
       THEN Leaves(t) /\ UNCHANGED runs
       ELSE StartFails(t, runs, state)
  /\ UNCHANGED <<state, proc, watchTask, enabled, processes, cancelled, awaited,
                 announced, active, relaunches>>

\* The probe fails and the process is found gone.  (While it is alive the
\* next probe follows, which changes nothing.)
ProbeFails(t) ==
  /\ At(t, {"poll"}) /\ Settled
  /\ proc # NoProc => life[proc] = "exited"
  /\ \/ ExitedEarly(t, watchTask)
     \/ /\ Outcome(watchTask) = "on"
        /\ Suspend(t, "joinEarly", watchTask)
        /\ UNCHANGED <<supervisor, processes, cancelled, op, awaited, myRun, records,
                       keyFile, relaunches>>

JoinEarly(t) ==
  /\ At(t, {"joinEarly"})
  /\ ExitedEarly(t, on[t])

-----------------------------------------------------------------------------
(* _stop_process, up to the wait for the process                           *)

Terminated == IF life[proc] = "running" THEN [life EXCEPT ![proc] = "termed"] ELSE life

StopProcess(t) ==
  \/ /\ state = "STOPPED"
     /\ Stopped(t, state, announced, runs)
     /\ UNCHANGED life
  \/ /\ state = "CRASHED"   \* the observer is not told
     /\ Stopped(t, "STOPPED", announced, runs)
     /\ UNCHANGED life
  \/ /\ state = "STOPPING"  \* refused by require_transition
     /\ StopFails(t, state, announced, runs)
     /\ UNCHANGED life
  \/ /\ MayBecome(state, "STOPPING")
     /\ IF proc = NoProc
          THEN /\ StopFails(t, "CRASHED", "CRASHED", Recorded(runs, "CRASHED"))
               /\ UNCHANGED life
          ELSE /\ SetState("STOPPING")
               /\ life' = Terminated
               /\ Suspend(t, "ending", proc)
               /\ CallerKeeps
               /\ LoopKeeps

\* A task that awaits the watch task passes its own cancellation, which is
\* also how a timeout arrives, on to it.
Cancelling(tasksOf, t) ==
  IF pc[t] \in {"joinEarly", "joinWatch"} /\ tasksOf[on[t]] = "on"
    THEN [tasksOf EXCEPT ![on[t]] = "cancelled"]
    ELSE tasksOf

\* _cancel_restart, up to its await.
CancelLoop(at) ==
  /\ loop # NoLoop
  /\ loop' = NoLoop
  /\ cancelled' = cancelled \union {loop}
  /\ awaited' = loop
  /\ watch' = Cancelling(Cancelling(watch, Caller), loop)
  /\ Suspend(Caller, at, NoProc)
  /\ UNCHANGED <<attempts, stray, op, myRun, keyFile, state, records, life>>

\* stop(), called by a request or on a timeout of wait_until_ready.
Stop ==
  /\ enabled' = FALSE
  /\ \/ CancelLoop("cancelStop")
     \/ /\ loop = NoLoop
        /\ StopProcess(Caller)
        /\ watch' = Cancelling(watch, Caller)
        /\ UNCHANGED <<cancelled, awaited>>
  /\ UNCHANGED <<proc, watchTask, relaunches>>

StopAfterCancelling ==
  /\ pc[Caller] = "cancelStop" /\ awaited = NoLoop
  /\ StopProcess(Caller)
  /\ UNCHANGED <<proc, watchTask, enabled, watch, cancelled, awaited, relaunches>>

ReadyTimeout(t) ==
  /\ At(t, {"poll", "probed", "joinEarly"}) /\ Settled
  /\ IF t = Caller
       THEN Stop
       ELSE /\ StopProcess(t)
            /\ watch' = Cancelling(watch, t)
            /\ UNCHANGED <<proc, watchTask, enabled, cancelled, awaited, relaunches>>

-----------------------------------------------------------------------------
(* _stop_process, from the wait for the process on                         *)

\* A variant: a process that ignores SIGTERM is waited for without a kill.
GraceTimeoutOnlyWaits(t) ==
  /\ At(t, {"ending"})
  /\ life[on[t]] # "exited"
  /\ Suspend(t, "killing", on[t])
  /\ UNCHANGED <<supervisor, processes, cancelled, op, awaited, myRun, records, keyFile,
                 relaunches>>

\* The grace period is over: terminate_tree(force=True).
GraceTimeout(t) ==
  /\ At(t, {"ending"}) /\ Settled
  /\ life[on[t]] # "exited"
  /\ life' = [life EXCEPT ![on[t]] = "killed"]
  /\ Suspend(t, "killing", on[t])
  /\ UNCHANGED <<supervisor, watch, cancelled, op, awaited, myRun, records, keyFile,
                 relaunches>>

\* The await of the watch task w at the end, in state st.
WatchJoined(t, w, st, heard, known) ==
  \/ /\ Outcome(w) = "done"
     /\ watchTask' = NoProc
     /\ Stopped(t, st, heard, known)
  \/ /\ Outcome(w) = "failed"
     /\ StopFails(t, st, heard, known)
     /\ UNCHANGED watchTask
  \/ /\ Outcome(w) = "cancelled"
     /\ Leaves(t)
     /\ state' = st /\ announced' = heard /\ runs' = known
     /\ UNCHANGED <<watchTask, active>>

\* A variant: a process that is killed is not waited for.
ProcessGoneOrKilled(t) ==
  /\ At(t, {"killing"})
  /\ SetState("STOPPED")
  /\ proc' = NoProc
  /\ watchTask' = NoProc
  /\ Leaves(t)
  /\ UNCHANGED <<enabled, processes, cancelled, awaited, relaunches>>

ProcessGone(t) ==
  LET was == state = "STOPPING"
      st == IF was THEN "STOPPED" ELSE state
      heard == IF was THEN "STOPPED" ELSE announced
      known == IF was THEN Recorded(runs, "STOPPED") ELSE runs
  IN  /\ At(t, {"ending", "killing"})
      /\ life[on[t]] = "exited"
      /\ proc' = NoProc
      /\ \/ WatchJoined(t, watchTask, st, heard, known)
         \/ /\ Outcome(watchTask) = "on"
            /\ state' = st /\ announced' = heard /\ runs' = known
            /\ Suspend(t, "joinWatch", watchTask)
            /\ CallerKeeps
            /\ LoopKeeps
            /\ UNCHANGED <<watchTask, active>>
      /\ UNCHANGED <<enabled, processes, cancelled, awaited, relaunches>>

JoinWatch(t) ==
  /\ At(t, {"joinWatch"})
  /\ WatchJoined(t, on[t], state, announced, runs)
  /\ UNCHANGED <<proc, enabled, processes, cancelled, awaited, relaunches>>

-----------------------------------------------------------------------------
(* The caller's requests.                                                  *)

\* A request takes the lock.
Request ==
  /\ pc[Caller] = "off" /\ Settled
  /\ op' \in {"start", "stop", "restart"}
  /\ op' = "restart" => active # 0
  /\ Suspend(Caller, "locked", NoProc)
  /\ UNCHANGED <<supervisor, processes, cancelled, awaited, myRun, records, keyFile,
                 relaunches>>

StartRequest ==
  /\ pc[Caller] = "locked" /\ op = "start"
  /\ StartRouter(state, runs)
  /\ UNCHANGED <<supervisor, processes, cancelled, awaited, announced, relaunches>>

StopRequest ==
  /\ pc[Caller] = "locked" /\ op # "start"
  /\ Stop

\* The port probe finds the port taken: by this router's own process, or by
\* any other program.
PortTaken ==
  /\ pc[Caller] = "probe" /\ Settled
  /\ runs' = [runs EXCEPT ![myRun] = Updated(@, "CRASHED", TRUE)]
  /\ Release
  /\ UNCHANGED <<supervisor, processes, cancelled, awaited, active, announced, keyFile,
                 relaunches>>

\* start() after _cancel_restart
BeginStart ==
  /\ attempts' = 0
  /\ enabled' = TRUE
  /\ relaunches' = 0
  /\ stray' = (stray \/ \E t \in Loops : pc[t] # "off")
  /\ Launching(Caller) \/ LaunchRefused(Caller)
  /\ UNCHANGED <<proc, watchTask, loop, processes, cancelled, awaited>>

\* The port is free, so no process of ours is listening.
PortFree ==
  /\ pc[Caller] = "probe" /\ Settled
  /\ \A p \in Procs : life[p] \notin {"running", "termed"}
  /\ \/ /\ loop = NoLoop
        /\ BeginStart
     \/ /\ CancelLoop("cancelStart")
        /\ UNCHANGED <<proc, watchTask, enabled, relaunches>>

StartAfterCancelling ==
  /\ pc[Caller] = "cancelStart" /\ awaited = NoLoop
  /\ BeginStart

\* The task of an assistant's turn or of a benchmark is cancelled.  At the
\* await in _cancel_restart the cancellation is suppressed.
CancelCaller ==
  /\ pc[Caller] \in {"probe", "launch", "poll", "probed", "joinEarly", "ending", "killing",
                     "joinWatch"}
  /\ watch' = Cancelling(watch, Caller)
  /\ Leaves(Caller)
  /\ UNCHANGED <<state, proc, watchTask, enabled, life, cancelled, awaited, records,
                 relaunches>>

-----------------------------------------------------------------------------
(* The restart loops.                                                      *)

LoopBegins(t) ==
  /\ At(t, {"begin"})
  /\ LoopContinues(t, state)
  /\ UNCHANGED <<state, proc, watchTask, enabled, processes, cancelled, op, awaited, myRun,
                 records, keyFile, relaunches>>

\* After delay_seconds.
LoopWakes(t) ==
  /\ At(t, {"sleep"}) /\ Settled
  /\ \/ /\ ~enabled
        /\ Leaves(t)
        /\ UNCHANGED <<state, records>>
     \/ /\ enabled
        /\ Launching(t)
        /\ UNCHANGED tracking
     \/ /\ enabled
        /\ LaunchRefused(t)
  /\ UNCHANGED <<proc, watchTask, enabled, processes, cancelled, awaited, relaunches>>

\* CancelledError is raised in the loop; a loop that had not begun does not
\* reach its finally clause.
LoopCancelled(t) ==
  /\ t \in cancelled
  /\ cancelled' = cancelled \ {t}
  /\ awaited' = IF awaited = t THEN NoLoop ELSE awaited
  /\ Suspend(t, "off", NoProc)
  /\ IF pc[t] = "begin" THEN UNCHANGED <<loop, stray>> ELSE Forgets(t)
  /\ UNCHANGED <<state, proc, watchTask, enabled, attempts, processes, op, myRun, records,
                 keyFile, relaunches>>

-----------------------------------------------------------------------------
(* The watch tasks.                                                        *)

ScheduleRestart ==
  /\ IF MaxAttempts # 0 /\ enabled /\ loop = NoLoop
       THEN \E t \in Loops :
              /\ pc[t] = "off"
              /\ loop' = t
              /\ Suspend(t, "begin", NoProc)
       ELSE UNCHANGED <<loop, pc, on>>
  /\ proc' = NoProc

\* A variant: an exit counts only while starting or stopping.
WatchWhileChanging(p) ==
  /\ watch[p] = "on" /\ life[p] = "exited"
  /\ watch' = [watch EXCEPT ![p] = "done"]
  /\ \/ /\ p # proc \/ state \notin {"STARTING", "STOPPING"}
        /\ UNCHANGED <<state, records, proc, loop, pc, on>>
     \/ /\ p = proc /\ state = "STOPPING"
        /\ SetState("STOPPED")
        /\ UNCHANGED <<proc, loop, pc, on>>
     \/ /\ p = proc /\ state = "STARTING"
        /\ SetState("CRASHED")
        /\ ScheduleRestart
  /\ UNCHANGED <<watchTask, enabled, attempts, stray, life, cancelled, op, awaited, myRun, keyFile,
                 relaunches>>

Watch(p) ==
  /\ watch[p] = "on" /\ life[p] = "exited"
  /\ watch' = [watch EXCEPT ![p] = "done"]
  /\ \/ /\ p # proc \/ state = "STOPPED"
        /\ UNCHANGED <<state, records, proc, loop, pc, on>>
     \/ /\ p = proc /\ state = "STOPPING"
        /\ SetState("STOPPED")
        /\ UNCHANGED <<proc, loop, pc, on>>
     \/ /\ p = proc /\ state \notin {"STOPPED", "STOPPING"}
        /\ SetState("CRASHED")
        /\ ScheduleRestart
  /\ UNCHANGED <<watchTask, enabled, attempts, stray, life, cancelled, op, awaited, myRun, keyFile,
                 relaunches>>

\* A watch task fails once its process has exited (closing the job or the
\* profiler's hook raises): _background_task_done.
WatchFails(p) ==
  /\ watch[p] = "on" /\ life[p] = "exited"
  /\ watch' = [watch EXCEPT ![p] = "failed"]
  /\ \/ /\ state \in {"STOPPED", "STOPPING"}
        /\ UNCHANGED <<state, records, proc, loop, pc, on, life>>
     \/ /\ state \notin {"STOPPED", "STOPPING"}
        /\ IF state = "CRASHED" THEN UNCHANGED <<state, records>> ELSE SetState("CRASHED")
        /\ life' = IF proc # NoProc /\ life[proc] # "exited"
                     THEN [life EXCEPT ![proc] = "killed"] ELSE life
        /\ ScheduleRestart
  /\ UNCHANGED <<watchTask, enabled, attempts, stray, cancelled, op, awaited, myRun, keyFile,
                 relaunches>>

\* The same for the log reader.
LogCaptureFails ==
  /\ state = "READY"
  /\ SetState("DEGRADED")
  /\ UNCHANGED <<proc, watchTask, enabled, tracking, processes, tasks, keyFile,
                 relaunches>>

-----------------------------------------------------------------------------
(* The router processes.                                                   *)

Exits(p, from) ==
  /\ life[p] = from /\ Settled
  /\ life' = [life EXCEPT ![p] = "exited"]
  /\ UNCHANGED <<supervisor, watch, tasks, records, keyFile, relaunches>>

Crash(p) == Exits(p, "running")
ObeysSignal(p) == Exits(p, "termed")
Dies(p) == Exits(p, "killed")

-----------------------------------------------------------------------------
Init ==
  /\ state = "STOPPED"
  /\ proc = NoProc
  /\ watchTask = NoProc
  /\ enabled = FALSE
  /\ loop = NoLoop
  /\ attempts = 0
  /\ life = [p \in Procs |-> "none"]
  /\ watch = [p \in Procs |-> "none"]
  /\ pc = [t \in Tasks |-> "off"]
  /\ on = [t \in Tasks |-> NoProc]
  /\ cancelled = {}
  /\ op = "none"
  /\ awaited = NoLoop
  /\ myRun = 0
  /\ runs = <<>>
  /\ active = 0
  /\ announced = "STOPPED"
  /\ keyFile = FALSE
  /\ relaunches = 0
  /\ stray = FALSE

CallerStep ==
  \/ StartRequest
  \/ StopRequest
  \/ PortTaken
  \/ PortFree
  \/ StartAfterCancelling
  \/ StopAfterCancelling

TaskStep(t) ==
  \/ LaunchSucceeds(t)
  \/ LaunchFails(t)
  \/ ProbeAnswers(t)
  \/ MarkReady(t)
  \/ ProbeFails(t)
  \/ JoinEarly(t)
  \/ ReadyTimeout(t)
  \/ GraceTimeout(t)
  \/ ProcessGone(t)
  \/ JoinWatch(t)

LoopTaskStep(t) ==
  \/ LoopBegins(t)
  \/ LoopWakes(t)
  \/ LoopCancelled(t)

\* The callers are HTTP requests, which nobody cancels.
HttpNext ==
  \/ Request
  \/ CallerStep
  \/ \E t \in Tasks : TaskStep(t)
  \/ \E t \in Loops : LoopTaskStep(t)
  \/ \E p \in Procs : Watch(p) \/ WatchFails(p)
  \/ LogCaptureFails
  \/ \E p \in Procs : Crash(p) \/ ObeysSignal(p) \/ Dies(p)

\* The callers may be the tasks of the assistant and of benchmarks as well.
Next == HttpNext \/ CancelCaller

Spec == Init /\ [][Next]_vars
HttpSpec == Init /\ [][HttpNext]_vars

\* A task whose await is over runs; each timeout passes; a killed process
\* dies and the exit of a process is noticed.  Nobody has to make a request,
\* a router need neither answer, nor crash, nor obey a signal.
FairSpec ==
  /\ HttpSpec
  /\ WF_vars(CallerStep)
  /\ \A t \in Tasks : WF_vars(TaskStep(t))
  /\ \A t \in Loops : WF_vars(LoopTaskStep(t))
  /\ \A p \in Procs : WF_vars(Watch(p) \/ WatchFails(p)) /\ WF_vars(Dies(p))

-----------------------------------------------------------------------------
Pcs == {"off", "locked", "probe", "cancelStart", "cancelStop", "begin", "sleep", "launch",
        "poll", "probed", "joinEarly", "ending", "killing", "joinWatch"}

Runs == [state : States, error : BOOLEAN, ended : BOOLEAN]

TypeOK ==
  /\ state \in States
  /\ proc \in Procs \union {NoProc}
  /\ watchTask \in Procs \union {NoProc}
  /\ enabled \in BOOLEAN
  /\ loop \in Loops \union {NoLoop}
  /\ attempts \in 0..MaxAttempts
  /\ life \in [Procs -> {"none", "running", "termed", "killed", "exited"}]
  /\ watch \in [Procs -> {"none", "on", "done", "failed", "cancelled"}]
  /\ pc \in [Tasks -> Pcs]
  /\ on \in [Tasks -> Procs \union {NoProc}]
  /\ cancelled \subseteq Loops
  /\ op \in {"none", "start", "stop", "restart"}
  /\ awaited \in Loops \union {NoLoop}
  /\ runs \in Seq(Runs)
  /\ myRun \in 0..Len(runs)
  /\ active \in 0..Len(runs)
  /\ announced \in States
  /\ keyFile \in BOOLEAN
  /\ relaunches \in 0..MaxLaunches
  /\ stray \in BOOLEAN

-----------------------------------------------------------------------------
Live == {p \in Procs : life[p] \in {"running", "termed", "killed"}}

\* A router process that is alive is the one the supervisor holds, and none is
\* while it says that the router is stopped or crashed, whatever the
\* interleaving of starts, stops, crashes, timeouts and cancellations: as long
\* as no restart loop has got out of the supervisor's hands.
LiveIsSupervised ==
  ~stray => Live \subseteq {proc} /\ (state \in Down => Live = {})

\* The observer (the events and the run history) was told of the state the
\* supervisor is in, but for a crashed router that was reset by a stop,
\* which _stop_process does not announce.
StateHeard ==
  announced = state \/ (announced = "CRASHED" /\ state = "STOPPED")

\* While window_seconds do not go by, the restart loops together relaunch
\* the router at most max_attempts times after a start, also when several
\* of them overlap (but for a loop that start() left running).
RelaunchBudget == ~WindowPasses /\ ~stray => relaunches <= MaxAttempts

\* _restart_task never holds a loop that has ended: _schedule_restart would
\* take it for a restart under way, and a crash would be left alone.
LoopTracked == loop # NoLoop => pc[loop] # "off"

\* The supervisor, the observer it reports to, the processes and the restart
\* loops agree.
SupervisorInStep == LiveIsSupervised /\ StateHeard /\ LoopTracked

\* Every change of state, by whichever task, is in the table of
\* router_lifecycle.py, although _set_state does not look at it; the one
\* exception is the CRASHED that follows the stop of a restart which was not
\* ready in time.
LifecycleKept ==
  [][\/ state' = state
     \/ MayBecome(state, state')
     \/ state = "STOPPED" /\ state' = "CRASHED"]_vars

\* Every operation ends and releases the lock, although it may wait for
\* another task to be cancelled, for a process that ignores SIGTERM and for
\* a watch task that is not the one of its own process.
LockReleased == pc[Caller] # "off" ~> pc[Caller] = "off"

\* A router that died is not reported as up for ever.
DeathNoticed ==
  state \in {"READY", "DEGRADED"} /\ Live = {}
    ~> state \notin {"READY", "DEGRADED"} \/ Live # {}

\* After a death and after a request the router can be started again.
Recovers == LockReleased /\ DeathNoticed

-----------------------------------------------------------------------------
(* A promise the code does not keep in every interleaving.                 *)

\* "without orphaned workers or an occupied port"
NoOrphanedRouter == state \in Down => Live = {}
==============================================================================
