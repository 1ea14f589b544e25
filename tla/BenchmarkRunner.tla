--------------------------- MODULE BenchmarkRunner ---------------------------
(***************************************************************************)
(* Benchmark runs (BenchmarkRunner and BenchmarkRunRegistry in             *)
(* services/benchmark_runner.py): one task at a time that starts the       *)
(* router, loads a model, generates, stops the router and saves, while     *)
(* runs are cancelled and deleted, the operator starts and stops the       *)
(* router through the same lock, and the application stops or crashes.     *)
(*                                                                         *)
(* What the model says and its tools do is BenchmarkAgent; what a start    *)
(* and a stop of the router go through is RouterSupervisor.                *)
(***************************************************************************)
EXTENDS Naturals, FiniteSets

CONSTANTS
  Runs,          \* run ids
  NoRun,
  MaxRequests,   \* bound: the operator's router requests
  MaxCancels,    \* bound: requests to cancel
  MaxStops       \* bound: times the application stops or crashes

ASSUME NoRunAssumption == NoRun \notin Runs

VARIABLES
  record,     \* state of each run's record
  folder,     \* runs that have a folder of files
  active,     \* _active
  at,         \* where the runner's task (of run latest) is
  latest,
  outcome,    \* what the task will save
  cancelling, \* a cancellation was requested and is not delivered yet
  threads,    \* runs with a tool call still running in a worker thread
  lock,       \* who holds the router's lifecycle lock
  router,     \* who started the router that runs, or "stopped"
  operator,   \* the operator's request
  app,        \* "up", "closing" or "down"
  left,       \* runs whose stop of the router failed or was interrupted
  requests, cancels, stops

RunnerVars == <<record, folder, active, at, latest, outcome, cancelling,
                threads, lock, router, operator, app, left, requests, cancels,
                stops>>
counts == <<requests, cancels, stops>>

Saved == {"completed", "failed", "cancelled"}
Awaits == {"created", "lockStart", "starting", "loading", "generating", "tool",
           "watcher", "lockStop", "stopping"}
Live == at \in Awaits

RunnerInit ==
  /\ record = [r \in Runs |-> "none"] /\ folder = {} /\ active = NoRun
  /\ at = "none" /\ latest = NoRun /\ outcome = "none" /\ cancelling = FALSE
  /\ threads = {} /\ lock = "free" /\ router = "stopped" /\ operator = "idle"
  /\ app = "up" /\ left = {} /\ requests = 0 /\ cancels = 0 /\ stops = 0

----------------------------------------------------------------------------
(* Requests                                                                *)

CreateRun(r) == record[r] = "none" /\ record' = [record EXCEPT ![r] = "running"]

\* start
Start(r) ==
  /\ app = "up" /\ ~Live /\ router = "stopped" /\ CreateRun(r)
  /\ active' = r /\ latest' = r /\ at' = "created" /\ outcome' = "completed"
  /\ cancelling' = FALSE
  /\ UNCHANGED <<folder, threads, lock, router, operator, app, left, counts>>

\* cancel: the task is told, and the request waits for it to end.
Cancel ==
  /\ app = "up" /\ cancels < MaxCancels
  /\ active = latest /\ Live
  /\ cancelling' = TRUE /\ cancels' = cancels + 1
  /\ UNCHANGED <<record, folder, active, at, latest, outcome, threads, lock,
                 router, operator, app, left, requests, stops>>

\* delete: of a run that is not running, with its files.
Delete(r) ==
  /\ app = "up" /\ record[r] \in Saved
  /\ record' = [record EXCEPT ![r] = "deleted"]
  /\ folder' = folder \ {r}
  /\ UNCHANGED <<active, at, latest, outcome, cancelling, threads, lock,
                 router, operator, app, left, counts>>

\* Deleting the profile, while the router is stopped, deletes the runs' records
\* under way too; the folders stay.
DeleteProfile ==
  /\ app = "up" /\ router = "stopped"
  /\ \E r \in Runs : record[r] \in Saved \cup {"running"}
  /\ record' = [r \in Runs |-> IF record[r] = "none" THEN "none" ELSE "deleted"]
  /\ UNCHANGED <<folder, active, at, latest, outcome, cancelling, threads,
                 lock, router, operator, app, left, counts>>

\* The operator starts or stops the router, under the lifecycle lock.
OperatorAsks(what) ==
  /\ app = "up" /\ operator = "idle" /\ requests < MaxRequests
  /\ operator' = what /\ requests' = requests + 1
  /\ UNCHANGED <<record, folder, active, at, latest, outcome, cancelling,
                 threads, lock, router, app, left, cancels, stops>>

OperatorLocks ==
  /\ operator \in {"start", "stop"} /\ lock = "free"
  /\ lock' = "operator"
  /\ operator' = IF operator = "start" THEN "starting" ELSE "stopping"
  /\ UNCHANGED <<record, folder, active, at, latest, outcome, cancelling,
                 threads, router, app, left, counts>>

\* A start is refused while the router runs; either request may fail.
OperatorDone ==
  /\ operator \in {"starting", "stopping"}
  /\ IF operator = "starting"
     THEN router' \in IF router = "stopped" THEN {"stopped", "operator"}
                      ELSE {router}
     ELSE router' \in {"stopped", router}
  /\ lock' = "free" /\ operator' = "idle"
  /\ UNCHANGED <<record, folder, active, at, latest, outcome, cancelling,
                 threads, app, left, counts>>

RouterDies ==
  /\ router # "stopped" /\ lock = "free" /\ requests < MaxRequests
  /\ router' = "stopped" /\ requests' = requests + 1
  /\ UNCHANGED <<record, folder, active, at, latest, outcome, cancelling,
                 threads, lock, operator, app, left, cancels, stops>>

----------------------------------------------------------------------------
(* The run                                                                 *)

\* The clauses that end the task: it goes on to stop the router.
EndsAs(state) == at' = "lockStop" /\ outcome' = state

Step(from, to) == at = from /\ ~cancelling /\ at' = to /\ UNCHANGED outcome

\* The task's first step takes the lock at once when nobody holds it.
Begins ==
  /\ Step("created", IF lock = "free" THEN "starting" ELSE "lockStart")
  /\ lock' = IF lock = "free" THEN "run" ELSE lock
  /\ UNCHANGED <<record, folder, active, latest, cancelling, threads, router,
                 operator, app, left, counts>>

LocksToStart ==
  /\ Step("lockStart", "starting") /\ lock = "free" /\ lock' = "run"
  /\ UNCHANGED <<record, folder, active, latest, cancelling, threads, router,
                 operator, app, left, counts>>

\* start_router: refused when a router runs, else it comes up or fails.
Started ==
  /\ at = "starting" /\ ~cancelling /\ lock' = "free"
  /\ \/ router = "stopped" /\ router' = "run" /\ at' = "loading"
        /\ UNCHANGED outcome
     \/ UNCHANGED router /\ EndsAs("failed")
  /\ UNCHANGED <<record, folder, active, latest, cancelling, threads, operator,
                 app, left, counts>>

\* load_model and _wait_loaded: a router that does not answer is asked again,
\* until the model is loaded, has failed, or the time is up.
Loaded ==
  /\ Step("loading", "generating") /\ router # "stopped"
  /\ UNCHANGED <<record, folder, active, latest, cancelling, threads, lock,
                 router, operator, app, left, counts>>

\* A variant: _wait_loaded only gives up on an answer.
LoadFailsWhenAnswered ==
  /\ at = "loading" /\ ~cancelling /\ router # "stopped" /\ EndsAs("failed")
  /\ UNCHANGED <<record, folder, active, latest, cancelling, threads, lock,
                 router, operator, app, left, counts>>

LoadFails ==
  /\ at = "loading" /\ ~cancelling /\ EndsAs("failed")
  /\ UNCHANGED <<record, folder, active, latest, cancelling, threads, lock,
                 router, operator, app, left, counts>>

\* _generate, as far as it matters here: tool calls run in a thread.
CallsTool ==
  /\ Step("generating", "tool")
  /\ UNCHANGED <<record, folder, active, latest, cancelling, threads, lock,
                 router, operator, app, left, counts>>

ToolReturns ==
  /\ Step("tool", "generating")
  /\ folder' \in {folder, folder \cup {latest}}
  /\ UNCHANGED <<record, active, latest, cancelling, threads, lock, router,
                 operator, app, left, counts>>

\* It ends, or raises; the resource watcher is cancelled and awaited.
Generated ==
  /\ at = "generating" /\ ~cancelling /\ at' = "watcher"
  /\ outcome' \in IF router = "stopped" THEN {"failed"}
                  ELSE {"completed", "failed"}
  /\ UNCHANGED <<record, folder, active, latest, cancelling, threads, lock,
                 router, operator, app, left, counts>>

\* A cancellation that arrives here is taken for the watcher's and lost.
WatcherEnds ==
  /\ at = "watcher" /\ at' = "lockStop" /\ cancelling' = FALSE
  /\ UNCHANGED <<record, folder, active, latest, outcome, threads, lock,
                 router, operator, app, left, counts>>

LocksToStop ==
  /\ Step("lockStop", "stopping") /\ lock = "free" /\ lock' = "run"
  /\ UNCHANGED <<record, folder, active, latest, cancelling, threads, router,
                 operator, app, left, counts>>

\* A variant: a run that failed does not stop the router.
SavesWithoutStop ==
  /\ Step("stopping", "ended")
  /\ lock' = "free"
  /\ router' = IF outcome = "failed" THEN router ELSE "stopped"
  /\ record' = [record EXCEPT ![latest] =
                  IF @ = "deleted" THEN @ ELSE outcome]
  /\ active' = NoRun
  /\ UNCHANGED <<folder, latest, cancelling, threads, operator, app, left,
                 counts>>

\* The run is saved, also when the router could not be stopped; a record
\* deleted meanwhile stays deleted.
Saves ==
  /\ Step("stopping", "ended")
  /\ lock' = "free"
  /\ \/ router' = "stopped" /\ UNCHANGED left
     \/ UNCHANGED router /\ left' = left \cup {latest}
  /\ record' = [record EXCEPT ![latest] =
                  IF @ = "deleted" THEN @ ELSE outcome]
  /\ active' = NoRun
  /\ UNCHANGED <<folder, latest, cancelling, threads, operator, app, counts>>

\* The cancellation is delivered at the task's await.  Before the task has begun
\* nothing of it runs, and in the finally clause nothing catches it: the run
\* is not saved.  A start that is interrupted may have launched the router.
\* A tool call's thread goes on without the task.
Cancelled ==
  /\ cancelling /\ Live /\ at # "watcher" /\ cancelling' = FALSE
  /\ IF at \in {"created", "lockStop", "stopping"}
     THEN at' = "ended" /\ left' = left \cup {latest} /\ UNCHANGED outcome
     ELSE EndsAs("cancelled") /\ UNCHANGED left
  /\ IF at = "starting" /\ router = "stopped" THEN router' \in {"stopped", "run"}
     ELSE IF at = "stopping" THEN router' \in {"stopped", router}
     ELSE UNCHANGED router
  /\ lock' = IF at \in {"starting", "stopping"} THEN "free" ELSE lock
  /\ threads' = IF at = "tool" THEN threads \cup {latest} ELSE threads
  /\ UNCHANGED <<record, folder, active, latest, operator, app, counts>>

\* A thread left behind ends, and may have written files first.
ThreadEnds(r) ==
  /\ r \in threads /\ threads' = threads \ {r}
  /\ folder' \in {folder, folder \cup {r}}
  /\ UNCHANGED <<record, active, at, latest, outcome, cancelling, lock, router,
                 operator, app, left, counts>>

----------------------------------------------------------------------------
(* The application                                                         *)

\* Shutdown cancels the active run and waits for it, then stops the router.
Closes ==
  /\ app = "up" /\ stops < MaxStops /\ operator = "idle"
  /\ app' = "closing" /\ stops' = stops + 1
  /\ cancelling' = (cancelling \/ (active = latest /\ Live))
  /\ UNCHANGED <<record, folder, active, at, latest, outcome, threads, lock,
                 router, operator, left, requests, cancels>>

Gone ==
  /\ active' = NoRun /\ at' = "none" /\ latest' = NoRun /\ outcome' = "none"
  /\ cancelling' = FALSE /\ threads' = {} /\ lock' = "free"
  /\ router' = "stopped" /\ operator' = "idle" /\ app' = "down" /\ left' = {}

Closed ==
  /\ app = "closing" /\ ~Live /\ lock = "free" /\ threads = {}
  /\ Gone /\ UNCHANGED <<record, folder, counts>>

Crashes ==
  /\ app # "down" /\ stops < MaxStops /\ stops' = stops + 1
  /\ Gone /\ UNCHANGED <<record, folder, requests, cancels>>

\* A variant: every run is closed at the start.
BootsFailingAll ==
  /\ app = "down" /\ app' = "up"
  /\ record' = [r \in Runs |-> IF record[r] \in {"none", "deleted"}
                               THEN record[r] ELSE "failed"]
  /\ folder' = {r \in folder : record[r] # "deleted"}
  /\ UNCHANGED <<active, at, latest, outcome, cancelling, threads, lock,
                 router, operator, left, counts>>

\* fail_interrupted and prune_folders
Boots ==
  /\ app = "down" /\ app' = "up"
  /\ record' = [r \in Runs |-> IF record[r] = "running" THEN "failed"
                               ELSE record[r]]
  /\ folder' = {r \in folder : record[r] # "deleted"}
  /\ UNCHANGED <<active, at, latest, outcome, cancelling, threads, lock,
                 router, operator, left, counts>>

----------------------------------------------------------------------------
RunSteps ==
  \/ Begins \/ LocksToStart \/ Started \/ Loaded \/ LoadFails \/ CallsTool
  \/ ToolReturns \/ Generated \/ WatcherEnds \/ LocksToStop \/ Saves
  \/ Cancelled

OperatorSteps == OperatorLocks \/ OperatorDone

RunnerNext ==
  \/ RunSteps \/ OperatorSteps
  \/ \E r \in Runs : Start(r) \/ Delete(r) \/ ThreadEnds(r)
  \/ \E what \in {"start", "stop"} : OperatorAsks(what)
  \/ Cancel \/ DeleteProfile \/ RouterDies \/ Closes \/ Closed \/ Crashes
  \/ Boots

\* The event loop runs what is ready, the lock is handed on in turn, a router
\* start and every wait has a timeout, and a model does not call tools for ever
\* (BenchmarkAgent bounds its rounds).
RunnerFairness ==
  /\ WF_RunnerVars(RunSteps) /\ WF_RunnerVars(OperatorSteps)
  /\ SF_RunnerVars(LocksToStart) /\ SF_RunnerVars(LocksToStop)
  /\ WF_RunnerVars(LoadFails) /\ SF_RunnerVars(Generated)

RunnerSpec == RunnerInit /\ [][RunnerNext]_RunnerVars /\ RunnerFairness

----------------------------------------------------------------------------
RunnerTypeOK ==
  /\ record \in [Runs -> Saved \cup {"none", "running", "deleted"}]
  /\ folder \subseteq Runs /\ threads \subseteq Runs /\ left \subseteq Runs
  /\ {active, latest} \subseteq Runs \cup {NoRun}
  /\ at \in Awaits \cup {"none", "ended"}
  /\ outcome \in Saved \cup {"none"} /\ cancelling \in BOOLEAN
  /\ lock \in {"free", "run", "operator"}
  /\ router \in {"stopped", "run", "operator"}
  /\ operator \in {"idle", "start", "stop", "starting", "stopping"}
  /\ app \in {"up", "closing", "down"}

\* The lock is the run's exactly while the run starts or stops the router, and
\* a router a run started is stopped by the time the run is over, however it
\* ended, unless stopping it failed or was interrupted.
NoRouterLeft ==
  /\ lock = "run" <=> at \in {"starting", "stopping"}
  /\ ~Live /\ router = "run" => latest \in left

\* Whatever fails, and whoever holds the lock, a run ends, and another one can
\* be started.
RunEnds == Live ~> ~Live

\* What a run was saved as stays: only deletion follows, also across restarts.
SavedIsFinal ==
  [][\A r \in Runs :
       record[r] \in Saved => record'[r] \in {record[r], "deleted"}]_RunnerVars

\* A run whose task is over was saved as completed, failed or cancelled.
RunIsSaved ==
  app = "up" /\ ~Live => \A r \in Runs : record[r] # "running"
=============================================================================
