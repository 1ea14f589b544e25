----------------------------- MODULE RouterModels -----------------------------
(***************************************************************************)
(* What the application does beside a running router: it loads and unloads *)
(* models and keeps exclusive ones alone (load_router_model), records the  *)
(* router under Nsight Systems (RouterProfiler) and copies its model       *)
(* events into the event broker (RouterEventSynchronizer).                 *)
(*                                                                         *)
(* The life of the router itself is RouterSupervisor; here it starts, gets *)
(* ready, stops or dies, with the hooks those steps call.  One profiler    *)
(* operation at a time holds the profiler's lock; nsys answers it later,   *)
(* and the session of every launch has the same name.                      *)
(***************************************************************************)
EXTENDS Naturals, FiniteSets

CONSTANTS
  Models, Exclusive, \* served models, and those whose profile is exclusive
  LoadRequests,      \* requests of load_router_model
  Synchronizers, NoSynchronizer, \* tasks of the event synchronizer
  MaxRouterLaunches,       \* bound: launches of the router
  MaxCaptures        \* bound: captures that are asked for

ASSUME RouterModelsAssumption ==
  /\ Exclusive \subseteq Models /\ NoSynchronizer \notin Synchronizers
  /\ MaxRouterLaunches \in Nat /\ MaxCaptures \in Nat

VARIABLES
  phase,     \* the router: "down", "starting", "ready", "stopping" or "ending"
  launches,
  status,    \* each model in the router: "unloaded", "loading" or "loaded"
  listed,    \* each load request: idle, or <<the models it saw occupied>>
  late,      \* load requests whose list is from before another load
  raced,     \* history: such a request loaded its model
  session,   \* RouterProfiler._session: the router runs under nsys
  capture,   \* RouterProfiler._capture: the number of a capture, or 0
  command,        \* the profiler operation that holds the lock
  recording, \* the capture that nsys records, or 0
  first,     \* the session has recorded none yet
  pending,   \* the capture in the session's --output file, or 0
  reports,   \* saved reports: <<the capture it is named for, the one in it>>
  waitsFor,  \* history: the capture that ran when the router began to stop
  untimely,  \* history: a start was answered after its router had gone, or a
             \* report was deleted before its stop was answered
  asks,      \* captures asked for so far
  syncTasks,     \* synchronizer tasks: "none", "running" or "cancelled"
  synchronizer \* RouterEventSynchronizer._task

loadVars == <<status, listed, late, raced>>
captureVars == <<session, capture, command, recording, first, pending, reports,
                 waitsFor, untimely, asks>>
syncVars == <<syncTasks, synchronizer>>
RouterModelsVars == <<phase, launches, loadVars, captureVars, syncVars>>

NoOp == [kind |-> "none", id |-> 0, answered |-> FALSE, ok |-> FALSE]
AllUnloaded == [m \in Models |-> "unloaded"]

RouterModelsInit ==
  /\ phase = "down" /\ launches = 0
  /\ status = AllUnloaded /\ listed = [l \in LoadRequests |-> <<>>]
  /\ late = {} /\ raced = FALSE
  /\ session = FALSE /\ capture = 0 /\ command = NoOp /\ recording = 0 /\ first = TRUE
  /\ pending = 0 /\ reports = {} /\ waitsFor = 0 /\ untimely = FALSE /\ asks = 0
  /\ syncTasks = [t \in Synchronizers |-> "none"] /\ synchronizer = NoSynchronizer

----------------------------------------------------------------------------
(* The router's own steps, with the hooks they call                        *)

\* launch_arguments: profiling is on or off, or nsys is not found.
LaunchArguments ==
  /\ phase = "down" /\ launches < MaxRouterLaunches
  /\ phase' = "starting" /\ launches' = launches + 1
  /\ session' \in BOOLEAN /\ capture' = 0 /\ pending' = 0 /\ first' = TRUE
  /\ UNCHANGED <<loadVars, command, recording, reports, waitsFor, untimely, asks, syncVars>>

\* RouterEventSynchronizer.start and deactivate.
StartsSynchronizer ==
  IF synchronizer # NoSynchronizer THEN UNCHANGED syncVars
  ELSE \E t \in Synchronizers : /\ syncTasks[t] = "none" /\ synchronizer' = t
                                /\ syncTasks' = [syncTasks EXCEPT ![t] = "running"]
Deactivates ==
  /\ synchronizer' = NoSynchronizer
  /\ syncTasks' = [t \in Synchronizers |-> IF t = synchronizer THEN "cancelled" ELSE syncTasks[t]]

\* A cancelled task gets its CancelledError.
Retires(t) ==
  /\ syncTasks[t] = "cancelled" /\ syncTasks' = [syncTasks EXCEPT ![t] = "none"]
  /\ UNCHANGED <<phase, launches, loadVars, captureVars, synchronizer>>

BecomesReady ==
  /\ phase = "starting" /\ phase' = "ready" /\ StartsSynchronizer
  /\ UNCHANGED <<launches, loadVars, captureVars>>

\* The stop, with router_stopping: a capture that runs is stopped first.
BeginsStopping ==
  /\ phase \in {"starting", "ready"} /\ phase' = "stopping" /\ Deactivates
  /\ waitsFor' = capture
  /\ UNCHANGED <<launches, loadVars, session, capture, command, recording, first,
                 pending, reports, untimely, asks>>
HookWaits == waitsFor # 0 /\ (capture = waitsFor \/ (command.kind = "stop" /\ command.id = waitsFor))
Terminates ==
  /\ phase = "stopping" /\ ~HookWaits /\ phase' = "ending"
  /\ UNCHANGED <<launches, loadVars, captureVars, syncVars>>

\* The process ends, by itself or terminated: router_exited.
RouterExits ==
  /\ phase \in {"starting", "ready", "stopping", "ending"} /\ phase' = "down"
  /\ session' = FALSE /\ capture' = 0 /\ pending' = 0 /\ recording' = 0 /\ waitsFor' = 0
  /\ status' = AllUnloaded /\ Deactivates
  /\ UNCHANGED <<launches, listed, late, raced, command, first, reports, untimely, asks>>

----------------------------------------------------------------------------
(* Models                                                                  *)

Occupied == {m \in Models : status[m] # "unloaded"}
loadFrame == <<phase, launches, captureVars, syncVars>>

\* load_router_model awaits the list of models ...
ListsModels(l) ==
  /\ phase = "ready" /\ listed[l] = <<>> /\ listed' = [listed EXCEPT ![l] = <<Occupied>>]
  /\ UNCHANGED <<status, late, raced, loadFrame>>

\* exclusive_conflict
Conflict(m, occupied) ==
  /\ occupied \ {m} # {}
  /\ m \in Exclusive \/ (occupied \ {m}) \cap Exclusive # {}

\* ... and answers a conflict, or sends the load.
LoadsModel(l, m) ==
  /\ listed[l] # <<>> /\ listed' = [listed EXCEPT ![l] = <<>>]
  /\ IF Conflict(m, listed[l][1]) \/ phase # "ready"
     THEN UNCHANGED <<status, raced>> /\ late' = late \ {l}
     ELSE /\ status' = [status EXCEPT ![m] = IF @ = "loaded" THEN @ ELSE "loading"]
          /\ raced' = (raced \/ l \in late)
          /\ late' = {k \in LoadRequests \ {l} : listed[k] # <<>>}
  /\ UNCHANGED loadFrame

\* The router loads it or cannot; a model is unloaded.
SettlesLoad(m, s) ==
  /\ phase = "ready" /\ status[m] = "loading" /\ status' = [status EXCEPT ![m] = s]
  /\ UNCHANGED <<listed, late, raced, loadFrame>>
UnloadsModel(m) ==
  /\ phase = "ready" /\ status[m] = "loaded" /\ status' = [status EXCEPT ![m] = "unloaded"]
  /\ UNCHANGED <<listed, late, raced, loadFrame>>

----------------------------------------------------------------------------
(* Captures                                                                *)

captureFrame == <<phase, launches, loadVars, syncVars>>

\* start_capture and stop_capture, up to the command they give nsys.
StartCapture ==
  /\ command = NoOp /\ session /\ capture = 0 /\ asks < MaxCaptures
  /\ asks' = asks + 1 /\ command' = [NoOp EXCEPT !.kind = "start", !.id = asks']
  /\ UNCHANGED <<captureFrame, session, capture, recording, first, pending, reports,
                 waitsFor, untimely>>
StopCapture ==
  /\ command = NoOp /\ session /\ capture # 0
  /\ command' = [NoOp EXCEPT !.kind = "stop", !.id = capture] /\ capture' = 0
  /\ UNCHANGED <<captureFrame, session, recording, first, pending, reports,
                 waitsFor, untimely, asks>>

Answered(ok) == command.kind # "none" /\ ~command.answered
                /\ command' = [command EXCEPT !.answered = TRUE, !.ok = ok]
nsysFrame == <<captureFrame, session, capture, waitsFor, untimely, asks>>

\* nsys records under the session's name, whichever launch has it now.
NsysStarts ==
  /\ command.kind = "start" /\ Answered(TRUE) /\ session /\ recording = 0
  /\ recording' = command.id /\ UNCHANGED <<nsysFrame, first, pending, reports>>

\* It writes a session's first capture to the file of the launch, and a later
\* one to its own; the command may run into its time limit all the same.
NsysStops(ok) ==
  /\ command.kind = "stop" /\ Answered(ok) /\ session /\ recording = command.id
  /\ recording' = 0 /\ first' = FALSE
  /\ IF first THEN pending' = command.id /\ UNCHANGED reports
     ELSE reports' = reports \cup {<<command.id, command.id>>} /\ UNCHANGED pending
  /\ UNCHANGED nsysFrame
NsysFails ==
  /\ Answered(FALSE) /\ UNCHANGED <<nsysFrame, recording, first, pending, reports>>

\* The operation goes on with the answer.
Holds(id) == \E r \in reports : r[1] = id
Started ==
  /\ command.kind = "start" /\ command.answered /\ command' = NoOp
  /\ capture' = IF command.ok THEN command.id ELSE capture
  /\ untimely' = (untimely \/ (command.ok /\ recording # command.id))
  /\ UNCHANGED <<captureFrame, session, recording, first, pending, reports, waitsFor, asks>>
\* A variant: the launch's output file is taken for every capture that stops.
RenamesAlways(id) == pending # 0
Renames(id) == ~Holds(id) /\ pending # 0
StoppedCapture ==
  /\ command.kind = "stop" /\ command.answered /\ command' = NoOp
  /\ IF command.ok /\ Renames(command.id)
     THEN pending' = 0 /\ reports' = {r \in reports : r[1] # command.id} \cup {<<command.id, pending>>}
     ELSE UNCHANGED <<pending, reports>>
  /\ UNCHANGED <<captureFrame, session, capture, recording, first, waitsFor, untimely, asks>>

DeleteCapture(r) ==
  /\ r[1] # capture /\ reports' = reports \ {r}
  /\ untimely' = (untimely \/ command.id = r[1])
  /\ UNCHANGED <<captureFrame, session, capture, command, recording, first, pending,
                 waitsFor, asks>>

RouterModelsNext ==
  \/ LaunchArguments \/ BecomesReady \/ BeginsStopping \/ Terminates \/ RouterExits
  \/ \E t \in Synchronizers : Retires(t)
  \/ \E l \in LoadRequests : ListsModels(l) \/ \E m \in Models : LoadsModel(l, m)
  \/ \E m \in Models : UnloadsModel(m) \/ \E s \in {"loaded", "unloaded"} : SettlesLoad(m, s)
  \/ StartCapture \/ StopCapture \/ NsysStarts \/ NsysStops(TRUE) \/ NsysStops(FALSE)
  \/ NsysFails \/ Started \/ StoppedCapture
  \/ \E r \in reports : DeleteCapture(r)

RouterModelsSpec == RouterModelsInit /\ [][RouterModelsNext]_RouterModelsVars

----------------------------------------------------------------------------
(* Properties                                                              *)

RouterModelsTypeOK ==
  /\ phase \in {"down", "starting", "ready", "stopping", "ending"}
  /\ launches \in 0..MaxRouterLaunches /\ asks \in 0..MaxCaptures
  /\ status \in [Models -> {"unloaded", "loading", "loaded"}]
  /\ capture \in 0..asks /\ recording \in 0..asks /\ pending \in 0..asks
  /\ command.kind \in {"none", "start", "stop"}
  /\ syncTasks \in [Synchronizers -> {"none", "running", "cancelled"}]

\* An exclusive model shares the router with no other, unless two loads were
\* checked against the same list of models.
ExclusiveAlone ==
  ~raced => \A m \in Exclusive : status[m] # "unloaded" => Occupied = {m}

\* The capture that the application shows is the one nsys records, unless its
\* start was answered after the router had gone.
CaptureIsRecorded == capture # 0 /\ ~untimely => recording = capture

\* A report holds the capture it is named for, unless one was deleted while its
\* stop had yet to be answered.
ReportsAreOwn == ~untimely => \A r \in reports : r[1] = r[2]

\* One task copies events, and only while the router is ready.
OneSynchronizer ==
  {t \in Synchronizers : syncTasks[t] = "running"} =
    IF synchronizer = NoSynchronizer THEN {} ELSE {synchronizer}
SynchronizedWhenReady == phase = "ready" <=> synchronizer # NoSynchronizer

\* What is shown of a running router, and done beside it, is what it does.
RouterAttended ==
  /\ RouterModelsTypeOK /\ ExclusiveAlone /\ CaptureIsRecorded /\ ReportsAreOwn
  /\ OneSynchronizer /\ SynchronizedWhenReady
=============================================================================
