--------------------------- MODULE RouterModelsProofs ---------------------------
(***************************************************************************)
(* Theorems about RouterModels, for any models, load requests, tasks of    *)
(* the synchronizer, launches and captures.                                *)
(*                                                                         *)
(* The three things done beside a router share no state but its phase, so  *)
(* the inductive invariant is a conjunction of one part for each.          *)
(***************************************************************************)
EXTENDS RouterModels, TLAPS

Commands == [kind : {"none", "start", "stop"}, id : Nat, answered : BOOLEAN, ok : BOOLEAN]

\* A load request that is not late saw every model that is occupied.
LoadsOK ==
  /\ status \in [Models -> {"unloaded", "loading", "loaded"}]
  /\ listed \in [LoadRequests -> {<<>>} \union {<<S>> : S \in SUBSET Models}]
  /\ late \subseteq LoadRequests
  /\ \A l \in LoadRequests \ late : listed[l] # <<>> => Occupied \subseteq listed[l][1]
  /\ ExclusiveAlone

\* No capture is shown while a command of one is under way; and once a stop
\* was answered well, its capture has a report or is in the session's file.
CapturesOK ==
  /\ command \in Commands /\ asks \in 0..MaxCaptures
  /\ {capture, recording, pending, command.id} \subseteq 0..asks
  /\ command.kind = "none" => command = NoOp
  /\ command # NoOp => capture = 0
  /\ command.kind = "stop" /\ command.answered /\ command.ok /\ ~untimely
       => Holds(command.id) \/ pending \in {0, command.id}
  /\ CaptureIsRecorded /\ ReportsAreOwn

\* One task copies events, while the router is ready.
SyncOK ==
  /\ synchronizer \in Synchronizers \union {NoSynchronizer}
  /\ syncTasks \in [Synchronizers -> {"none", "running", "cancelled"}]
  /\ OneSynchronizer /\ SynchronizedWhenReady

PhaseOK ==
  /\ phase \in {"down", "starting", "ready", "stopping", "ending"}
  /\ launches \in 0..MaxRouterLaunches

AttendedInv == PhaseOK /\ LoadsOK /\ CapturesOK /\ SyncOK

----------------------------------------------------------------------------
(* Models                                                                  *)

\* Steps that leave the loads alone.
LEMMA LoadsRest ==
  ASSUME LoadsOK, UNCHANGED loadVars
  PROVE  LoadsOK'
BY DEF LoadsOK, loadVars, Occupied, ExclusiveAlone

\* The router has gone, and its models with it.
LEMMA AllUnloadedLoads ==
  ASSUME LoadsOK, status' = AllUnloaded, UNCHANGED <<listed, late, raced>>
  PROVE  LoadsOK'
<1>1. Occupied' = {} /\ status' \in [Models -> {"unloaded", "loading", "loaded"}]
  BY DEF Occupied, AllUnloaded
<1>2. ExclusiveAlone'
  BY RouterModelsAssumption DEF ExclusiveAlone, AllUnloaded
<1> QED BY <1>1, <1>2 DEF LoadsOK

\* A request lists the models that are occupied now.
LEMMA ListsModelsLoads ==
  ASSUME LoadsOK, NEW l \in LoadRequests, ListsModels(l)
  PROVE  LoadsOK'
<1>1. /\ listed' = [listed EXCEPT ![l] = <<Occupied>>] /\ status' = status /\ late' = late
      /\ raced' = raced
  BY DEF ListsModels
<1>2. Occupied' = Occupied /\ Occupied \in SUBSET Models
  BY <1>1 DEF Occupied
<1>3. listed' \in [LoadRequests -> {<<>>} \union {<<S>> : S \in SUBSET Models}]
  BY <1>1, <1>2 DEF LoadsOK
<1>4. \A k \in LoadRequests \ late' : listed'[k] # <<>> => Occupied' \subseteq listed'[k][1]
  BY <1>1, <1>2 DEF LoadsOK
<1>5. ExclusiveAlone'
  BY <1>1, <1>2 DEF LoadsOK, ExclusiveAlone
<1> QED BY <1>1, <1>3, <1>4, <1>5 DEF LoadsOK

\* A load that was checked against a list that is not late keeps an exclusive
\* model alone; every other list is late from then on.
LEMMA LoadsModelLoads ==
  ASSUME LoadsOK, NEW l \in LoadRequests, NEW m \in Models, LoadsModel(l, m)
  PROVE  LoadsOK'
<1>1. listed[l] # <<>> /\ listed' = [listed EXCEPT ![l] = <<>>]
  BY DEF LoadsModel
<1>2. listed' \in [LoadRequests -> {<<>>} \union {<<S>> : S \in SUBSET Models}]
  BY <1>1 DEF LoadsOK
<1>3. CASE status' = status /\ raced' = raced /\ late' = late \ {l}
  <2>1. \A k \in LoadRequests \ late' : listed'[k] # <<>> => k \notin late /\ listed'[k] = listed[k]
    BY <1>1, <1>3 DEF LoadsOK
  <2> QED BY <1>2, <1>3, <2>1 DEF LoadsOK, Occupied, ExclusiveAlone
<1>4. CASE /\ ~Conflict(m, listed[l][1])
           /\ status' = [status EXCEPT ![m] = IF @ = "loaded" THEN @ ELSE "loading"]
           /\ raced' = (raced \/ l \in late)
           /\ late' = {k \in LoadRequests \ {l} : listed[k] # <<>>}
  <2>1. status' \in [Models -> {"unloaded", "loading", "loaded"}]
    BY <1>4 DEF LoadsOK
  <2>2. \A k \in LoadRequests \ late' : listed'[k] = <<>>
    BY <1>1, <1>4 DEF LoadsOK
  <2>3. Occupied' \subseteq Occupied \union {m}
    BY <1>4 DEF Occupied, LoadsOK
  <2>4. ASSUME ~raced', NEW e \in Exclusive, status'[e] # "unloaded" PROVE Occupied' = {e}
    <3>1. l \notin late
      BY <1>4, <2>4
    <3>2. Occupied \subseteq listed[l][1]
      BY <1>1, <3>1 DEF LoadsOK
    <3>3. e \in Models /\ e \in Occupied' /\ (e \in Occupied \/ e = m)
      BY <2>3, <2>4, RouterModelsAssumption DEF Occupied
    <3>4. e = m /\ listed[l][1] \ {m} = {}
      BY <1>4, <3>2, <3>3 DEF Conflict
    <3> QED BY <2>3, <3>2, <3>3, <3>4
  <2>5. ExclusiveAlone'
    BY <2>4 DEF ExclusiveAlone
  <2> QED BY <1>2, <1>4, <2>1, <2>2, <2>5 DEF LoadsOK
<1> QED BY <1>3, <1>4 DEF LoadsModel

\* A model that finishes loading or is unloaded brings no other in.
LEMMA SettlesLoads ==
  ASSUME LoadsOK, NEW m \in Models, NEW s \in {"loaded", "unloaded"}, status[m] # "unloaded",
         status' = [status EXCEPT ![m] = s], UNCHANGED <<listed, late, raced>>
  PROVE  LoadsOK'
<1>1. status' \in [Models -> {"unloaded", "loading", "loaded"}] /\ Occupied' \subseteq Occupied
  BY DEF LoadsOK, Occupied
<1>2. ASSUME ~raced', NEW e \in Exclusive, status'[e] # "unloaded" PROVE Occupied' = {e}
  <2>1. e \in Models /\ status[e] # "unloaded"
    BY <1>2, RouterModelsAssumption DEF LoadsOK
  <2>2. Occupied = {e}
    BY <1>2, <2>1 DEF LoadsOK, ExclusiveAlone
  <2>3. e \in Occupied'
    BY <1>2, <2>1 DEF Occupied
  <2> QED BY <1>1, <2>2, <2>3
<1>3. ExclusiveAlone'
  BY <1>2 DEF ExclusiveAlone
<1> QED BY <1>1, <1>3 DEF LoadsOK

----------------------------------------------------------------------------
(* Captures                                                                *)

\* Steps that leave the captures alone.
LEMMA CapturesRest ==
  ASSUME CapturesOK, UNCHANGED <<capture, command, recording, pending, reports, untimely, asks>>
  PROVE  CapturesOK'
BY DEF CapturesOK, CaptureIsRecorded, ReportsAreOwn, Holds

\* A launch, or the end of the router, shows no capture and keeps no file.
LEMMA CapturesEnd ==
  ASSUME CapturesOK, capture' = 0, pending' = 0, recording' \in {0, recording},
         UNCHANGED <<command, reports, untimely, asks>>
  PROVE  CapturesOK'
<1>1. asks \in Nat /\ 0 \in 0..asks
  BY RouterModelsAssumption DEF CapturesOK
<1> QED BY <1>1 DEF CapturesOK, CaptureIsRecorded, ReportsAreOwn, Holds

\* A command is given.
LEMMA AskCaptures ==
  ASSUME CapturesOK, StartCapture \/ StopCapture
  PROVE  CapturesOK'
<1>1. /\ asks \in Nat /\ 0 \in 0..asks /\ command = NoOp
      /\ MaxCaptures \in Nat
  BY RouterModelsAssumption DEF CapturesOK, StartCapture, StopCapture
<1>2. CASE StartCapture
  <2>1. /\ asks' = asks + 1 /\ capture' = 0 /\ asks < MaxCaptures
        /\ UNCHANGED <<recording, pending, reports, untimely>>
    BY <1>2 DEF StartCapture
  <2>2. asks' \in Nat /\ asks' \in 0..MaxCaptures /\ asks' \in 0..asks' /\ 0..asks \subseteq 0..asks'
    BY <1>1, <2>1
  <2>3. command' = [kind |-> "start", id |-> asks', answered |-> FALSE, ok |-> FALSE]
    BY <1>1, <1>2 DEF StartCapture, NoOp
  <2>4. command' \in Commands /\ {capture', recording', pending', command'.id} \subseteq 0..asks'
    BY <1>1, <2>1, <2>2, <2>3 DEF CapturesOK, Commands
  <2>5. CaptureIsRecorded' /\ ReportsAreOwn'
    BY <1>1, <2>1 DEF CapturesOK, CaptureIsRecorded, ReportsAreOwn
  <2> QED BY <2>1, <2>2, <2>3, <2>4, <2>5 DEF CapturesOK
<1>3. CASE StopCapture
  <2>1. /\ asks' = asks /\ capture' = 0 /\ UNCHANGED <<recording, pending, reports, untimely>>
        /\ command' = [kind |-> "stop", id |-> capture, answered |-> FALSE, ok |-> FALSE]
    BY <1>1, <1>3 DEF StopCapture, NoOp
  <2>2. command' \in Commands /\ {capture', recording', pending', command'.id} \subseteq 0..asks'
    BY <1>1, <2>1 DEF CapturesOK, Commands
  <2> QED BY <2>1, <2>2 DEF CapturesOK, CaptureIsRecorded, ReportsAreOwn
<1> QED BY <1>2, <1>3

\* nsys answers it.
LEMMA AnswerCaptures ==
  ASSUME CapturesOK, NsysStarts \/ NsysStops(TRUE) \/ NsysStops(FALSE) \/ NsysFails
  PROVE  CapturesOK'
<1>1. /\ asks \in Nat /\ 0 \in 0..asks /\ command \in Commands /\ command.kind # "none"
      /\ UNCHANGED <<capture, untimely, asks>>
  BY RouterModelsAssumption
     DEF CapturesOK, NsysStarts, NsysStops, NsysFails, Answered, nsysFrame
<1>2. command # NoOp /\ capture = 0
  BY <1>1 DEF CapturesOK, NoOp
<1>3. PICK ok \in BOOLEAN :
        /\ command' = [command EXCEPT !.answered = TRUE, !.ok = ok]
        /\ ok => NsysStarts \/ NsysStops(TRUE)
  BY DEF NsysStarts, NsysStops, NsysFails, Answered
<1>4. /\ command' \in Commands /\ command'.kind = command.kind /\ command'.id = command.id
      /\ command' # NoOp /\ command'.ok = ok
  BY <1>1, <1>3 DEF Commands, NoOp
<1>5. recording' \in {recording, 0, command.id} /\ pending' \in {pending, command.id}
  BY DEF NsysStarts, NsysStops, NsysFails
<1>6. {capture', recording', pending', command'.id} \subseteq 0..asks'
  BY <1>1, <1>4, <1>5 DEF CapturesOK
<1>7. ReportsAreOwn'
  <2>1. reports' = reports \/ reports' = reports \cup {<<command.id, command.id>>}
    BY DEF NsysStarts, NsysStops, NsysFails
  <2> QED BY <1>1, <2>1 DEF CapturesOK, ReportsAreOwn
<1>8. CaptureIsRecorded'
  BY <1>1, <1>2 DEF CaptureIsRecorded
<1>9. ASSUME command'.kind = "stop", command'.ok
      PROVE  (\E r \in reports' : r[1] = command.id) \/ pending' = command.id
  <2>1. NsysStops(TRUE)
    BY <1>3, <1>4, <1>9 DEF NsysStarts
  <2>2. pending' = command.id \/ reports' = reports \cup {<<command.id, command.id>>}
    BY <2>1 DEF NsysStops
  <2>3. ASSUME <<command.id, command.id>> \in reports' PROVE \E r \in reports' : r[1] = command.id
    BY <2>3, <<command.id, command.id>>[1] = command.id
  <2> QED BY <1>4, <2>2, <2>3 DEF Holds
<1> QED BY <1>1, <1>2, <1>4, <1>6, <1>7, <1>8, <1>9 DEF CapturesOK, Holds

\* The operation goes on with a start's answer: what it shows as running is
\* recorded, or the start was untimely.
LEMMA StartedCaptures ==
  ASSUME CapturesOK, Started
  PROVE  CapturesOK'
<1>1. /\ asks \in Nat /\ 0 \in 0..asks /\ command \in Commands /\ command.kind = "start"
      /\ command' = NoOp /\ UNCHANGED <<recording, pending, reports, asks>>
  BY RouterModelsAssumption DEF CapturesOK, Started
<1>2. /\ capture' = IF command.ok THEN command.id ELSE capture
      /\ untimely' = (untimely \/ (command.ok /\ recording # command.id))
  BY DEF Started
<1>3. /\ command' \in Commands /\ command'.id = 0 /\ command'.kind = "none"
      /\ {capture', recording', pending', command'.id} \subseteq 0..asks'
  BY <1>1, <1>2 DEF CapturesOK, Commands, NoOp
<1>4. CaptureIsRecorded'
  BY <1>1, <1>2 DEF CapturesOK, CaptureIsRecorded
<1>5. ReportsAreOwn'
  BY <1>1, <1>2 DEF CapturesOK, ReportsAreOwn
<1> QED BY <1>1, <1>3, <1>4, <1>5 DEF CapturesOK

\* ... and with a stop's: a file that is renamed for the capture holds it.
LEMMA StoppedCaptures ==
  ASSUME CapturesOK, StoppedCapture
  PROVE  CapturesOK'
<1>1. /\ asks \in Nat /\ 0 \in 0..asks /\ command \in Commands /\ command.kind = "stop"
      /\ command.answered /\ command' = NoOp
      /\ UNCHANGED <<capture, recording, untimely, asks>>
  BY RouterModelsAssumption DEF CapturesOK, StoppedCapture, captureFrame
<1>2. /\ command' \in Commands /\ command'.id = 0 /\ command'.kind = "none"
  BY <1>1 DEF Commands, NoOp
<1>3. pending' \in {0, pending}
  BY DEF StoppedCapture
<1>4. {capture', recording', pending', command'.id} \subseteq 0..asks'
  BY <1>1, <1>2, <1>3 DEF CapturesOK
<1>5. CaptureIsRecorded'
  BY <1>1 DEF CapturesOK, CaptureIsRecorded
<1>6. ASSUME ~untimely, NEW r \in reports' PROVE r[1] = r[2]
  <2>1. CASE r \in reports
    BY <1>6, <2>1 DEF CapturesOK, ReportsAreOwn
  <2>2. CASE r \notin reports
    <3>1. /\ command.ok /\ ~Holds(command.id) /\ pending # 0
          /\ r = <<command.id, pending>>
      BY <1>6, <2>2 DEF StoppedCapture, Renames
    <3>2. pending = command.id
      BY <1>1, <1>6, <3>1 DEF CapturesOK
    <3> QED BY <3>1, <3>2
  <2> QED BY <2>1, <2>2
<1>7. ReportsAreOwn'
  BY <1>1, <1>6 DEF ReportsAreOwn
<1> QED BY <1>1, <1>2, <1>4, <1>5, <1>7 DEF CapturesOK

\* A report that is deleted before its stop went on is untimely.
LEMMA DeleteCaptures ==
  ASSUME CapturesOK, NEW d \in reports, DeleteCapture(d)
  PROVE  CapturesOK'
<1>1. /\ reports' = reports \ {d} /\ untimely' = (untimely \/ command.id = d[1])
      /\ UNCHANGED <<capture, command, recording, pending, asks>>
  BY DEF DeleteCapture
<1>2. ASSUME ~untimely', Holds(command.id) PROVE Holds(command.id)'
  <2>1. PICK r \in reports : r[1] = command.id
    BY <1>2 DEF Holds
  <2>2. r \in reports'
    BY <1>1, <1>2, <2>1
  <2> QED BY <1>1, <2>1, <2>2 DEF Holds
<1>3. CaptureIsRecorded' /\ ReportsAreOwn'
  BY <1>1 DEF CapturesOK, CaptureIsRecorded, ReportsAreOwn
<1> QED BY <1>1, <1>2, <1>3 DEF CapturesOK

----------------------------------------------------------------------------
(* The synchronizer                                                        *)

\* Steps that leave the synchronizer alone and the router as ready as it was.
LEMMA SyncRest ==
  ASSUME SyncOK, UNCHANGED syncVars, phase' = "ready" <=> phase = "ready"
  PROVE  SyncOK'
BY DEF SyncOK, syncVars, OneSynchronizer, SynchronizedWhenReady

\* A router that gets ready gets its task.
LEMMA StartsSync ==
  ASSUME SyncOK, phase # "ready", phase' = "ready", StartsSynchronizer
  PROVE  SyncOK'
<1>1. synchronizer = NoSynchronizer
  BY DEF SyncOK, SynchronizedWhenReady
<1>2. PICK t \in Synchronizers : /\ synchronizer' = t
                                 /\ syncTasks' = [syncTasks EXCEPT ![t] = "running"]
  BY <1>1 DEF StartsSynchronizer
<1>3. t # NoSynchronizer
  BY RouterModelsAssumption
<1>4. OneSynchronizer'
  BY <1>1, <1>2, <1>3 DEF SyncOK, OneSynchronizer
<1> QED BY <1>2, <1>3, <1>4 DEF SyncOK, SynchronizedWhenReady

\* One that stops or ends cancels it.
LEMMA DeactivatesSync ==
  ASSUME SyncOK, phase' # "ready", Deactivates
  PROVE  SyncOK'
<1>1. syncTasks' \in [Synchronizers -> {"none", "running", "cancelled"}]
  BY DEF SyncOK, Deactivates
<1>2. \A t \in Synchronizers : syncTasks'[t] # "running"
  BY DEF SyncOK, Deactivates, OneSynchronizer
<1>3. synchronizer' = NoSynchronizer
  BY DEF Deactivates
<1> QED BY <1>1, <1>2, <1>3 DEF SyncOK, OneSynchronizer, SynchronizedWhenReady

\* A cancelled task ends.
LEMMA RetiresSync ==
  ASSUME SyncOK, NEW t \in Synchronizers, Retires(t)
  PROVE  SyncOK'
BY DEF SyncOK, Retires, OneSynchronizer, SynchronizedWhenReady

----------------------------------------------------------------------------
(* Each step keeps the three                                               *)

\* The initial states satisfy the invariant.
LEMMA AttendedInit == RouterModelsInit => AttendedInv
<1> SUFFICES ASSUME RouterModelsInit PROVE AttendedInv
  OBVIOUS
<1>1. PhaseOK
  BY RouterModelsAssumption DEF RouterModelsInit, PhaseOK
<1>2. LoadsOK
  BY RouterModelsAssumption
     DEF RouterModelsInit, LoadsOK, AllUnloaded, Occupied, ExclusiveAlone
<1>3. NoOp \in Commands /\ NoOp.kind = "none" /\ NoOp.id = 0
  BY DEF NoOp, Commands
<1>4. CapturesOK
  BY <1>3, RouterModelsAssumption
     DEF RouterModelsInit, CapturesOK, CaptureIsRecorded, ReportsAreOwn
<1>5. SyncOK
  BY RouterModelsAssumption
     DEF RouterModelsInit, SyncOK, OneSynchronizer, SynchronizedWhenReady
<1> QED BY <1>1, <1>2, <1>4, <1>5 DEF AttendedInv

\* Every step keeps the invariant.
LEMMA AttendedNext == AttendedInv /\ [RouterModelsNext]_RouterModelsVars => AttendedInv'
<1> SUFFICES ASSUME AttendedInv, [RouterModelsNext]_RouterModelsVars PROVE AttendedInv'
  OBVIOUS
<1> PhaseOK /\ LoadsOK /\ CapturesOK /\ SyncOK
  BY DEF AttendedInv
<1>1. CASE LaunchArguments
  <2>1. /\ phase = "down" /\ phase' = "starting" /\ launches < MaxRouterLaunches
        /\ launches' = launches + 1 /\ capture' = 0 /\ pending' = 0
        /\ UNCHANGED <<loadVars, command, recording, reports, untimely, asks, syncVars>>
    BY <1>1 DEF LaunchArguments
  <2>2. PhaseOK'
    BY <2>1, RouterModelsAssumption DEF PhaseOK
  <2> QED BY <2>1, <2>2, LoadsRest, CapturesEnd, SyncRest DEF AttendedInv
<1>2. CASE BecomesReady
  <2>1. /\ phase # "ready" /\ phase' = "ready" /\ StartsSynchronizer
        /\ UNCHANGED <<launches, loadVars, captureVars>>
    BY <1>2 DEF BecomesReady
  <2>2. PhaseOK'
    BY <2>1 DEF PhaseOK
  <2> QED BY <2>1, <2>2, LoadsRest, CapturesRest, StartsSync DEF AttendedInv, captureVars
<1>3. CASE BeginsStopping
  <2>1. /\ phase' = "stopping" /\ Deactivates
        /\ UNCHANGED <<launches, loadVars, capture, command, recording, pending, reports,
                       untimely, asks>>
    BY <1>3 DEF BeginsStopping
  <2>2. PhaseOK'
    BY <2>1 DEF PhaseOK
  <2> QED BY <2>1, <2>2, LoadsRest, CapturesRest, DeactivatesSync DEF AttendedInv
<1>4. CASE Terminates
  <2>1. /\ phase = "stopping" /\ phase' = "ending"
        /\ UNCHANGED <<launches, loadVars, captureVars, syncVars>>
    BY <1>4 DEF Terminates
  <2>2. PhaseOK'
    BY <2>1 DEF PhaseOK
  <2> QED BY <2>1, <2>2, LoadsRest, CapturesRest, SyncRest DEF AttendedInv, captureVars
<1>5. CASE RouterExits
  <2>1. /\ phase' = "down" /\ Deactivates /\ status' = AllUnloaded
        /\ capture' = 0 /\ pending' = 0 /\ recording' = 0
        /\ UNCHANGED <<launches, listed, late, raced, command, reports, untimely, asks>>
    BY <1>5 DEF RouterExits
  <2>2. PhaseOK'
    BY <2>1 DEF PhaseOK
  <2> QED BY <2>1, <2>2, AllUnloadedLoads, CapturesEnd, DeactivatesSync DEF AttendedInv
<1>6. ASSUME NEW t \in Synchronizers, Retires(t) PROVE AttendedInv'
  <2>1. UNCHANGED <<phase, launches, loadVars, captureVars>>
    BY <1>6 DEF Retires
  <2>2. PhaseOK'
    BY <2>1 DEF PhaseOK
  <2> QED BY <1>6, <2>1, <2>2, LoadsRest, CapturesRest, RetiresSync DEF AttendedInv, captureVars
<1>7. ASSUME UNCHANGED loadFrame, LoadsOK' PROVE AttendedInv'
  <2>1. UNCHANGED <<phase, launches, captureVars, syncVars>>
    BY <1>7 DEF loadFrame
  <2>2. PhaseOK'
    BY <2>1 DEF PhaseOK
  <2> QED BY <1>7, <2>1, <2>2, CapturesRest, SyncRest DEF AttendedInv, captureVars
<1>8. ASSUME UNCHANGED captureFrame, CapturesOK' PROVE AttendedInv'
  <2>1. UNCHANGED <<phase, launches, loadVars, syncVars>>
    BY <1>8 DEF captureFrame
  <2>2. PhaseOK'
    BY <2>1 DEF PhaseOK
  <2> QED BY <1>8, <2>1, <2>2, LoadsRest, SyncRest DEF AttendedInv
<1>9. ASSUME NEW l \in LoadRequests, ListsModels(l) PROVE AttendedInv'
  <2>1. UNCHANGED loadFrame
    BY <1>9 DEF ListsModels
  <2> QED BY <1>7, <1>9, <2>1, ListsModelsLoads
<1>10. ASSUME NEW l \in LoadRequests, NEW m \in Models, LoadsModel(l, m) PROVE AttendedInv'
  <2>1. UNCHANGED loadFrame
    BY <1>10 DEF LoadsModel
  <2> QED BY <1>7, <1>10, <2>1, LoadsModelLoads
<1>11. ASSUME NEW m \in Models, UnloadsModel(m) PROVE AttendedInv'
  <2>1. /\ UNCHANGED loadFrame /\ UNCHANGED <<listed, late, raced>>
        /\ status[m] # "unloaded" /\ status' = [status EXCEPT ![m] = "unloaded"]
    BY <1>11 DEF UnloadsModel
  <2> QED BY <1>7, <2>1, SettlesLoads
<1>12. ASSUME NEW m \in Models, NEW s \in {"loaded", "unloaded"}, SettlesLoad(m, s)
       PROVE  AttendedInv'
  <2>1. /\ UNCHANGED loadFrame /\ UNCHANGED <<listed, late, raced>>
        /\ status[m] # "unloaded" /\ status' = [status EXCEPT ![m] = s]
    BY <1>12 DEF SettlesLoad
  <2> QED BY <1>7, <2>1, SettlesLoads
<1>13. CASE StartCapture \/ StopCapture
  <2>1. UNCHANGED captureFrame
    BY <1>13 DEF StartCapture, StopCapture
  <2> QED BY <1>8, <1>13, <2>1, AskCaptures
<1>14. CASE NsysStarts \/ NsysStops(TRUE) \/ NsysStops(FALSE) \/ NsysFails
  <2>1. UNCHANGED captureFrame
    BY <1>14 DEF NsysStarts, NsysStops, NsysFails, nsysFrame
  <2> QED BY <1>8, <1>14, <2>1, AnswerCaptures
<1>15. CASE Started
  <2>1. UNCHANGED captureFrame
    BY <1>15 DEF Started
  <2> QED BY <1>8, <1>15, <2>1, StartedCaptures
<1>16. CASE StoppedCapture
  <2>1. UNCHANGED captureFrame
    BY <1>16 DEF StoppedCapture
  <2> QED BY <1>8, <1>16, <2>1, StoppedCaptures
<1>17. ASSUME NEW r \in reports, DeleteCapture(r) PROVE AttendedInv'
  <2>1. UNCHANGED captureFrame
    BY <1>17 DEF DeleteCapture
  <2> QED BY <1>8, <1>17, <2>1, DeleteCaptures
<1>18. CASE UNCHANGED RouterModelsVars
  <2>1. UNCHANGED <<phase, launches, loadVars, captureVars, syncVars>>
    BY <1>18 DEF RouterModelsVars
  <2>2. PhaseOK'
    BY <2>1 DEF PhaseOK
  <2> QED BY <2>1, <2>2, LoadsRest, CapturesRest, SyncRest DEF AttendedInv, captureVars
<1> QED BY <1>1, <1>2, <1>3, <1>4, <1>5, <1>6, <1>9, <1>10, <1>11, <1>12, <1>13, <1>14, <1>15,
           <1>16, <1>17, <1>18 DEF RouterModelsNext

----------------------------------------------------------------------------

\* The inductive invariant.
THEOREM RouterModelsInvariant == RouterModelsSpec => []AttendedInv
BY AttendedInit, AttendedNext, PTL DEF RouterModelsSpec

\* An exclusive model is alone in the router unless two loads were checked
\* against one list; the capture that is shown is the one nsys records and a
\* report holds the capture it is named for, unless something was untimely;
\* and one task copies events, while the router is ready and no longer.
THEOREM RouterIsAttended == RouterModelsSpec => []RouterAttended
<1>1. AttendedInv => RouterAttended
  <2> SUFFICES ASSUME AttendedInv PROVE RouterAttended
    OBVIOUS
  <2>1. RouterModelsTypeOK
    BY DEF AttendedInv, PhaseOK, LoadsOK, CapturesOK, SyncOK, Commands, RouterModelsTypeOK
  <2> QED BY <2>1 DEF AttendedInv, LoadsOK, CapturesOK, SyncOK, RouterAttended
<1> QED BY <1>1, RouterModelsInvariant, PTL
=============================================================================
