------------------------------- MODULE Serving --------------------------------
(***************************************************************************)
(* What the router is started with and what is asked of it while it runs:  *)
(* start, stop, restart and rollback under the lifecycle lock              *)
(* (ControlPlane and the server routes of app.py), the access tokens it    *)
(* accepts (TokenRegistry), the runtimes it can be started with            *)
(* (RuntimeRegistry) and its run records (ServerRunRegistry).               *)
(*                                                                         *)
(* How a start and a stop go through the supervisor is RouterSupervisor;   *)
(* here each is one step with the outcomes that module allows.             *)
(***************************************************************************)
EXTENDS Naturals, FiniteSets, Sequences

CONSTANTS
  Runtimes, NoRuntime,
  Tokens,
  MaxRuns,           \* bound: starts that get as far as a run record
  MaxRequests        \* bound: changes of runtimes, profiles and tokens, and
                     \* deaths of the router

ASSUME ServingAssumption == NoRuntime \notin Runtimes /\ MaxRuns \in Nat

VARIABLES
  registered, \* registered runtimes
  usable,     \* those whose last probe found no error
  registering, reprobing, \* runtimes being probed to register them, or again
  offered,    \* runtimes with enabled profiles whose files are there
  token,      \* each token: "none", "enabled" or "revoked"
  keyFile,    \* the key file: absent, or the tokens in it
  materialized, \* TokenRegistry._materialized
  router,     \* "stopped", "crashed" or "live"
  launched,   \* runtime of the last launch
  keyed,      \* the launch names the key file
  accepted,   \* tokens the running process read from it
  relaunches, \* the supervisor restarts the router after a crash
  runs,       \* server run records
  active,     \* active_server_run_id, as an index of runs
  overtaken,  \* history: a start began while an automatic restart was due
  request,    \* the request that holds the lifecycle lock
  answer,     \* what the last one was answered
  requests

ServingVars == <<registered, usable, registering, reprobing, offered, overtaken, token, keyFile,
                 materialized, router, launched, keyed, accepted, relaunches,
                 runs, active, request, answer, requests>>
registry == <<registered, usable, registering, reprobing, offered, requests>>
probing == <<registering, reprobing>>
keys == <<token, keyFile, materialized>>
process == <<router, launched, keyed, accepted, relaunches, overtaken>>

Absent == {"absent"}
Idle == [kind |-> "none", at |-> "idle", runtime |-> NoRuntime, back |-> NoRuntime,
         keyed |-> FALSE, run |-> 0]
EnabledTokens == {t \in Tokens : token[t] = "enabled"}
RouterDown == router \in {"stopped", "crashed"}

\* The first start of the application, and one that finds what earlier ones
\* have stored.
ServingInit ==
  /\ registered \in {{}, Runtimes} /\ usable = registered /\ offered \in {{}, registered}
  /\ registering = {} /\ reprobing = {}
  /\ token \in [Tokens -> {"none", "enabled"}] /\ keyFile = Absent /\ materialized = FALSE
  /\ router = "stopped" /\ launched = NoRuntime /\ keyed = FALSE /\ accepted = {}
  /\ relaunches = FALSE /\ overtaken = FALSE /\ runs = <<>> /\ active = 0
  /\ request = Idle /\ answer = "none"
  /\ requests = 0

----------------------------------------------------------------------------
(* Runtimes and the profiles of a runtime                                  *)

Changing == requests < MaxRequests /\ requests' = requests + 1
notRegistry == <<keys, process, runs, active, request, answer>>

\* register and reprobe, up to their probes.
RegisterRuntime(r) ==
  /\ Changing /\ r \notin registered \cup registering \cup reprobing
  /\ registering' = registering \cup {r}
  /\ UNCHANGED <<reprobing, registered, usable, offered, notRegistry>>
ReprobeRuntime(r) ==
  /\ Changing /\ r \in registered \ reprobing /\ reprobing' = reprobing \cup {r}
  /\ UNCHANGED <<registering, registered, usable, offered, notRegistry>>

\* What a probe found: is the executable one that can be started?
Finds(r) == usable' \in {usable \cup {r}, usable \ {r}}

\* _apply_probe: whatever it found is stored, if the runtime is still there.
Registered(r) ==
  /\ r \in registering /\ registering' = registering \ {r}
  /\ registered' = registered \cup {r} /\ Finds(r)
  /\ UNCHANGED <<reprobing, offered, requests, notRegistry>>
Reprobed(r) ==
  /\ r \in reprobing /\ reprobing' = reprobing \ {r}
  /\ IF r \in registered THEN Finds(r) ELSE UNCHANGED usable
  /\ UNCHANGED <<registering, registered, offered, requests, notRegistry>>

\* A runtime's first profile is enabled, or its last one deleted.
Offers(r) ==
  /\ Changing /\ r \in registered \ offered /\ offered' = offered \cup {r}
  /\ UNCHANGED <<registered, usable, probing, notRegistry>>
Withdraws(r) ==
  /\ Changing /\ RouterDown /\ r \in offered /\ offered' = offered \ {r}
  /\ UNCHANGED <<registered, usable, probing, notRegistry>>

\* Not one a profile refers to; run records of the runtime lose it (ON DELETE
\* SET NULL).
Removes(r) ==
  /\ r \in registered \ offered
  /\ registered' = registered \ {r} /\ usable' = usable \ {r}
  /\ runs' = [i \in DOMAIN runs |->
       IF runs[i].runtime = r THEN [runs[i] EXCEPT !.runtime = NoRuntime] ELSE runs[i]]
  /\ UNCHANGED <<probing, offered, keys, process, active, request, answer>>
\* remove_runtime: nor the runtime of a running router.
RemoveRuntime(r) ==
  /\ Changing /\ Removes(r)
  /\ ~RouterDown /\ active # 0 => runs[active].runtime # r

----------------------------------------------------------------------------
(* Access tokens                                                           *)

\* A variant: the key file is only written when a router starts.
RewrittenAtStart == keyFile

\* _materialize_locked, for a token that is created or revoked.
Rewritten == IF materialized THEN {t \in Tokens : token'[t] = "enabled"} ELSE keyFile

tokenFrame == <<materialized, registered, usable, probing, offered, process, runs,
                active, request, answer>>
Create(t) ==
  /\ token[t] = "none" /\ token' = [token EXCEPT ![t] = "enabled"] /\ keyFile' = Rewritten
Revoke(t) ==
  /\ token[t] = "enabled" /\ token' = [token EXCEPT ![t] = "revoked"] /\ keyFile' = Rewritten
CreateToken(t) == Changing /\ RouterDown /\ Create(t) /\ UNCHANGED tokenFrame
RevokeToken(t) == Changing /\ RouterDown /\ Revoke(t) /\ UNCHANGED tokenFrame

RemovesKeys == keyFile' = Absent /\ materialized' = FALSE /\ UNCHANGED token

----------------------------------------------------------------------------
(* Start, stop, restart and rollback                                       *)

Asked(kind, at, r, back) ==
  /\ request = Idle
  /\ request' = [kind |-> kind, at |-> at, runtime |-> r, back |-> back,
                  keyed |-> FALSE, run |-> 0]
  /\ answer' = "none"
  /\ UNCHANGED <<registry, keys, process, runs, active>>

StartServer(r) == Asked("start", "begin", r, NoRuntime)
StopServer == Asked("stop", "stop", NoRuntime, NoRuntime)

\* restart_server: the runtime asked for, or the one of the active run.
RestartServer ==
  /\ active # 0
  /\ \E r \in registered \cup {runs[active].runtime} :
       r # NoRuntime /\ Asked("restart", "stop", r, NoRuntime)

\* previous_runtime_id: the runtime of the newest other run without an error.
PreviousRuntime ==
  LET fit == {i \in DOMAIN runs : /\ i # active
                                  /\ runs[i].runtime \notin {NoRuntime, runs[active].runtime}
                                  /\ ~runs[i].error /\ runs[i].state \in {"ready", "stopped"}}
  IN  IF fit = {} THEN NoRuntime
      ELSE runs[CHOOSE i \in fit : \A k \in fit : k <= i].runtime

\* rollback_server, up to the stop: everything about the candidate is checked.
RollbackServer ==
  /\ router = "live" /\ active # 0 /\ runs[active].runtime # NoRuntime
  /\ PreviousRuntime \in registered \cap usable \cap offered
  /\ Asked("rollback", "stop", PreviousRuntime, runs[active].runtime)

Answers(a) == request' = Idle /\ answer' = a
At(p) == request' = [request EXCEPT !.at = p] /\ UNCHANGED answer

\* record_router_state: the active run follows the router; a process that is
\* started for a run that has ended gets a record of its own.
Heard(state) ==
  [i \in DOMAIN runs |-> IF i = active THEN [runs[i] EXCEPT !.state = state] ELSE runs[i]]
Retries == runs[active].state \in {"stopped", "crashed"}
Came(state) ==
  IF Retries THEN Append(runs, [runs[active] EXCEPT !.state = state, !.error = FALSE])
  ELSE Heard(state)
CameActive == active' = (IF Retries THEN Len(runs) + 1 ELSE active) /\ Len(runs') <= MaxRuns

requestFrame == registry

\* supervisor.stop: the process ends; only stop_router removes the keys.
Stops ==
  /\ request.at = "stop"
  /\ router' = "stopped" /\ relaunches' = FALSE /\ accepted' = {}
  /\ runs' = Heard("stopped")
  /\ IF request.kind = "stop" THEN RemovesKeys /\ Answers("ok")
     ELSE UNCHANGED keys /\ At("begin")
  /\ UNCHANGED <<launched, keyed, overtaken, active, requestFrame>>

\* A stop that does not end the process.  Rollback handles no error of it.
StopFails ==
  /\ request.at = "stop" /\ router = "live"
  /\ Answers(IF request.kind = "rollback" THEN "unexpected" ELSE "refused")
  /\ UNCHANGED <<keys, process, runs, active, requestFrame>>

\* A variant: a failed candidate is reported as any failed start is.
StartEndsRefused == Answers("refused")

\* A start that ends in an HTTP error: a rollback then starts the runtime it
\* came from, and reports both if that fails too.
StartEnds ==
  CASE request.kind = "rollback" /\ request.runtime # request.back ->
         /\ request' = [request EXCEPT !.at = "begin", !.runtime = request.back]
         /\ UNCHANGED answer
    [] request.kind = "rollback" /\ request.runtime = request.back -> Answers("lost")
    [] OTHER -> Answers("refused")

Startable(r) == RouterDown /\ r \in registered \cap usable \cap offered

\* start_router_locked, up to the probe of the port: the presets and the keys
\* are written, has_enabled decides whether the launch names the key file, and
\* a run record is made the active one.
Begins ==
  /\ request.at = "begin"
  /\ IF Startable(request.runtime)
     THEN /\ Len(runs) < MaxRuns
          /\ materialized' = TRUE /\ keyFile' = EnabledTokens
          /\ runs' = Append(runs, [runtime |-> request.runtime, state |-> "starting",
                                   error |-> FALSE])
          /\ active' = Len(runs) + 1 /\ UNCHANGED <<token, answer>>
          /\ request' = [request EXCEPT !.at = "probing", !.keyed = EnabledTokens # {},
                                        !.run = active']
          /\ overtaken' = (router = "crashed" /\ relaunches)
     ELSE UNCHANGED <<keys, overtaken, runs, active>> /\ StartEnds
  /\ UNCHANGED <<router, launched, keyed, accepted, relaunches, requestFrame>>

\* write_combined_preset_atomic raises ValueError (two sections of one name),
\* which no caller turns into an HTTP error.
PresetRefused ==
  /\ request.at = "begin" /\ Startable(request.runtime) /\ Answers("unexpected")
  /\ UNCHANGED <<keys, process, runs, active, requestFrame>>

Probing ==
  /\ request.at = "probing"
  /\ \/ At("launch") /\ UNCHANGED runs
     \/ /\ runs' = [runs EXCEPT ![request.run].state = "crashed",
                                ![request.run].error = TRUE]
        /\ StartEnds
  /\ UNCHANGED <<keys, process, active, requestFrame>>

\* llama-server reads the key file when it starts.
Reads(named) == IF named THEN keyFile \ Absent ELSE {}
Launches ==
  /\ request.at = "launch" /\ RouterDown
  /\ router' = "live" /\ launched' = request.runtime /\ relaunches' = TRUE
  /\ overtaken' = FALSE
  /\ keyed' = request.keyed /\ accepted' = Reads(request.keyed)
  /\ runs' = Came("ready") /\ CameActive
  /\ Answers(CASE request.kind # "rollback" -> "ok"
               [] request.runtime = request.back -> "restored" [] OTHER -> "ok")
  /\ UNCHANGED <<keys, requestFrame>>

\* _failed_start: the process does not come up in time or exits, or an
\* automatic restart was faster.  The run that was made for the start gets the
\* error, the supervisor's state and the blame.
LaunchFails ==
  /\ request.at = "launch"
  /\ LET ends == IF router' = "live" THEN "ready" ELSE "crashed"
         fails(records) == [records EXCEPT ![request.run].error = TRUE,
                                           ![request.run].state = ends]
     IN  IF router = "live"
         THEN UNCHANGED <<process, active>> /\ runs' = fails(runs)
         ELSE /\ router' \in {"crashed", "live"} /\ relaunches' = (router' = "live")
              /\ launched' = request.runtime /\ keyed' = request.keyed
              /\ overtaken' = FALSE
              /\ accepted' = IF router' = "live" THEN Reads(request.keyed) ELSE {}
              /\ runs' = fails(Came(ends)) /\ CameActive
  /\ RemovesKeys /\ StartEnds /\ UNCHANGED requestFrame

\* The process dies; the supervisor launches it again as it was launched.
RouterCrashes ==
  /\ Changing /\ router = "live"
  /\ router' = "crashed" /\ accepted' = {} /\ runs' = Heard("crashed")
  /\ UNCHANGED <<registered, usable, probing, offered, keys, launched, keyed, relaunches,
                 overtaken, active, request, answer>>
Relaunches ==
  /\ router = "crashed" /\ relaunches
  /\ router' = "live" /\ accepted' = Reads(keyed) /\ runs' = Came("ready") /\ CameActive
  /\ UNCHANGED <<registry, keys, launched, keyed, relaunches, overtaken, request, answer>>

ServingNext ==
  \/ \E r \in Runtimes : \/ RegisterRuntime(r) \/ ReprobeRuntime(r)
                         \/ Registered(r) \/ Reprobed(r) \/ Offers(r) \/ Withdraws(r)
                         \/ RemoveRuntime(r) \/ StartServer(r)
  \/ \E t \in Tokens : CreateToken(t) \/ RevokeToken(t)
  \/ StopServer \/ RestartServer \/ RollbackServer
  \/ Stops \/ StopFails \/ Begins \/ PresetRefused \/ Probing \/ Launches \/ LaunchFails
  \/ RouterCrashes \/ Relaunches

ServingSpec == ServingInit /\ [][ServingNext]_ServingVars

----------------------------------------------------------------------------
(* Properties                                                              *)

ServingTypeOK ==
  /\ usable \cup offered \subseteq registered
  /\ registered \cup registering \cup reprobing \subseteq Runtimes
  /\ token \in [Tokens -> {"none", "enabled", "revoked"}]
  /\ keyFile = Absent \/ keyFile \subseteq Tokens
  /\ materialized \in BOOLEAN /\ keyed \in BOOLEAN
  /\ router \in {"stopped", "crashed", "live"} /\ accepted \subseteq Tokens
  /\ active \in 0..Len(runs) /\ Len(runs) <= MaxRuns
  /\ answer \in {"none", "ok", "refused", "restored", "lost", "unexpected"}

\* A running router that checks tokens accepts none that was revoked, also
\* when it was revoked while the port was probed or between a crash and the
\* automatic restart.
RevokedStayOut == router = "live" => accepted \subseteq EnabledTokens

\* While no request is under way, the active run record names the runtime the
\* router runs with, unless the last start began while an automatic restart was
\* due, which then continues that start's record with the runtime before it.
RecordNamesRouter ==
  router = "live" /\ request = Idle /\ ~overtaken
    => runs[active].runtime \in {launched, NoRuntime}

\* What runs is what the records of tokens, runtimes and runs say.
RouterObeysRecords == ServingTypeOK /\ RevokedStayOut /\ RecordNamesRouter

\* A rollback leaves the runtime it was asked for or the one it came from
\* running, unless it reports that both failed, or its stop or the writing of
\* the presets met an error that it does not handle.
RollbackRestores ==
  [][request.kind = "rollback" /\ request' = Idle /\ answer' \notin {"lost", "unexpected"}
       => router' = "live" /\ launched' \in {request.runtime, request.back}]_ServingVars
=============================================================================
