-------------------------- MODULE ControlPlaneProofs --------------------------
(***************************************************************************)
(* Theorems about what the control plane stores: the run records, the keys *)
(* and the router process of Serving, the profiles, their snapshots and    *)
(* downloads of Profiles, the launch arguments of ProfileArguments, and    *)
(* the accounts and sessions of Accounts.  Each part has an inductive      *)
(* invariant of its own, and shares no variable with the others.           *)
(***************************************************************************)
EXTENDS Accounts, Profiles, Serving, ProfileArguments, FiniteSetTheorems,
        WellFoundedInduction, TLAPS

(***************************************************************************)
(* Serving.  The active record names the runtime of the router that runs   *)
(* and of the request that starts one; a runtime that is removed takes its *)
(* name out of the records, which names the same run still (SameRuns).     *)
(***************************************************************************)

RunStates == {"starting", "ready", "stopped", "crashed"}
RunRecord == [runtime : Runtimes \cup {NoRuntime}, state : RunStates, error : BOOLEAN]
Requests == [kind : {"none", "start", "stop", "restart", "rollback"},
             at : {"idle", "begin", "stop", "probing", "launch"},
             runtime : Runtimes \cup {NoRuntime}, back : Runtimes \cup {NoRuntime},
             keyed : BOOLEAN, run : Nat]

\* The process runs, or will be launched again without a request.
Running == router = "live" \/ (router = "crashed" /\ relaunches)
Starting == request.at \in {"probing", "launch"}

\* The active record of some records names a runtime, which may be removed.
Names(records, i, r) == i # 0 /\ records[i].runtime \in {r, NoRuntime}

\* The key file holds the enabled tokens from a start until the keys are removed.
KeysOK ==
  /\ keyFile = (IF materialized THEN EnabledTokens ELSE Absent)
  /\ RevokedStayOut

RunTypes ==
  /\ runs \in Seq(RunRecord) /\ request \in Requests
  /\ request = Idle \/ (request.kind # "none" /\ request.at # "idle")
  /\ relaunches \in BOOLEAN /\ overtaken \in BOOLEAN
  /\ router = "stopped" => ~relaunches

\* A start writes a record with its runtime; a router that runs has one, of
\* its runtime, unless a start went past it.
NamedOK ==
  /\ Starting => Names(runs, active, request.runtime)
  /\ Running => active # 0
  /\ Running /\ ~overtaken => ~Starting /\ Names(runs, active, launched)

ServingInv == ServingTypeOK /\ RunTypes /\ KeysOK /\ NamedOK

\* The types, part by part.
RegistryTyped ==
  /\ usable \cup offered \subseteq registered
  /\ registered \cup registering \cup reprobing \subseteq Runtimes
KeysTyped ==
  /\ token \in [Tokens -> {"none", "enabled", "revoked"}]
  /\ keyFile = Absent \/ keyFile \subseteq Tokens
  /\ materialized \in BOOLEAN
ProcessTyped ==
  /\ keyed \in BOOLEAN /\ router \in {"stopped", "crashed", "live"} /\ accepted \subseteq Tokens
  /\ active \in 0..Len(runs) /\ Len(runs) <= MaxRuns
  /\ answer \in {"none", "ok", "refused", "restored", "lost", "unexpected"}

----------------------------------------------------------------------------
(* Run records                                                             *)

\* A function on the first numbers is a sequence.
LEMMA FunctionIsSeq ==
  ASSUME NEW S, NEW n \in Nat, NEW f \in [1..n -> S]
  PROVE  f \in Seq(S) /\ Len(f) = n
OBVIOUS

\* Records of which some may have changed their state and error, or lost a
\* runtime that was removed.
SameRuns(old, new) ==
  /\ new \in Seq(RunRecord) /\ Len(new) = Len(old)
  /\ \A i \in 1..Len(old) : new[i].runtime \in {old[i].runtime, NoRuntime}

\* The active record still names what it did.
LEMMA SameNames ==
  ASSUME NEW old, NEW new, NEW i \in 0..Len(old), NEW r, SameRuns(old, new), Names(old, i, r)
  PROVE  Names(new, i, r)
<1>1. i \in 1..Len(old)
  BY DEF Names
<1> QED BY <1>1 DEF SameRuns, Names

\* Nothing changes.
LEMMA RunsSame == ASSUME runs \in Seq(RunRecord) PROVE SameRuns(runs, runs)
BY DEF SameRuns

\* The active record follows the router.
LEMMA HeardSame ==
  ASSUME runs \in Seq(RunRecord), NEW state \in RunStates
  PROVE  SameRuns(runs, Heard(state))
<1>1. \A i \in 1..Len(runs) : runs[i] \in RunRecord
  OBVIOUS
<1>2. \A i \in 1..Len(runs) :
        (IF i = active THEN [runs[i] EXCEPT !.state = state] ELSE runs[i]) \in RunRecord
  BY <1>1 DEF RunRecord
<1>3. Heard(state) \in [1..Len(runs) -> RunRecord] /\ Len(runs) \in Nat
  BY <1>2 DEF Heard
<1>4. Heard(state) \in Seq(RunRecord) /\ Len(Heard(state)) = Len(runs)
  BY <1>3, FunctionIsSeq
<1>5. \A i \in 1..Len(runs) : Heard(state)[i].runtime = runs[i].runtime
  BY <1>1 DEF Heard, RunRecord
<1> QED BY <1>4, <1>5 DEF SameRuns

\* Records of a runtime that is removed lose it.
LEMMA RemovesSame ==
  ASSUME runs \in Seq(RunRecord), NEW r \in Runtimes, Removes(r)
  PROVE  SameRuns(runs, runs')
<1>1. \A i \in 1..Len(runs) : runs[i] \in RunRecord
  OBVIOUS
<1>2. \A i \in 1..Len(runs) :
        (IF runs[i].runtime = r THEN [runs[i] EXCEPT !.runtime = NoRuntime] ELSE runs[i])
          \in RunRecord
  BY <1>1 DEF RunRecord
<1>3. runs' \in [1..Len(runs) -> RunRecord] /\ Len(runs) \in Nat
  BY <1>2 DEF Removes
<1>4. runs' \in Seq(RunRecord) /\ Len(runs') = Len(runs)
  BY <1>3, FunctionIsSeq
<1>5. \A i \in 1..Len(runs) : runs'[i].runtime \in {runs[i].runtime, NoRuntime}
  BY <1>1 DEF Removes, RunRecord
<1> QED BY <1>4, <1>5 DEF SameRuns

\* The record of a start that fails gets its error.
LEMMA FailsSame ==
  ASSUME NEW old \in Seq(RunRecord), NEW k, NEW state \in RunStates
  PROVE  SameRuns(old, [old EXCEPT ![k].error = TRUE, ![k].state = state])
<1> DEFINE mid == [old EXCEPT ![k].error = TRUE]
           new == [mid EXCEPT ![k].state = state]
<1>1. old \in [1..Len(old) -> RunRecord] /\ Len(old) \in Nat
  OBVIOUS
<1>2. mid \in [1..Len(old) -> RunRecord] /\ \A i \in 1..Len(old) : mid[i].runtime = old[i].runtime
  BY <1>1 DEF RunRecord
<1> HIDE DEF mid
<1>3. new \in [1..Len(old) -> RunRecord] /\ \A i \in 1..Len(old) : new[i].runtime = mid[i].runtime
  BY <1>2 DEF RunRecord
<1>4. new \in Seq(RunRecord) /\ Len(new) = Len(old)
  BY <1>1, <1>3, FunctionIsSeq
<1>5. new = [old EXCEPT ![k].error = TRUE, ![k].state = state]
  BY DEF mid
<1> HIDE DEF new
<1>6. \A i \in 1..Len(old) : new[i].runtime = old[i].runtime
  BY <1>2, <1>3
<1>7. SameRuns(old, new)
  BY <1>4, <1>6 DEF SameRuns
<1> QED BY <1>5, <1>7

\* The records when a process comes up or goes, and the active one of them.
LEMMA CameRuns ==
  ASSUME runs \in Seq(RunRecord), active \in 1..Len(runs), NEW state \in RunStates, NEW i,
         i = (IF Retries THEN Len(runs) + 1 ELSE active)
  PROVE  /\ Came(state) \in Seq(RunRecord) /\ i \in 1..Len(Came(state))
         /\ \A r : Names(runs, active, r) => Names(Came(state), i, r)
<1>1. CASE Retries
  <2>1. runs[active] \in RunRecord
    OBVIOUS
  <2> DEFINE fresh == [runs[active] EXCEPT !.state = state, !.error = FALSE]
  <2>2. fresh \in RunRecord /\ fresh.runtime = runs[active].runtime
    BY <2>1 DEF RunRecord
  <2>3. Came(state) = Append(runs, fresh) /\ i = Len(runs) + 1
    BY <1>1 DEF Came
  <2> HIDE DEF fresh
  <2>4. /\ Append(runs, fresh) \in Seq(RunRecord) /\ Len(Append(runs, fresh)) = Len(runs) + 1
        /\ Append(runs, fresh)[Len(runs) + 1] = fresh
    BY <2>2
  <2> QED BY <2>2, <2>3, <2>4 DEF Names
<1>2. CASE ~Retries
  <2>1. SameRuns(runs, Heard(state)) /\ Came(state) = Heard(state) /\ i = active
    BY <1>2, HeardSame DEF Came
  <2> QED BY <2>1, SameNames DEF SameRuns
<1> QED BY <1>1, <1>2

----------------------------------------------------------------------------
(* The parts of the invariant                                              *)

\* Steps that leave the keys and the process alone.
LEMMA KeysRest == ASSUME KeysOK, UNCHANGED <<keys, router, accepted>> PROVE KeysOK'
BY DEF KeysOK, keys, EnabledTokens, RevokedStayOut

\* A process that has ended, or reads the key file as it is.
LEMMA KeysRead ==
  ASSUME KeysOK, UNCHANGED keys, NEW named \in BOOLEAN, accepted' \in {{}, Reads(named)}
  PROVE  KeysOK'
<1>1. Reads(named) \subseteq EnabledTokens
  BY DEF KeysOK, Reads, Absent
<1> QED BY <1>1 DEF KeysOK, keys, EnabledTokens, RevokedStayOut

\* The keys are removed.
LEMMA KeysRemoved ==
  ASSUME KeysOK, RemovesKeys, router' = "live" => accepted' \subseteq EnabledTokens
  PROVE  KeysOK'
BY DEF KeysOK, RemovesKeys, EnabledTokens, RevokedStayOut

\* Steps that leave the process alone, keep the runtimes of the records and
\* begin no start.
LEMMA NamedRest ==
  ASSUME ServingInv, SameRuns(runs, runs'),
         UNCHANGED <<router, relaunches, overtaken, launched, active>>,
         Starting' => Starting /\ request'.runtime = request.runtime
  PROVE  NamedOK'
<1>1. active \in 0..Len(runs)
  BY DEF ServingInv, ServingTypeOK
<1>2. \A r : Names(runs, active, r) => Names(runs', active, r)
  BY <1>1, SameNames
<1> QED BY <1>2 DEF ServingInv, NamedOK, Running

\* What is answered, or asked, when a start ends in an error.
LEMMA StartEndsWell ==
  ASSUME ServingInv, StartEnds
  PROVE  /\ request' \in Requests /\ answer' \in {answer, "lost", "refused"}
         /\ request' = Idle \/ (request'.kind # "none" /\ request'.at = "begin")
<1>1. Idle \in Requests
  BY DEF Idle, Requests
<1>2. request \in Requests
  BY DEF ServingInv, RunTypes
<1>3. CASE request.kind = "rollback" /\ request.runtime # request.back
  <2>1. request' = [request EXCEPT !.at = "begin", !.runtime = request.back] /\ answer' = answer
    BY <1>3 DEF StartEnds
  <2> QED BY <1>2, <1>3, <2>1 DEF Requests
<1>4. CASE request.kind = "rollback" /\ request.runtime = request.back
  <2>1. request' = Idle /\ answer' = "lost"
    BY <1>4 DEF StartEnds, Answers
  <2> QED BY <1>1, <2>1
<1>5. CASE request.kind # "rollback"
  <2>1. request' = Idle /\ answer' = "refused"
    BY <1>5 DEF StartEnds, Answers
  <2> QED BY <1>1, <2>1
<1> QED BY <1>3, <1>4, <1>5

\* Its parts, together.
LEMMA Parts ==
  ServingInv <=> RegistryTyped /\ KeysTyped /\ ProcessTyped /\ RunTypes /\ KeysOK /\ NamedOK
BY DEF ServingInv, ServingTypeOK, RegistryTyped, KeysTyped, ProcessTyped

----------------------------------------------------------------------------
(* Each step keeps it                                                      *)

\* A step of the registry, or none at all.
LEMMA RegistryRest ==
  ASSUME ServingInv, UNCHANGED notRegistry, RegistryTyped'
  PROVE  ServingInv'
<1> USE DEF notRegistry, keys, process
<1>1. KeysTyped' /\ ProcessTyped' /\ RunTypes'
  BY DEF ServingInv, ServingTypeOK, KeysTyped, ProcessTyped, RunTypes
<1>2. KeysOK'
  BY KeysRest DEF ServingInv
<1>3. SameRuns(runs, runs')
  BY RunsSame DEF ServingInv, RunTypes
<1>4. NamedOK'
  BY <1>3, NamedRest DEF Starting
<1>5. (RegistryTyped /\ KeysTyped /\ ProcessTyped /\ RunTypes /\ KeysOK /\ NamedOK)'
  BY <1>1, <1>2, <1>4
<1> QED BY <1>5, Parts, PTL

\* Runtimes are registered, probed, offered and withdrawn.
LEMMA RegistryKeeps ==
  ASSUME ServingInv, NEW r \in Runtimes,
         \/ RegisterRuntime(r) \/ ReprobeRuntime(r) \/ Registered(r) \/ Reprobed(r)
         \/ Offers(r) \/ Withdraws(r)
  PROVE  ServingInv'
<1>1. UNCHANGED notRegistry
  BY DEF RegisterRuntime, ReprobeRuntime, Registered, Reprobed, Offers, Withdraws
<1> RegistryTyped
  BY Parts
<1>2. CASE RegisterRuntime(r) \/ ReprobeRuntime(r)
  <2>1. /\ registering' \subseteq registering \cup {r} /\ reprobing' \subseteq reprobing \cup {r}
        /\ UNCHANGED <<registered, usable, offered>>
    BY <1>2 DEF RegisterRuntime, ReprobeRuntime
  <2> QED BY <1>1, <2>1, RegistryRest DEF RegistryTyped
<1>3. CASE Registered(r)
  <2>1. /\ registering' = registering \ {r} /\ registered' = registered \cup {r}
        /\ usable' \subseteq usable \cup {r} /\ UNCHANGED <<reprobing, offered>>
    BY <1>3 DEF Registered, Finds
  <2>2. RegistryTyped'
    BY <2>1 DEF RegistryTyped
  <2> QED BY <1>1, <2>2, RegistryRest
<1>4. CASE Reprobed(r)
  <2>1. /\ reprobing' = reprobing \ {r} /\ UNCHANGED <<registering, registered, offered>>
        /\ usable' \subseteq usable \/ (r \in registered /\ usable' \subseteq usable \cup {r})
    BY <1>4 DEF Reprobed, Finds
  <2>2. RegistryTyped'
    BY <2>1 DEF RegistryTyped
  <2> QED BY <1>1, <2>2, RegistryRest
<1>5. CASE Offers(r) \/ Withdraws(r)
  <2>1. /\ UNCHANGED <<registering, reprobing, registered, usable>>
        /\ offered' \subseteq offered \/ (r \in registered /\ offered' \subseteq offered \cup {r})
    BY <1>5 DEF Offers, Withdraws, probing
  <2>2. RegistryTyped'
    BY <2>1 DEF RegistryTyped
  <2> QED BY <1>1, <2>2, RegistryRest
<1> QED BY <1>2, <1>3, <1>4, <1>5

\* A runtime is removed, and the records lose it.
LEMMA RemoveKeeps ==
  ASSUME ServingInv, NEW r \in Runtimes, RemoveRuntime(r)
  PROVE  ServingInv'
<1>1. /\ registered' = registered \ {r} /\ usable' = usable \ {r} /\ r \notin offered
      /\ UNCHANGED <<probing, offered, keys, process, active, request, answer>>
      /\ Removes(r)
  BY DEF RemoveRuntime, Removes
<1>2. RegistryTyped /\ KeysTyped /\ ProcessTyped /\ RunTypes /\ KeysOK
  BY Parts
<1>3. SameRuns(runs, runs')
  BY <1>1, <1>2, RemovesSame DEF RunTypes
<1>4. RegistryTyped'
  BY <1>1, <1>2 DEF RegistryTyped, probing
<1>5. KeysTyped' /\ ProcessTyped' /\ RunTypes'
  BY <1>1, <1>2, <1>3 DEF KeysTyped, ProcessTyped, RunTypes, SameRuns, keys, process
<1>6. KeysOK' /\ NamedOK'
  BY <1>1, <1>2, <1>3, KeysRest, NamedRest DEF process, Starting
<1> QED BY <1>4, <1>5, <1>6, Parts, PTL

\* A token is created or revoked.
LEMMA TokensKeep ==
  ASSUME ServingInv, NEW t \in Tokens, CreateToken(t) \/ RevokeToken(t)
  PROVE  ServingInv'
<1>1. /\ router # "live" /\ UNCHANGED tokenFrame /\ keyFile' = Rewritten
      /\ token' \in {[token EXCEPT ![t] = "enabled"], [token EXCEPT ![t] = "revoked"]}
  BY DEF CreateToken, RevokeToken, Create, Revoke, RouterDown
<1>2. RegistryTyped /\ KeysTyped /\ ProcessTyped /\ RunTypes /\ KeysOK
  BY Parts
<1>3. RegistryTyped' /\ ProcessTyped' /\ RunTypes'
  BY <1>1, <1>2 DEF RegistryTyped, ProcessTyped, RunTypes, tokenFrame, probing, process
<1>4. keyFile' = (IF materialized' THEN EnabledTokens' ELSE Absent)
  BY <1>1, <1>2 DEF KeysOK, Rewritten, EnabledTokens, tokenFrame
<1>5. KeysTyped' /\ KeysOK'
  BY <1>1, <1>2, <1>4
     DEF KeysTyped, KeysOK, RevokedStayOut, EnabledTokens, tokenFrame, process
<1>6. SameRuns(runs, runs')
  BY <1>1, <1>2, RunsSame DEF RunTypes, tokenFrame
<1>7. NamedOK'
  BY <1>1, <1>6, NamedRest DEF tokenFrame, process, Starting
<1> QED BY <1>3, <1>5, <1>7, Parts, PTL

\* Steps of a request that touch neither keys nor process, and begin no start.
LEMMA RequestRest ==
  ASSUME ServingInv, UNCHANGED <<registry, keys, process, active>>, SameRuns(runs, runs'),
         request' \in Requests, request' = Idle \/ (request'.kind # "none" /\ request'.at # "idle"),
         answer' \in {"none", "ok", "refused", "restored", "lost", "unexpected"},
         Starting' => Starting /\ request'.runtime = request.runtime
  PROVE  ServingInv'
<1>1. RegistryTyped /\ KeysTyped /\ ProcessTyped /\ RunTypes /\ KeysOK
  BY Parts
<1>2. RegistryTyped' /\ KeysTyped'
  BY <1>1 DEF RegistryTyped, KeysTyped, registry, keys
<1>3. ProcessTyped' /\ RunTypes'
  BY <1>1 DEF ProcessTyped, RunTypes, SameRuns, process
<1>4. KeysOK' /\ NamedOK'
  BY <1>1, KeysRest, NamedRest DEF process
<1> QED BY <1>2, <1>3, <1>4, Parts, PTL

\* A request is made.
LEMMA AskKeeps ==
  ASSUME ServingInv,
         \/ \E r \in Runtimes : StartServer(r)
         \/ StopServer \/ RestartServer \/ RollbackServer
  PROVE  ServingInv'
<1>1. RegistryTyped /\ ProcessTyped /\ RunTypes
  BY Parts
<1>2. PICK kind \in {"start", "stop", "restart", "rollback"}, at \in {"begin", "stop"},
           r \in Runtimes \cup {NoRuntime}, back \in Runtimes \cup {NoRuntime} :
        Asked(kind, at, r, back)
  <2>1. active # 0 => runs[active].runtime \in Runtimes \cup {NoRuntime}
    <3>1. active # 0 => runs[active] \in RunRecord
      BY <1>1 DEF ProcessTyped, RunTypes
    <3> QED BY <3>1 DEF RunRecord
  <2>2. CASE \E r \in Runtimes : StartServer(r)
    BY <2>2 DEF StartServer
  <2>3. CASE StopServer
    BY <2>3 DEF StopServer
  <2>4. CASE RestartServer
    <3>1. PICK r \in registered \cup {runs[active].runtime} :
            active # 0 /\ Asked("restart", "stop", r, NoRuntime)
      BY <2>4 DEF RestartServer
    <3>2. r \in Runtimes \cup {NoRuntime}
      BY <1>1, <2>1, <3>1 DEF RegistryTyped
    <3> QED BY <3>1, <3>2
  <2>5. CASE RollbackServer
    <3>1. /\ active # 0 /\ PreviousRuntime \in registered
          /\ Asked("rollback", "stop", PreviousRuntime, runs[active].runtime)
      BY <2>5 DEF RollbackServer
    <3>2. PreviousRuntime \in Runtimes
      BY <1>1, <3>1 DEF RegistryTyped
    <3> QED BY <2>1, <3>1, <3>2
  <2> QED BY <2>2, <2>3, <2>4, <2>5
<1>3. /\ request' = [kind |-> kind, at |-> at, runtime |-> r, back |-> back,
                     keyed |-> FALSE, run |-> 0]
      /\ answer' = "none" /\ UNCHANGED <<registry, keys, process, runs, active>>
  BY <1>2 DEF Asked
<1>4. /\ request' \in Requests /\ request'.kind = kind /\ request'.kind # "none"
      /\ request'.at = at /\ request'.at # "idle" /\ ~Starting'
  BY <1>3 DEF Requests, Starting
<1>5. SameRuns(runs, runs')
  BY <1>1, <1>3, RunsSame DEF RunTypes
<1> QED BY <1>3, <1>4, <1>5, RequestRest

\* The router stops: nothing runs, and nothing is launched again.
LEMMA StopKeeps ==
  ASSUME ServingInv, Stops
  PROVE  ServingInv'
<1>1. RegistryTyped /\ KeysTyped /\ ProcessTyped /\ RunTypes /\ KeysOK
  BY Parts
<1>2. /\ router' = "stopped" /\ relaunches' = FALSE /\ accepted' = {} /\ runs' = Heard("stopped")
      /\ UNCHANGED <<launched, keyed, overtaken, active, registry>> /\ request.at = "stop"
  BY DEF Stops, requestFrame
<1>3. SameRuns(runs, runs')
  BY <1>1, <1>2, HeardSame DEF RunTypes, RunStates
<1>4. \/ RemovesKeys /\ request' = Idle /\ answer' = "ok"
      \/ UNCHANGED keys /\ request' = [request EXCEPT !.at = "begin"] /\ answer' = answer
           /\ request.kind # "stop"
  BY DEF Stops, Answers, At
<1>5. /\ request' \in Requests /\ ~Starting'
      /\ request' = Idle \/ (request'.kind # "none" /\ request'.at # "idle")
  <2>1. Idle \in Requests /\ Idle.at = "idle"
    BY DEF Idle, Requests
  <2>2. request \in Requests /\ request.kind # "none"
    BY <1>1, <1>2 DEF RunTypes, Idle
  <2>3. CASE request' = Idle
    BY <2>1, <2>3 DEF Starting
  <2>4. CASE request' = [request EXCEPT !.at = "begin"]
    BY <2>2, <2>4 DEF Starting, Requests
  <2> QED BY <1>4, <2>3, <2>4
<1>6. RegistryTyped' /\ KeysTyped'
  BY <1>1, <1>2, <1>4 DEF RegistryTyped, KeysTyped, registry, keys, RemovesKeys, Absent
<1>7. ProcessTyped' /\ RunTypes'
  BY <1>1, <1>2, <1>3, <1>4, <1>5 DEF ProcessTyped, RunTypes, SameRuns
<1>8. KeysOK'
  BY <1>1, <1>2, <1>4 DEF KeysOK, RevokedStayOut, RemovesKeys, keys, EnabledTokens
<1>9. NamedOK'
  BY <1>2, <1>5 DEF NamedOK, Running
<1> QED BY <1>6, <1>7, <1>8, <1>9, Parts, PTL

\* Steps of a request that end it, or fail.
LEMMA RefusalsKeep ==
  ASSUME ServingInv, StopFails \/ PresetRefused \/ Probing
  PROVE  ServingInv'
<1>1. ProcessTyped /\ RunTypes
  BY Parts
<1>2. Idle \in Requests /\ Idle.at = "idle"
  BY DEF Idle, Requests
<1>3. SameRuns(runs, runs)
  BY <1>1, RunsSame DEF RunTypes
<1>4. CASE StopFails \/ PresetRefused
  <2>1. /\ request' = Idle /\ answer' \in {"unexpected", "refused"}
        /\ UNCHANGED <<registry, keys, process, runs, active>>
    BY <1>4 DEF StopFails, PresetRefused, Answers, requestFrame
  <2> QED BY <1>2, <1>3, <2>1, RequestRest DEF Starting
<1>5. CASE Probing /\ UNCHANGED runs
  <2>1. /\ request.at = "probing" /\ UNCHANGED <<registry, keys, process, active>>
        /\ \/ At("launch")
           \/ runs' = [runs EXCEPT ![request.run].state = "crashed", ![request.run].error = TRUE]
              /\ StartEnds
    BY <1>5 DEF Probing, requestFrame
  <2>2. CASE At("launch")
    <3>1. /\ request' = [request EXCEPT !.at = "launch"] /\ answer' = answer
          /\ request \in Requests /\ request # Idle
      BY <1>1, <2>1, <2>2 DEF At, RunTypes, Idle
    <3>2. /\ request' \in Requests /\ request'.kind # "none" /\ request'.at # "idle"
          /\ request'.runtime = request.runtime /\ Starting
      BY <1>1, <2>1, <3>1 DEF Requests, RunTypes, Starting
    <3>3. answer' \in {"none", "ok", "refused", "restored", "lost", "unexpected"}
      BY <1>1, <3>1 DEF ProcessTyped
    <3> QED BY <1>3, <1>5, <2>1, <3>2, <3>3, RequestRest
  <2>3. CASE StartEnds
    <3>1. /\ request' \in Requests /\ answer' \in {answer, "lost", "refused"}
          /\ request' = Idle \/ (request'.kind # "none" /\ request'.at = "begin")
      BY <2>3, StartEndsWell
    <3>2. ~Starting' /\ (request' = Idle \/ (request'.kind # "none" /\ request'.at # "idle"))
      BY <1>2, <3>1 DEF Starting
    <3>3. answer' \in {"none", "ok", "refused", "restored", "lost", "unexpected"}
      BY <1>1, <3>1 DEF ProcessTyped
    <3> QED BY <1>3, <1>5, <2>1, <3>1, <3>2, <3>3, RequestRest
  <2> QED BY <2>1, <2>2, <2>3
<1>6. CASE Probing /\ runs' # runs
  <2>1. /\ runs' = [runs EXCEPT ![request.run].state = "crashed", ![request.run].error = TRUE]
        /\ StartEnds /\ UNCHANGED <<registry, keys, process, active>>
    BY <1>6 DEF Probing, requestFrame
  <2>2. [runs EXCEPT ![request.run].state = "crashed", ![request.run].error = TRUE]
          = [runs EXCEPT ![request.run].error = TRUE, ![request.run].state = "crashed"]
    OBVIOUS
  <2>3. SameRuns(runs, runs')
    BY <1>1, <2>1, <2>2, FailsSame DEF RunTypes, RunStates
  <2>4. /\ request' \in Requests /\ answer' \in {answer, "lost", "refused"}
        /\ request' = Idle \/ (request'.kind # "none" /\ request'.at = "begin")
    BY <2>1, StartEndsWell
  <2>5. ~Starting' /\ (request' = Idle \/ (request'.kind # "none" /\ request'.at # "idle"))
    BY <1>2, <2>4 DEF Starting
  <2>6. answer' \in {"none", "ok", "refused", "restored", "lost", "unexpected"}
    BY <1>1, <2>4 DEF ProcessTyped
  <2> QED BY <2>1, <2>3, <2>4, <2>5, <2>6, RequestRest
<1> QED BY <1>4, <1>5, <1>6

\* A start writes the keys and the record, and notes a restart that is due.
LEMMA BeginKeeps ==
  ASSUME ServingInv, Begins
  PROVE  ServingInv'
<1>1. RegistryTyped /\ KeysTyped /\ ProcessTyped /\ RunTypes /\ KeysOK
  BY Parts
<1>2. /\ request.at = "begin" /\ UNCHANGED <<router, launched, keyed, accepted, relaunches, registry>>
      /\ request \in Requests /\ request.kind # "none"
  BY <1>1 DEF Begins, requestFrame, RunTypes, Idle
<1>3. CASE Startable(request.runtime)
  <2> DEFINE fresh == [runtime |-> request.runtime, state |-> "starting", error |-> FALSE]
  <2>1. /\ Len(runs) < MaxRuns /\ materialized' = TRUE /\ keyFile' = EnabledTokens
        /\ runs' = Append(runs, fresh) /\ active' = Len(runs) + 1 /\ UNCHANGED <<token, answer>>
        /\ request' = [request EXCEPT !.at = "probing", !.keyed = EnabledTokens # {},
                                      !.run = active']
        /\ overtaken' = (router = "crashed" /\ relaunches)
    BY <1>3 DEF Begins
  <2>2. fresh \in RunRecord /\ fresh.runtime = request.runtime /\ RouterDown
    BY <1>1, <1>3 DEF Startable, RegistryTyped, RunRecord, RunStates
  <2> HIDE DEF fresh
  <2>3. /\ runs' \in Seq(RunRecord) /\ Len(runs') = Len(runs) + 1 /\ Len(runs) \in Nat
        /\ runs'[Len(runs) + 1] = fresh
    BY <1>1, <2>1, <2>2 DEF RunTypes
  <2>4. active' \in Nat /\ active' # 0 /\ (EnabledTokens # {}) \in BOOLEAN
    BY <2>1, <2>3
  <2>5. /\ request' \in Requests /\ request'.kind # "none" /\ request'.at = "probing"
        /\ request'.runtime = request.runtime
    BY <1>2, <2>1, <2>4 DEF Requests
  <2>6. RegistryTyped' /\ KeysTyped'
    BY <1>1, <1>2, <2>1 DEF RegistryTyped, KeysTyped, registry, probing, EnabledTokens
  <2>7. ProcessTyped'
    BY <1>1, <1>2, <2>1, <2>3, ServingAssumption DEF ProcessTyped
  <2>8. RunTypes'
    BY <1>1, <1>2, <2>1, <2>3, <2>5 DEF RunTypes
  <2>9. KeysOK'
    BY <1>2, <2>1, <2>2 DEF KeysOK, EnabledTokens, RevokedStayOut, RouterDown
  <2>10. Names(runs', active', request'.runtime)
    BY <2>1, <2>2, <2>3, <2>4, <2>5 DEF Names
  <2>11. Running' => overtaken'
    BY <1>2, <2>1, <2>2 DEF Running, RouterDown
  <2>12. NamedOK'
    BY <2>4, <2>10, <2>11 DEF NamedOK
  <2> QED BY <2>6, <2>7, <2>8, <2>9, <2>12, Parts, PTL
<1>4. CASE ~Startable(request.runtime)
  <2>1. UNCHANGED <<registry, keys, process, runs, active>> /\ StartEnds
    BY <1>2, <1>4 DEF Begins, process
  <2>2. SameRuns(runs, runs')
    BY <1>1, <2>1, RunsSame DEF RunTypes
  <2>3. /\ request' \in Requests /\ answer' \in {answer, "lost", "refused"}
        /\ request' = Idle \/ (request'.kind # "none" /\ request'.at = "begin")
    BY <2>1, StartEndsWell
  <2>4. ~Starting' /\ (request' = Idle \/ (request'.kind # "none" /\ request'.at # "idle"))
    BY <2>3 DEF Starting, Idle
  <2>5. answer' \in {"none", "ok", "refused", "restored", "lost", "unexpected"}
    BY <1>1, <2>3 DEF ProcessTyped
  <2> QED BY <2>1, <2>2, <2>3, <2>4, <2>5, RequestRest
<1> QED BY <1>3, <1>4

\* A process comes up, or one that was to come up has gone, with the record it
\* continues.
LEMMA CameKeeps ==
  ASSUME ServingInv, active # 0, UNCHANGED registry,
         NEW state \in RunStates, NEW named \in BOOLEAN,
         SameRuns(Came(state), runs'), CameActive, keyed' = named,
         router' \in {"crashed", "live"}, relaunches' \in BOOLEAN, overtaken' \in BOOLEAN,
         accepted' \in {{}, Reads(named)},
         UNCHANGED keys \/ RemovesKeys,
         request' \in Requests, request' = Idle \/ (request'.kind # "none" /\ request'.at # "idle"),
         answer' \in {"none", "ok", "refused", "restored", "lost", "unexpected"},
         Starting' => Starting /\ request' = request,
         overtaken' \/ (~Starting' /\ Names(runs, active, launched'))
  PROVE  ServingInv'
<1>1. RegistryTyped /\ KeysTyped /\ ProcessTyped /\ RunTypes /\ KeysOK /\ NamedOK
  BY Parts DEF ServingInv
<1>2. active \in 1..Len(runs) /\ runs \in Seq(RunRecord)
  BY <1>1 DEF ProcessTyped, RunTypes
<1>3. active' = (IF Retries THEN Len(runs) + 1 ELSE active) /\ Len(runs') <= MaxRuns
  BY DEF CameActive
<1>4. /\ Came(state) \in Seq(RunRecord) /\ active' \in 1..Len(Came(state))
      /\ \A q : Names(runs, active, q) => Names(Came(state), active', q)
  BY <1>2, <1>3, CameRuns
<1>5. /\ runs' \in Seq(RunRecord) /\ active' \in 1..Len(runs') /\ active' \in 0..Len(Came(state))
      /\ active' \in 0..Len(runs') /\ active' # 0
  BY <1>4 DEF SameRuns
<1>6. \A q : Names(runs, active, q) => Names(runs', active', q)
  BY <1>4, <1>5, SameNames
<1>7. Reads(named) \subseteq EnabledTokens /\ EnabledTokens \subseteq Tokens
  BY <1>1 DEF KeysOK, Reads, Absent, EnabledTokens
<1>8. RegistryTyped' /\ KeysTyped'
  BY <1>1 DEF RegistryTyped, KeysTyped, registry, keys, RemovesKeys
<1>9. ProcessTyped'
  BY <1>3, <1>5, <1>7 DEF ProcessTyped
<1>10. RunTypes'
  BY <1>5 DEF RunTypes
<1>11. KeysOK'
  <2>1. EnabledTokens' = EnabledTokens
    BY DEF keys, RemovesKeys, EnabledTokens
  <2>2. accepted' \subseteq EnabledTokens
    BY <1>7
  <2>3. keyFile' = (IF materialized' THEN EnabledTokens ELSE Absent)
    BY <1>1 DEF keys, RemovesKeys, KeysOK
  <2> QED BY <2>1, <2>2, <2>3 DEF KeysOK, RevokedStayOut
<1>12. NamedOK'
  <2>1. Starting' => Names(runs', active', request'.runtime)
    BY <1>1, <1>6 DEF NamedOK
  <2>2. overtaken' \/ (~Starting' /\ Names(runs', active', launched'))
    BY <1>6
  <2> QED BY <1>5, <2>1, <2>2 DEF NamedOK, Running
<1> QED BY <1>8, <1>9, <1>10, <1>11, <1>12, Parts, PTL

\* The launch of a start.
LEMMA LaunchKeeps ==
  ASSUME ServingInv, Launches
  PROVE  ServingInv'
<1>1. ProcessTyped /\ RunTypes /\ NamedOK
  BY Parts
<1>2. /\ request.at = "launch" /\ request \in Requests /\ active # 0
      /\ Names(runs, active, request.runtime)
  BY <1>1 DEF Launches, RunTypes, NamedOK, Starting, Names
<1>3. /\ router' = "live" /\ launched' = request.runtime /\ relaunches' = TRUE
      /\ overtaken' = FALSE
      /\ keyed' = request.keyed /\ accepted' = Reads(request.keyed)
      /\ runs' = Came("ready") /\ CameActive
      /\ request' = Idle /\ answer' \in {"ok", "restored"} /\ UNCHANGED <<keys, registry>>
  BY DEF Launches, Answers, requestFrame
<1>4. Came("ready") \in Seq(RunRecord) /\ "ready" \in RunStates
  <2>1. active \in 1..Len(runs) /\ runs \in Seq(RunRecord) /\ "ready" \in RunStates
    BY <1>1, <1>2 DEF ProcessTyped, RunTypes, RunStates
  <2> QED BY <2>1, CameRuns
<1>5. SameRuns(Came("ready"), runs')
  BY <1>3, <1>4 DEF SameRuns
<1>6. Idle \in Requests /\ Idle.at = "idle" /\ ~Starting' /\ request.keyed \in BOOLEAN
  BY <1>2, <1>3 DEF Idle, Requests, Starting
<1>7. relaunches' \in BOOLEAN /\ overtaken' \in BOOLEAN
  BY <1>3
<1> QED BY <1>2, <1>3, <1>4, <1>5, <1>6, <1>7, CameKeeps

\* A start whose process does not come up.
LEMMA LaunchFailKeeps ==
  ASSUME ServingInv, LaunchFails
  PROVE  ServingInv'
<1>1. RegistryTyped /\ KeysTyped /\ ProcessTyped /\ RunTypes /\ KeysOK /\ NamedOK
  BY Parts DEF ServingInv
<1>2. /\ request.at = "launch" /\ request \in Requests /\ active # 0
      /\ Names(runs, active, request.runtime)
  BY <1>1 DEF LaunchFails, RunTypes, NamedOK, Starting, Names
<1>3. RemovesKeys /\ StartEnds /\ UNCHANGED registry
  BY DEF LaunchFails, requestFrame
<1>4. /\ request' \in Requests /\ answer' \in {answer, "lost", "refused"}
      /\ (request' = Idle \/ (request'.kind # "none" /\ request'.at = "begin"))
  BY <1>3, StartEndsWell
<1>5. ~Starting' /\ (request' = Idle \/ (request'.kind # "none" /\ request'.at # "idle"))
  BY <1>4 DEF Starting, Idle
<1>6. answer' \in {"none", "ok", "refused", "restored", "lost", "unexpected"}
  BY <1>1, <1>4 DEF ProcessTyped
<1>7. PICK ends \in {"ready", "crashed"} : ends = (IF router' = "live" THEN "ready" ELSE "crashed")
  OBVIOUS
<1>8. ends \in RunStates /\ request.keyed \in BOOLEAN
  BY <1>2 DEF RunStates, Requests
<1>9. CASE router = "live"
  <2>1. /\ UNCHANGED <<process, active>>
        /\ runs' = [runs EXCEPT ![request.run].error = TRUE, ![request.run].state = ends]
    BY <1>7, <1>9 DEF LaunchFails
  <2>2. SameRuns(runs, runs')
    BY <1>1, <1>8, <2>1, FailsSame DEF RunTypes
  <2>3. RegistryTyped' /\ KeysTyped'
    BY <1>1, <1>3 DEF RegistryTyped, KeysTyped, registry, RemovesKeys
  <2>4. ProcessTyped' /\ RunTypes'
    BY <1>1, <1>4, <1>5, <1>6, <2>1, <2>2 DEF ProcessTyped, RunTypes, SameRuns, process
  <2>5. KeysOK'
    BY <1>1, <1>3, <2>1 DEF KeysOK, RevokedStayOut, EnabledTokens, RemovesKeys, process
  <2>6. NamedOK'
    BY <1>5, <2>1, <2>2, NamedRest DEF process
  <2> QED BY <2>3, <2>4, <2>5, <2>6, Parts, PTL
<1>10. CASE router # "live"
  <2>1. /\ router' \in {"crashed", "live"} /\ relaunches' = (router' = "live")
        /\ launched' = request.runtime /\ keyed' = request.keyed
        /\ overtaken' = FALSE
        /\ accepted' = (IF router' = "live" THEN Reads(request.keyed) ELSE {})
        /\ runs' = [Came(ends) EXCEPT ![request.run].error = TRUE, ![request.run].state = ends]
        /\ CameActive
    BY <1>7, <1>10 DEF LaunchFails
  <2>2. Came(ends) \in Seq(RunRecord)
    <3>1. active \in 1..Len(runs) /\ runs \in Seq(RunRecord)
      BY <1>1, <1>2 DEF ProcessTyped, RunTypes
    <3> QED BY <1>8, <3>1, CameRuns
  <2>3. SameRuns(Came(ends), runs')
    BY <1>8, <2>1, <2>2, FailsSame
  <2>4. relaunches' \in BOOLEAN /\ overtaken' \in BOOLEAN /\ accepted' \in {{}, Reads(request.keyed)}
    BY <2>1
  <2> QED BY <1>2, <1>3, <1>4, <1>5, <1>6, <1>8, <2>1, <2>3, <2>4, CameKeeps
<1> QED BY <1>9, <1>10

\* The process dies, and is launched again.
LEMMA CrashKeeps ==
  ASSUME ServingInv, RouterCrashes
  PROVE  ServingInv'
<1>1. RegistryTyped /\ KeysTyped /\ ProcessTyped /\ RunTypes /\ KeysOK /\ NamedOK
  BY Parts DEF ServingInv
<1>2. /\ router = "live" /\ router' = "crashed" /\ accepted' = {} /\ runs' = Heard("crashed")
      /\ UNCHANGED <<registered, usable, probing, offered, keys, launched, keyed, relaunches,
                     overtaken, active, request, answer>>
  BY DEF RouterCrashes
<1>3. SameRuns(runs, runs')
  BY <1>1, <1>2, HeardSame DEF RunTypes, RunStates
<1>4. RegistryTyped' /\ KeysTyped'
  BY <1>1, <1>2 DEF RegistryTyped, KeysTyped, probing, keys
<1>5. ProcessTyped' /\ RunTypes'
  BY <1>1, <1>2, <1>3 DEF ProcessTyped, RunTypes, SameRuns
<1>6. KeysOK'
  BY <1>1, <1>2 DEF KeysOK, RevokedStayOut, EnabledTokens, keys
<1>7. active \in 0..Len(runs) /\ \A r : Names(runs, active, r) => Names(runs', active, r)
  BY <1>1, <1>3, SameNames DEF ProcessTyped
<1>8. NamedOK'
  BY <1>1, <1>2, <1>7 DEF NamedOK, Running, Starting
<1> QED BY <1>4, <1>5, <1>6, <1>8, Parts, PTL

\* A relaunch is of the runtime and the keys the record names.
LEMMA RelaunchKeeps ==
  ASSUME ServingInv, Relaunches
  PROVE  ServingInv'
<1>1. ProcessTyped /\ RunTypes /\ NamedOK
  BY Parts
<1>2. /\ router = "crashed" /\ relaunches /\ router' = "live" /\ accepted' = Reads(keyed)
      /\ runs' = Came("ready") /\ CameActive
      /\ UNCHANGED <<registry, keys, launched, keyed, relaunches, overtaken, request, answer>>
  BY DEF Relaunches
<1>3. keyed \in BOOLEAN /\ "ready" \in RunStates /\ active # 0
  BY <1>1, <1>2 DEF ProcessTyped, RunStates, NamedOK, Running
<1>4. Came("ready") \in Seq(RunRecord)
  <2>1. active \in 1..Len(runs) /\ runs \in Seq(RunRecord)
    BY <1>1, <1>3 DEF ProcessTyped, RunTypes
  <2> QED BY <1>3, <2>1, CameRuns
<1>5. SameRuns(Came("ready"), runs')
  BY <1>2, <1>4 DEF SameRuns
<1>6. Starting' = Starting /\ (overtaken' \/ (~Starting' /\ Names(runs, active, launched')))
  BY <1>1, <1>2 DEF Starting, NamedOK, Running
<1>7. /\ relaunches' \in BOOLEAN /\ overtaken' \in BOOLEAN /\ request' \in Requests
      /\ answer' \in {"none", "ok", "refused", "restored", "lost", "unexpected"}
      /\ (request' = Idle \/ (request'.kind # "none" /\ request'.at # "idle"))
  BY <1>1, <1>2 DEF RunTypes, ProcessTyped
<1> QED BY <1>2, <1>3, <1>5, <1>6, <1>7, CameKeeps

----------------------------------------------------------------------------

\* It holds at first.
LEMMA ServingStarts == ServingInit => ServingInv
<1> SUFFICES ASSUME ServingInit PROVE ServingInv
  OBVIOUS
<1>1. RegistryTyped /\ KeysTyped
  BY DEF ServingInit, RegistryTyped, KeysTyped
<1>2. <<>> \in Seq(RunRecord) /\ Len(<<>>) = 0
  OBVIOUS
<1>3. ProcessTyped
  <2>1. /\ keyed = FALSE /\ router = "stopped" /\ accepted = {} /\ active = 0 /\ runs = <<>>
        /\ answer = "none"
    BY DEF ServingInit
  <2>2. Len(runs) = 0 /\ 0 \in 0..0 /\ 0 <= MaxRuns
    BY <1>2, <2>1, ServingAssumption
  <2>3. active \in 0..Len(runs) /\ Len(runs) <= MaxRuns
    BY <2>1, <2>2
  <2> QED BY <2>1, <2>3 DEF ProcessTyped
<1>4. Idle \in Requests
  BY DEF Idle, Requests
<1>5. RunTypes
  BY <1>2, <1>4 DEF ServingInit, RunTypes
<1>6. KeysOK
  BY DEF ServingInit, KeysOK, RevokedStayOut
<1>7. NamedOK
  BY DEF ServingInit, NamedOK, Starting, Running, Idle
<1> QED BY <1>1, <1>3, <1>5, <1>6, <1>7, Parts

\* Every step keeps it.
LEMMA ServingSteps == ServingInv /\ [ServingNext]_ServingVars => ServingInv'
<1> SUFFICES ASSUME ServingInv, [ServingNext]_ServingVars PROVE ServingInv'
  OBVIOUS
<1>1. CASE UNCHANGED ServingVars
  <2>1. UNCHANGED notRegistry /\ UNCHANGED <<registered, usable, registering, reprobing, offered>>
    BY <1>1 DEF ServingVars, notRegistry, keys, process
  <2>2. RegistryTyped'
    BY <2>1, Parts DEF RegistryTyped
  <2> QED BY <2>1, <2>2, RegistryRest
<1>2. CASE ServingNext
  BY <1>2, RegistryKeeps, RemoveKeeps, AskKeeps, TokensKeep, StopKeeps, RefusalsKeep, BeginKeeps,
     LaunchKeeps, LaunchFailKeeps, CrashKeeps, RelaunchKeeps DEF ServingNext
<1> QED BY <1>1, <1>2

\* The inductive invariant.
THEOREM ServingInvariant == ServingSpec => []ServingInv
BY ServingStarts, ServingSteps, PTL DEF ServingSpec

\* A running router accepts no token that was revoked, and the active record
\* names the runtime it runs with, unless the last start went past an automatic
\* restart: for any runtimes, tokens and requests, and with a router that dies,
\* is launched again or does not come up anywhere in between.
THEOREM RecordsAreObeyed == ServingSpec => []RouterObeysRecords
<1>1. ServingInv => RouterObeysRecords
  <2> SUFFICES ASSUME ServingInv PROVE RouterObeysRecords
    OBVIOUS
  <2>1. RecordNamesRouter
    BY DEF ServingInv, NamedOK, RecordNamesRouter, Running, Names
  <2> QED BY <2>1 DEF ServingInv, KeysOK, RouterObeysRecords
<1> QED BY <1>1, ServingInvariant, PTL

\* A rollback that is answered leaves one of its two runtimes running, or says
\* that both failed, or met an error it does not handle.
THEOREM RollbacksRestore == ServingSpec => RollbackRestores
<1> DEFINE Restores ==
      request.kind = "rollback" /\ request' = Idle /\ answer' \notin {"lost", "unexpected"}
        => router' = "live" /\ launched' \in {request.runtime, request.back}
<1>1. ServingInv /\ [ServingNext]_ServingVars => [Restores]_ServingVars
  <2> SUFFICES ASSUME ServingInv, ServingNext, request.kind = "rollback", request' = Idle,
                      answer' \notin {"lost", "unexpected"}
               PROVE  router' = "live" /\ launched' \in {request.runtime, request.back}
    OBVIOUS
  <2>1. request \in Requests /\ Idle.at = "idle" /\ request # Idle /\ Idle.kind = "none"
    BY DEF ServingInv, RunTypes, Idle
  <2>2. ~StartEnds
    <3>1. CASE request.runtime # request.back
      <4>1. [request EXCEPT !.at = "begin", !.runtime = request.back].at = "begin"
        BY <2>1 DEF Requests
      <4> QED BY <2>1, <3>1, <4>1 DEF StartEnds
    <3>2. CASE request.runtime = request.back
      BY <3>2 DEF StartEnds, Answers
    <3> QED BY <3>1, <3>2
  <2>3. \A p \in {"begin", "launch"} : ~At(p)
    <3>1. \A p \in {"begin", "launch"} : [request EXCEPT !.at = p].at = p
      BY <2>1 DEF Requests
    <3> QED BY <2>1, <3>1 DEF At
  <2>4. \A kind, at, r, back : ~Asked(kind, at, r, back)
    BY <2>1 DEF Asked
  <2>5. ~UNCHANGED request
    BY <2>1
  <2>6. /\ ~StartEnds /\ ~Stops /\ ~StopFails /\ ~Begins /\ ~PresetRefused /\ ~Probing
        /\ ~LaunchFails
    <3>1. ~Stops
      BY <2>3 DEF Stops
    <3>2. ~StopFails
      BY DEF StopFails, Answers
    <3>3. ~Begins
      <4>1. CASE Startable(request.runtime)
        <5>1. ASSUME Begins PROVE FALSE
          <6>1. request' = [request EXCEPT !.at = "probing", !.keyed = EnabledTokens # {},
                                           !.run = active']
            BY <4>1, <5>1 DEF Begins
          <6>2. request'.at = "probing"
            BY <2>1, <6>1 DEF Requests
          <6> QED BY <2>1, <6>2
        <5> QED BY <5>1
      <4>2. CASE ~Startable(request.runtime)
        BY <2>2, <4>2 DEF Begins
      <4> QED BY <4>1, <4>2
    <3>4. ~PresetRefused
      BY DEF PresetRefused, Answers
    <3>5. ~Probing
      BY <2>2, <2>3 DEF Probing
    <3>6. ~LaunchFails
      BY <2>2 DEF LaunchFails
    <3> QED BY <2>2, <3>1, <3>2, <3>3, <3>4, <3>5, <3>6
  <2>7. ~StopServer /\ ~RestartServer /\ ~RollbackServer /\ \A r \in Runtimes : ~StartServer(r)
    BY <2>4 DEF StopServer, RestartServer, RollbackServer, StartServer
  <2>8. ~RouterCrashes /\ ~Relaunches
    BY <2>5 DEF RouterCrashes, Relaunches
  <2>9. \A r \in Runtimes : /\ ~RegisterRuntime(r) /\ ~ReprobeRuntime(r) /\ ~Registered(r)
                            /\ ~Reprobed(r) /\ ~Offers(r) /\ ~Withdraws(r) /\ ~RemoveRuntime(r)
    BY <2>5 DEF RegisterRuntime, ReprobeRuntime, Registered, Reprobed, Offers, Withdraws,
                RemoveRuntime, Removes, notRegistry
  <2>10. \A t \in Tokens : ~CreateToken(t) /\ ~RevokeToken(t)
    BY <2>5 DEF CreateToken, RevokeToken, tokenFrame
  <2>11. Launches
    BY <2>6, <2>7, <2>8, <2>9, <2>10 DEF ServingNext
  <2> QED BY <2>11 DEF Launches
<1> QED BY <1>1, ServingInvariant, PTL DEF ServingSpec, RollbackRestores

(***************************************************************************)
(* Profiles.  What is on has its model, and what has its model was         *)
(* rendered as it is (Sound); a snapshot is clean unless its profile was   *)
(* changed before it; a wait is for a download that has not completed, or  *)
(* whose callback is due.                                                  *)
(***************************************************************************)

LaunchSettings == [args : Settings, located : BOOLEAN, draft : BOOLEAN]
Presets == [name : Aliases, launch : LaunchSettings]
Baselines == {"rec1", "rec2", NoWait}
ProfileRecord ==
  [alias : Aliases, args : Settings, located : BOOLEAN, draft : BOOLEAN,
   enabled : BOOLEAN, waits : Jobs \cup {NoWait}, version : 1..MaxVersion,
   baseline : Baselines, preset : Presets]
SnapshotRecord ==
  [of : ProfileIds, conversation : BOOLEAN, launch : LaunchSettings,
   enabled : BOOLEAN, version : 1..MaxVersion, clean : BOOLEAN]

\* What is on has its model, and what has its model shows what it launches.
Sound(p) ==
  /\ p \in ProfileRecord
  /\ p.enabled => p.located
  /\ p.located => p.preset.launch = Launch(p)

\* The stored profiles: no two of one name, and none that a request switched
\* still waits for a download.
TableOK ==
  /\ Existing \subseteq ProfileIds /\ profiles \in [Existing -> ProfileRecord]
  /\ \A i \in Existing : Sound(profiles[i])
  /\ \A i, k \in Existing : profiles[i].alias = profiles[k].alias => i = k
  /\ decided \subseteq Existing
  /\ \A i \in decided : profiles[i].waits = NoWait

\* A profile that the conversation has not changed has clean snapshots only.
SnapshotsOK ==
  /\ snapshots \subseteq SnapshotRecord /\ \A s \in snapshots : s.of \in Existing
  /\ made \subseteq Existing /\ changed \subseteq Existing
  /\ \A s \in snapshots : s.of \notin changed => s.clean
  /\ UndoIsKept

HostOK ==
  /\ job \in [Jobs -> States] /\ file \in [Jobs -> BOOLEAN] /\ hooking \subseteq Jobs
  /\ running \in {"stopped", "starting", "live"} /\ release \in 1..2
  /\ serving \in BOOLEAN /\ edits \in Nat

ProfilesInv == TableOK /\ SnapshotsOK /\ HostOK /\ WaitingIsSettled

----------------------------------------------------------------------------
(* Records                                                                 *)

\* The versions of the bundled releases are within the bound.
LEMMA VersionsFit == 1 \in 1..MaxVersion /\ 1..2 \subseteq 1..MaxVersion
BY ProfilesAssumption DEF ProfilesAssumption

\* A launch is one, and a record of a profile that was stored is sound.
LEMMA StoredSound ==
  ASSUME NEW alias \in Aliases, NEW args \in Settings, NEW located \in BOOLEAN,
         NEW draft \in BOOLEAN, NEW on \in BOOLEAN, NEW version \in 1..MaxVersion,
         NEW baseline \in Baselines, on => located
  PROVE  Sound(Stored(alias, args, located, draft, on, version, baseline))
BY DEF Sound, Stored, Launch, ProfileRecord, Presets, LaunchSettings

\* What a record launches is a launch.
LEMMA LaunchTyped == ASSUME NEW p \in ProfileRecord PROVE Launch(p) \in LaunchSettings
BY DEF Launch, LaunchSettings, ProfileRecord

\* Rendering the preset of a record changes nothing else of it.
LEMMA RenderedSound ==
  ASSUME NEW p \in ProfileRecord, p.enabled => p.located
  PROVE  /\ Sound(WithPreset(p))
         /\ WithPreset(p).alias = p.alias /\ WithPreset(p).enabled = p.enabled
         /\ WithPreset(p).waits = p.waits /\ WithPreset(p).version = p.version
         /\ WithPreset(p).located = p.located
<1>1. Rendered(p) \in Presets
  BY LaunchTyped DEF Rendered, Presets, ProfileRecord
<1>2. WithPreset(p) \in ProfileRecord
  BY <1>1 DEF WithPreset, ProfileRecord
<1>3. Launch(WithPreset(p)) = Launch(p) /\ WithPreset(p).preset.launch = Launch(p)
  BY DEF WithPreset, ProfileRecord, Launch, Rendered
<1> QED BY <1>2, <1>3 DEF Sound, WithPreset, ProfileRecord

\* A save renders the preset and waits for nothing.
LEMMA UpdatedSound ==
  ASSUME NEW p \in ProfileRecord, NEW alias \in Aliases, NEW args \in Settings,
         NEW located \in BOOLEAN, NEW draft \in BOOLEAN, NEW on \in BOOLEAN,
         NEW version \in 1..MaxVersion, NEW baseline \in Baselines, on => located
  PROVE  /\ Sound(Updated(p, alias, args, located, draft, on, version, baseline))
         /\ Updated(p, alias, args, located, draft, on, version, baseline).waits = NoWait
<1> DEFINE q == [p EXCEPT !.alias = alias, !.args = args, !.located = located,
                          !.draft = draft, !.enabled = on, !.waits = NoWait,
                          !.version = version, !.baseline = baseline]
<1>1. q \in ProfileRecord /\ q.waits = NoWait /\ q.enabled = on /\ q.located = located
  BY DEF ProfileRecord
<1> HIDE DEF q
<1>2. Sound(WithPreset(q)) /\ WithPreset(q).waits = NoWait
  BY <1>1, RenderedSound
<1> QED BY <1>2 DEF Updated, q

\* The wait that is left is for a download that has not completed.
LEMMA ReadySound ==
  ASSUME HostOK, NEW p, Sound(p)
  PROVE  /\ Sound(Ready(p)) /\ Ready(p).alias = p.alias
         /\ Ready(p).waits # NoWait => job[Ready(p).waits] \in ActiveDownload
<1> USE DEF HostOK
<1>0. p \in ProfileRecord
  BY DEF Sound
<1>1. CASE Unfinished(p) # NoWait
  <2>1. Unfinished(p) \in Jobs /\ job[Unfinished(p)] \in ActiveDownload
    BY <1>1 DEF Unfinished, Jobs
  <2>2. Ready(p) = [p EXCEPT !.waits = Unfinished(p)]
    BY <1>1 DEF Ready
  <2> QED BY <1>0, <2>1, <2>2 DEF Sound, ProfileRecord, Launch
<1>2. CASE Unfinished(p) = NoWait /\ Validates(p)
  <2> DEFINE q == [p EXCEPT !.waits = NoWait, !.enabled = TRUE]
  <2>1. q \in ProfileRecord /\ q.alias = p.alias /\ q.waits = NoWait /\ q.located
    BY <1>0, <1>2 DEF ProfileRecord, Validates
  <2>2. Ready(p) = WithPreset(q)
    BY <1>2 DEF Ready
  <2> HIDE DEF q
  <2> QED BY <2>1, <2>2, RenderedSound
<1>3. CASE Unfinished(p) = NoWait /\ ~Validates(p)
  <2>1. Ready(p) = [p EXCEPT !.waits = NoWait]
    BY <1>3 DEF Ready
  <2> QED BY <1>0, <2>1 DEF Sound, ProfileRecord, Launch
<1> QED BY <1>1, <1>2, <1>3

\* Linking to a bundled recommendation changes nothing that launches.
LEMMA LinkedSound ==
  ASSUME NEW p, Sound(p), NEW r \in 1..2
  PROVE  /\ Sound(Linked(p, r)) /\ Linked(p, r).alias = p.alias
         /\ Linked(p, r).waits = p.waits /\ Linked(p, r).enabled = p.enabled
<1>1. Recommended(r) \in Baselines /\ r \in 1..MaxVersion
  BY VersionsFit DEF Recommended, Baselines
<1>2. Linked(p, r) = p \/ Linked(p, r) = [p EXCEPT !.baseline = Recommended(r), !.version = r]
  BY DEF Linked
<1> QED BY <1>1, <1>2 DEF Sound, ProfileRecord, Launch

----------------------------------------------------------------------------
(* The table                                                               *)

\* A profile of a new name is added.
LEMMA Adds ==
  ASSUME TableOK, NEW i \in ProfileIds, i \notin Existing, NEW p, Sound(p), Free(p.alias),
         profiles' = With(i, p), decided' \in {decided, decided \cup {i}},
         i \in decided' => p.waits = NoWait
  PROVE  TableOK' /\ Existing' = Existing \cup {i} /\ profiles'[i] = p
         /\ \A k \in Existing : profiles'[k] = profiles[k]
<1>1. Existing' = Existing \cup {i} /\ profiles'[i] = p
      /\ \A k \in Existing : profiles'[k] = profiles[k]
  BY DEF With, Existing
<1>2. profiles' \in [Existing' -> ProfileRecord]
  BY <1>1 DEF With, Sound, TableOK, Existing
<1>3. \A k, m \in Existing' : profiles'[k].alias = profiles'[m].alias => k = m
  BY <1>1 DEF Free, TableOK
<1>4. \A k \in Existing' : Sound(profiles'[k])
  BY <1>1 DEF TableOK
<1>5. decided' \subseteq Existing' /\ \A k \in decided' : profiles'[k].waits = NoWait
  BY <1>1 DEF TableOK
<1>6. (\A k \in Existing : Sound(profiles[k]))'
  BY <1>4 DEF Sound, Launch
<1> QED BY <1>1, <1>2, <1>3, <1>5, <1>6 DEF TableOK

\* The record of a profile is replaced.
LEMMA Replaces ==
  ASSUME TableOK, NEW i \in Existing, NEW p, Sound(p),
         \A k \in Existing \ {i} : profiles[k].alias # p.alias,
         profiles' = [profiles EXCEPT ![i] = p], decided' \in {decided, decided \cup {i}},
         i \in decided' => p.waits = NoWait
  PROVE  TableOK' /\ Existing' = Existing /\ profiles'[i] = p
         /\ \A k \in Existing \ {i} : profiles'[k] = profiles[k]
<1>1. Existing' = Existing /\ profiles'[i] = p
      /\ \A k \in Existing \ {i} : profiles'[k] = profiles[k]
  BY DEF Existing, TableOK
<1>2. profiles' \in [Existing' -> ProfileRecord]
  BY <1>1 DEF Sound, TableOK, Existing
<1>3. \A k, m \in Existing' : profiles'[k].alias = profiles'[m].alias => k = m
  BY <1>1 DEF TableOK
<1>4. \A k \in Existing' : Sound(profiles'[k])
  BY <1>1 DEF TableOK
<1>5. decided' \subseteq Existing' /\ \A k \in decided' : profiles'[k].waits = NoWait
  BY <1>1 DEF TableOK
<1>6. (\A k \in Existing : Sound(profiles[k]))'
  BY <1>4 DEF Sound, Launch
<1> QED BY <1>1, <1>2, <1>3, <1>5, <1>6 DEF TableOK

\* Every profile is rewritten and keeps its name; a profile that waits for
\* nothing goes on to.
LEMMA Rewrites ==
  ASSUME TableOK, DOMAIN profiles' = Existing, decided' = decided,
         profiles' = [k \in Existing |-> profiles'[k]],
         \A k \in Existing : /\ Sound(profiles'[k])
                             /\ profiles'[k].alias = profiles[k].alias
                             /\ profiles[k].waits = NoWait => profiles'[k].waits = NoWait
  PROVE  TableOK' /\ Existing' = Existing
<1>1. Existing' = Existing
  BY DEF Existing
<1>2. profiles' \in [Existing' -> ProfileRecord]
  BY <1>1 DEF Sound
<1>3. \A k, m \in Existing' : profiles'[k].alias = profiles'[m].alias => k = m
  BY <1>1 DEF TableOK
<1>5. decided' \subseteq Existing' /\ \A k \in decided' : profiles'[k].waits = NoWait
  BY <1>1 DEF TableOK
<1>6. (\A k \in Existing : Sound(profiles[k]))'
  BY <1>1 DEF Sound, Launch
<1> QED BY <1>1, <1>2, <1>3, <1>5, <1>6 DEF TableOK

\* A wait that goes on is settled as before.
LEMMA StaysSettled ==
  ASSUME WaitingIsSettled, serving, hooking \subseteq hooking',
         \A j \in Jobs : job'[j] = "completed" => job[j] = "completed",
         \A k \in Existing' : \/ profiles'[k].waits = NoWait
                              \/ k \in Existing /\ profiles'[k].waits = profiles[k].waits
  PROVE  WaitingIsSettled'
<1> SUFFICES ASSUME NEW k \in Existing', NEW j \in Jobs, profiles'[k].waits = j, job'[j] = "completed"
             PROVE  j \in hooking'
  BY DEF WaitingIsSettled
<1>1. j # NoWait
  BY DEF Jobs, NoWait
<1> QED BY <1>1 DEF WaitingIsSettled

\* Profiles may be added to those the snapshots are of.
LEMMA SnapshotsStay ==
  ASSUME SnapshotsOK, snapshots' = snapshots, changed' = changed, Existing \subseteq Existing',
         made \subseteq made', made' \subseteq Existing'
  PROVE  SnapshotsOK'
<1>1. UndoIsKept'
  BY DEF SnapshotsOK, UndoIsKept
<1> QED BY <1>1 DEF SnapshotsOK

\* The snapshot of a profile, as it is.
LEMMA SnapshotTyped ==
  ASSUME TableOK, NEW i \in Existing, NEW byAssistant \in BOOLEAN
  PROVE  /\ Snapshot(i, byAssistant) \in SnapshotRecord /\ Snapshot(i, byAssistant).of = i
         /\ Snapshot(i, byAssistant).clean = (i \notin changed)
         /\ Snapshot(i, byAssistant).conversation = byAssistant
<1>1. profiles[i] \in ProfileRecord /\ i \in ProfileIds
  BY DEF TableOK
<1>2. Launch(profiles[i]) \in LaunchSettings
  BY <1>1, LaunchTyped
<1> QED BY <1>1, <1>2 DEF Snapshot, SnapshotRecord, ProfileRecord

----------------------------------------------------------------------------
(* Creating                                                                *)

\* A profile of a new name is added, switched as asked and waiting for nothing.
LEMMA CreateKeeps ==
  ASSUME ProfilesInv, NEW i \in ProfileIds, NEW alias \in Aliases, NEW on \in BOOLEAN,
         NEW byAssistant \in BOOLEAN, CreateProfile(i, alias, on, byAssistant)
  PROVE  ProfilesInv'
<1> DEFINE p == Stored(alias, "own", TRUE, FALSE, on, 1, NoWait)
<1> USE DEF ProfilesInv
<1>1. Sound(p)
  BY StoredSound, VersionsFit DEF Settings, Baselines
<1>2. p.alias = alias /\ p.waits = NoWait
  BY DEF Stored
<1>3. /\ i \notin Existing /\ Free(p.alias) /\ profiles' = With(i, p)
      /\ decided' = decided \cup {i} /\ serving /\ edits' = edits + 1
      /\ made' \in {made, made \cup {i}}
      /\ UNCHANGED <<snapshots, changed, downloads, system>>
  BY <1>2 DEF CreateProfile, Request
<1> HIDE DEF p
<1>4. TableOK' /\ Existing' = Existing \cup {i} /\ profiles'[i] = p
      /\ \A k \in Existing : profiles'[k] = profiles[k]
  BY <1>1, <1>2, <1>3, Adds
<1>5. SnapshotsOK'
  BY <1>3, <1>4, SnapshotsStay DEF SnapshotsOK
<1>6. HostOK'
  BY <1>3 DEF HostOK, downloads, system
<1>7. WaitingIsSettled'
  BY <1>2, <1>3, <1>4, StaysSettled DEF downloads
<1> QED BY <1>4, <1>5, <1>6, <1>7

\* A profile kept for repair is off, so its bare preset is never launched.
LEMMA ImportUnresolvedKeeps ==
  ASSUME ProfilesInv, NEW i \in ProfileIds, NEW alias \in Aliases, ImportUnresolved(i, alias)
  PROVE  ProfilesInv'
<1> DEFINE stored == Stored(alias, "own", FALSE, FALSE, FALSE, 1, NoWait)
           p == [stored EXCEPT !.preset.launch.args = "bare"]
<1> USE DEF ProfilesInv
<1>1. Sound(stored) /\ ~stored.located /\ ~stored.enabled /\ stored.waits = NoWait
      /\ stored.alias = alias
  BY StoredSound, VersionsFit DEF Settings, Baselines, Stored
<1> HIDE DEF stored
<1>2. Sound(p) /\ p.alias = alias /\ p.waits = NoWait
  BY <1>1 DEF Sound, ProfileRecord, Presets, LaunchSettings, Settings
<1>3. /\ i \notin Existing /\ Free(p.alias) /\ profiles' = With(i, p)
      /\ serving /\ edits' = edits + 1
      /\ UNCHANGED <<snapshots, made, decided, changed, downloads, system>>
  BY <1>2 DEF ImportUnresolved, Request, stored
<1> HIDE DEF p
<1>4. TableOK' /\ Existing' = Existing \cup {i} /\ profiles'[i] = p
      /\ \A k \in Existing : profiles'[k] = profiles[k]
  BY <1>2, <1>3, Adds
<1>5. SnapshotsOK'
  BY <1>3, <1>4, SnapshotsStay DEF SnapshotsOK
<1>6. HostOK'
  BY <1>3 DEF HostOK, downloads, system
<1>7. WaitingIsSettled'
  BY <1>2, <1>3, <1>4, StaysSettled DEF downloads
<1> QED BY <1>4, <1>5, <1>6, <1>7

\* A copy is off, and what it shows and launches is the source's.
LEMMA CloneKeeps ==
  ASSUME ProfilesInv, NEW source, NEW i \in ProfileIds, NEW alias \in Aliases,
         NEW byAssistant \in BOOLEAN, Clone(source, i, alias, byAssistant)
  PROVE  ProfilesInv'
<1> DEFINE p == [profiles[source] EXCEPT !.alias = alias, !.enabled = FALSE,
                                         !.waits = NoWait, !.baseline = NoWait]
<1> USE DEF ProfilesInv
<1>1. Sound(profiles[source])
  BY DEF Clone, TableOK
<1>2. Sound(p) /\ p.alias = alias /\ p.waits = NoWait
  BY <1>1 DEF Sound, ProfileRecord, Baselines, Launch
<1>3. /\ i \notin Existing /\ Free(p.alias) /\ profiles' = With(i, p)
      /\ serving /\ edits' = edits + 1 /\ made' \in {made, made \cup {i}}
      /\ UNCHANGED <<snapshots, decided, changed, downloads, system>>
  BY <1>2 DEF Clone, Request
<1> HIDE DEF p
<1>4. TableOK' /\ Existing' = Existing \cup {i} /\ profiles'[i] = p
      /\ \A k \in Existing : profiles'[k] = profiles[k]
  BY <1>2, <1>3, Adds
<1>5. SnapshotsOK'
  BY <1>3, <1>4, SnapshotsStay DEF SnapshotsOK
<1>6. HostOK'
  BY <1>3 DEF HostOK, downloads, system
<1>7. WaitingIsSettled'
  BY <1>2, <1>3, <1>4, StaysSettled DEF downloads
<1> QED BY <1>4, <1>5, <1>6, <1>7

\* A download that Started leaves completed is one whose file is there.
LEMMA StartedJobs ==
  ASSUME HostOK, NEW j \in Jobs
  PROVE  /\ Started(j) \in States
         /\ Started(j) = "completed" => job[j] = "completed" /\ file[j]
BY DEF HostOK, Started, States

\* A recommended profile waits, if it does, on a download that is not complete.
LEMMA ApplyKeeps ==
  ASSUME ProfilesInv, NEW i \in ProfileIds, NEW alias \in Aliases, Apply(i, alias)
  PROVE  ProfilesInv'
<1> DEFINE ready == [j \in Jobs |-> job[j] = "completed" /\ file[j]]
           stored == Stored(alias, Recommended(release), TRUE, TRUE, TRUE, release, Recommended(release))
           waits == IF ready["model"] THEN "draft" ELSE "model"
           p == IF \A j \in Jobs : ready[j] THEN stored ELSE CreatePending(stored, waits)
<1> USE DEF ProfilesInv
<1>1. Sound(stored) /\ stored.waits = NoWait /\ stored.alias = alias
  <2>1. release \in 1..MaxVersion /\ Recommended(release) \in Settings
        /\ Recommended(release) \in Baselines
    BY VersionsFit DEF HostOK, Recommended, Settings, Baselines
  <2> QED BY <2>1, StoredSound DEF Stored
<1>2. /\ i \notin Existing /\ Free(alias) /\ profiles' = With(i, p)
      /\ job' = [j \in Jobs |-> Started(j)] /\ serving /\ edits' = edits + 1
      /\ UNCHANGED <<snapshots, made, decided, changed, file, hooking, moves, system>>
  BY DEF Apply, Request, CheckPending
<1> HIDE DEF stored
<1>3. waits \in Jobs
  BY DEF Jobs
<1>4. (\A j \in Jobs : ready[j]) \/ ~ready[waits]
  BY DEF Jobs
<1>5. ~ready[waits] => job'[waits] # "completed"
  BY <1>2, <1>3, StartedJobs
<1> HIDE DEF ready, waits
<1>6. Sound(p) /\ p.alias = alias /\ p.waits \in {NoWait, waits}
      /\ (p.waits # NoWait => job'[p.waits] # "completed")
  <2>1. CASE \A j \in Jobs : ready[j]
    BY <1>1, <2>1
  <2>2. CASE ~\A j \in Jobs : ready[j]
    <3>1. p = [stored EXCEPT !.waits = waits, !.enabled = FALSE]
      BY <2>2 DEF CreatePending
    <3> HIDE DEF p
    <3> QED BY <1>1, <1>3, <1>4, <1>5, <2>2, <3>1 DEF Sound, ProfileRecord, Launch
  <2> QED BY <2>1, <2>2
<1> HIDE DEF p
<1>7. TableOK' /\ Existing' = Existing \cup {i} /\ profiles'[i] = p
      /\ \A k \in Existing : profiles'[k] = profiles[k]
  <2>1. i \notin decided'
    BY <1>2 DEF TableOK
  <2> QED BY <1>2, <1>6, <2>1, Adds
<1>8. SnapshotsOK'
  BY <1>2, <1>7, SnapshotsStay DEF SnapshotsOK
<1>9. HostOK'
  <2>1. job' \in [Jobs -> States]
    BY <1>2, StartedJobs
  <2> QED BY <1>2, <2>1 DEF HostOK, system
<1>10. WaitingIsSettled'
  <2> SUFFICES ASSUME NEW k \in Existing', NEW j \in Jobs, profiles'[k].waits = j, job'[j] = "completed"
               PROVE  j \in hooking'
    BY DEF WaitingIsSettled
  <2>1. j # NoWait
    BY DEF Jobs, NoWait
  <2>2. k \in Existing /\ profiles[k].waits = j
    BY <1>6, <1>7, <2>1
  <2>3. job[j] = "completed"
    BY <1>2, StartedJobs
  <2> QED BY <1>2, <2>2, <2>3 DEF WaitingIsSettled
<1> QED BY <1>7, <1>8, <1>9, <1>10

\* A refused application leaves a queued download and no profile.
LEMMA ApplyRefusedKeeps ==
  ASSUME ProfilesInv, ApplyRefused
  PROVE  ProfilesInv'
<1> USE DEF ProfilesInv
<1>1. /\ serving /\ edits' = edits + 1 /\ job' = [job EXCEPT !["model"] = "queued"]
      /\ UNCHANGED <<profiles, snapshots, made, decided, changed, file, hooking, moves, system>>
  BY DEF ApplyRefused, Request
<1>2. Existing' = Existing
  BY <1>1 DEF Existing
<1>3. TableOK'
  BY <1>1 DEF TableOK, Existing, Sound, Launch
<1>4. SnapshotsOK'
  BY <1>1, <1>2, SnapshotsStay DEF SnapshotsOK
<1>5. HostOK'
  BY <1>1 DEF HostOK, system, Jobs, States
<1>6. WaitingIsSettled'
  BY <1>1, <1>2, StaysSettled DEF HostOK
<1> QED BY <1>3, <1>4, <1>5, <1>6

----------------------------------------------------------------------------
(* Changing                                                                *)

\* A request that replaces one record keeps all but what it says of snapshots.
LEMMA ChangeKeeps ==
  ASSUME ProfilesInv, Request, NEW i \in Existing, NEW p, Sound(p),
         \A k \in Existing \ {i} : profiles[k].alias # p.alias,
         p.waits \in {NoWait, profiles[i].waits},
         profiles' = [profiles EXCEPT ![i] = p], decided' \in {decided, decided \cup {i}},
         i \in decided' => p.waits = NoWait, UNCHANGED <<downloads, system>>
  PROVE  TableOK' /\ HostOK' /\ WaitingIsSettled' /\ Existing' = Existing
<1> USE DEF ProfilesInv
<1>1. TableOK' /\ Existing' = Existing /\ profiles'[i] = p
      /\ \A k \in Existing \ {i} : profiles'[k] = profiles[k]
  BY Replaces
<1>2. HostOK'
  BY DEF HostOK, downloads, system, Request
<1>3. WaitingIsSettled'
  <2>1. \A k \in Existing' : \/ profiles'[k].waits = NoWait
                             \/ k \in Existing /\ profiles'[k].waits = profiles[k].waits
    BY <1>1
  <2> QED BY <2>1, StaysSettled DEF downloads, Request
<1> QED BY <1>1, <1>2, <1>3

\* The record of an existing profile, and the versions a save may give it.
LEMMA RecordOf ==
  ASSUME TableOK, NEW i \in Existing
  PROVE  Sound(profiles[i]) /\ profiles[i] \in ProfileRecord /\ i \in ProfileIds
BY DEF TableOK

\* A version that a save accepts is within the bound.
LEMMA NextVersionFits ==
  ASSUME NEW p \in ProfileRecord, NEW args, NEW located
  PROVE  /\ NextVersion(p, args, located) \in Nat \ {0}
         /\ NextVersion(p, args, located) <= MaxVersion =>
              NextVersion(p, args, located) \in 1..MaxVersion
<1>1. p.version \in Nat \ {0} /\ MaxVersion \in Nat
  BY ProfilesAssumption DEF ProfilesAssumption, ProfileRecord
<1> QED BY <1>1 DEF NextVersion

\* What Updated gives the fields that a save is checked for.
LEMMA UpdatedFields ==
  ASSUME NEW p \in ProfileRecord, NEW alias, NEW args, NEW located, NEW draft, NEW on,
         NEW version, NEW baseline
  PROVE  LET q == Updated(p, alias, args, located, draft, on, version, baseline)
         IN  q.alias = alias /\ q.located = located /\ q.version = version
             /\ q.enabled = on
BY DEF Updated, WithPreset, ProfileRecord

\* The editor's form replaces a record by a sound one of a free name.
LEMMA EditKeeps ==
  ASSUME ProfilesInv, NEW i, NEW alias \in Aliases, NEW args \in Settings,
         NEW on \in BOOLEAN, Edit(i, alias, args, on)
  PROVE  ProfilesInv'
<1> DEFINE v == NextVersion(profiles[i], args, TRUE)
           q == Updated(profiles[i], alias, args, TRUE, profiles[i].draft, on, v,
                        profiles[i].baseline)
<1> USE DEF ProfilesInv
<1>1. i \in Existing /\ Request /\ Saves(i, q) /\ decided' = decided \cup {i}
      /\ UNCHANGED <<snapshots, made, changed, downloads, system>>
  BY DEF Edit
<1>2. profiles[i] \in ProfileRecord
  BY <1>1, RecordOf
<1>3. v \in 1..MaxVersion
  <2> HIDE DEF v
  <2>1. q.version = v
    BY <1>2 DEF Updated, WithPreset, ProfileRecord
  <2>2. v <= MaxVersion
    BY <1>1, <2>1 DEF Saves
  <2> QED BY <1>2, <2>2, NextVersionFits DEF v
<1> HIDE DEF v
<1>4. Sound(q) /\ q.waits = NoWait
  <2>1. PICK yes \in BOOLEAN : yes = TRUE
    OBVIOUS
  <2>2. profiles[i].draft \in BOOLEAN /\ profiles[i].baseline \in Baselines /\ (on => yes)
    BY <1>2, <2>1 DEF ProfileRecord
  <2>3. q = Updated(profiles[i], alias, args, yes, profiles[i].draft, on, v,
                    profiles[i].baseline)
    BY <2>1
  <2> HIDE DEF q
  <2> QED BY <1>2, <1>3, <2>2, <2>3, UpdatedSound
<1> HIDE DEF q
<1>5. TableOK' /\ HostOK' /\ WaitingIsSettled' /\ Existing' = Existing
  BY <1>1, <1>4, ChangeKeeps DEF Saves
<1>6. SnapshotsOK'
  BY <1>1, <1>5, SnapshotsStay DEF SnapshotsOK
<1> QED BY <1>5, <1>6

\* Only a profile with its model is switched on, and it stops waiting.
LEMMA SetEnabledKeeps ==
  ASSUME ProfilesInv, NEW i, NEW on \in BOOLEAN, SetEnabled(i, on)
  PROVE  ProfilesInv'
<1> DEFINE q == [profiles[i] EXCEPT !.enabled = on, !.waits = NoWait]
<1> USE DEF ProfilesInv
<1>1. i \in Existing /\ Request /\ decided' = decided \cup {i} /\ (on => profiles[i].located)
      /\ UNCHANGED <<snapshots, made, changed, downloads, system>>
  BY DEF SetEnabled, Validates
<1>2. profiles[i] \in ProfileRecord /\ Sound(profiles[i])
  BY <1>1, RecordOf
<1>3. Sound(q) /\ q.waits = NoWait /\ q.alias = profiles[i].alias
  BY <1>1, <1>2 DEF Sound, ProfileRecord, Launch
<1>4. profiles' = [profiles EXCEPT ![i] = q]
  BY <1>1, <1>2 DEF SetEnabled, TableOK
<1>5. \A k \in Existing \ {i} : profiles[k].alias # q.alias
  BY <1>1, <1>3 DEF TableOK
<1> HIDE DEF q
<1>6. TableOK' /\ HostOK' /\ WaitingIsSettled' /\ Existing' = Existing
  BY <1>1, <1>3, <1>4, <1>5, ChangeKeeps
<1>7. SnapshotsOK'
  BY <1>1, <1>6, SnapshotsStay DEF SnapshotsOK
<1> QED BY <1>6, <1>7

\* A reset renders the preset again.
LEMMA ResetKeeps ==
  ASSUME ProfilesInv, NEW i, Reset(i)
  PROVE  ProfilesInv'
<1> DEFINE p == [profiles[i] EXCEPT !.args = "bare", !.draft = FALSE]
           q == WithPreset(p)
<1> USE DEF ProfilesInv
<1>1. i \in Existing /\ Request /\ profiles[i].located
      /\ profiles' = [profiles EXCEPT ![i] = q]
      /\ UNCHANGED <<snapshots, made, decided, changed, downloads, system>>
  BY DEF Reset, Validates
<1>2. profiles[i] \in ProfileRecord
  BY <1>1, RecordOf
<1>3. p \in ProfileRecord /\ p.located /\ p.alias = profiles[i].alias
      /\ p.waits = profiles[i].waits
  BY <1>1, <1>2 DEF ProfileRecord, Settings
<1> HIDE DEF p
<1>4. Sound(q) /\ q.alias = profiles[i].alias /\ q.waits = profiles[i].waits
  BY <1>3, RenderedSound
<1>5. \A k \in Existing \ {i} : profiles[k].alias # q.alias
  BY <1>1, <1>4 DEF TableOK
<1> HIDE DEF q
<1>6. TableOK' /\ HostOK' /\ WaitingIsSettled' /\ Existing' = Existing
  <2>1. i \in decided' => q.waits = NoWait
    BY <1>1, <1>4 DEF TableOK
  <2> QED BY <1>1, <1>4, <1>5, <2>1, ChangeKeeps
<1>7. SnapshotsOK'
  BY <1>1, <1>6, SnapshotsStay DEF SnapshotsOK
<1> QED BY <1>6, <1>7

\* A profile goes with its snapshots and with what is recorded of its changes.
LEMMA RemoveProfileKeeps ==
  ASSUME ProfilesInv, NEW i, RemoveProfile(i)
  PROVE  ProfilesInv'
<1> USE DEF ProfilesInv
<1>1. /\ i \in Existing /\ serving /\ edits' = edits + 1
      /\ profiles' = [k \in Existing \ {i} |-> profiles[k]]
      /\ decided' = decided \ {i} /\ made' = made \ {i} /\ changed' = changed \ {i}
      /\ snapshots' = {s \in snapshots : s.of # i}
      /\ UNCHANGED <<downloads, system>>
  BY DEF RemoveProfile, Request
<1>2. Existing' = Existing \ {i} /\ \A k \in Existing' : profiles'[k] = profiles[k]
  BY <1>1 DEF Existing
<1>3. TableOK'
  <2>1. profiles' \in [Existing' -> ProfileRecord]
    BY <1>1, <1>2 DEF TableOK
  <2>2. (\A k \in Existing : Sound(profiles[k]))'
    BY <1>2 DEF TableOK, Sound, Launch
  <2> QED BY <1>1, <1>2, <2>1, <2>2 DEF TableOK
<1>4. SnapshotsOK'
  <2>1. UndoIsKept'
    BY <1>1 DEF SnapshotsOK, UndoIsKept
  <2> QED BY <1>1, <1>2, <2>1 DEF SnapshotsOK
<1>5. HostOK'
  BY <1>1 DEF HostOK, downloads, system
<1>6. WaitingIsSettled'
  BY <1>1, <1>2, StaysSettled DEF downloads
<1> QED BY <1>3, <1>4, <1>5, <1>6

\* An upgrade keeps the files and the switch.
LEMMA UpgradeKeeps ==
  ASSUME ProfilesInv, NEW i, Upgrade(i)
  PROVE  ProfilesInv'
<1> DEFINE p == profiles[i]
           q == Updated(p, p.alias, Recommended(release), p.located, p.draft, p.enabled,
                        release, Recommended(release))
<1> USE DEF ProfilesInv
<1>1. i \in Existing /\ Request /\ Saves(i, q)
      /\ UNCHANGED <<snapshots, made, decided, changed, downloads, system>>
  BY DEF Upgrade
<1>2. p \in ProfileRecord /\ (p.enabled => p.located)
  BY <1>1, RecordOf DEF Sound
<1>3. release \in 1..MaxVersion /\ Recommended(release) \in Settings \cap Baselines
  BY VersionsFit DEF HostOK, Recommended, Settings, Baselines
<1>4. Sound(q) /\ q.waits = NoWait
  <2>1. /\ p.alias \in Aliases /\ p.located \in BOOLEAN /\ p.draft \in BOOLEAN
        /\ p.enabled \in BOOLEAN
    BY <1>2 DEF ProfileRecord
  <2>2. PICK base : base = Recommended(release) /\ base \in Settings /\ base \in Baselines
    BY <1>3
  <2> HIDE DEF p
  <2> QED BY <1>2, <1>3, <2>1, <2>2, UpdatedSound
<1> HIDE DEF q
<1>5. TableOK' /\ HostOK' /\ WaitingIsSettled' /\ Existing' = Existing
  BY <1>1, <1>4, ChangeKeeps DEF Saves
<1>6. SnapshotsOK'
  BY <1>1, <1>5, SnapshotsStay DEF SnapshotsOK
<1> QED BY <1>5, <1>6

----------------------------------------------------------------------------
(* Snapshots                                                               *)

\* The table depends on the records and on who switched them, only.
LEMMA TableStays ==
  ASSUME ProfilesInv, UNCHANGED <<profiles, decided>>
  PROVE  TableOK' /\ Existing' = Existing
BY DEF ProfilesInv, TableOK, Existing, Sound, Launch

\* A snapshot is clean exactly if the conversation has not changed its profile.
LEMMA TakeSnapshotKeeps ==
  ASSUME ProfilesInv, NEW i, NEW byAssistant \in BOOLEAN, TakeSnapshot(i, byAssistant)
  PROVE  ProfilesInv'
<1> DEFINE new == Snapshot(i, byAssistant)
<1>1. /\ i \in Existing /\ serving /\ edits' = edits + 1 /\ snapshots' = snapshots \cup {new}
      /\ UNCHANGED <<profiles, made, decided, changed, downloads, system>>
  BY DEF TakeSnapshot, Request
<1>2. TableOK' /\ Existing' = Existing
  BY <1>1, TableStays
<1> USE DEF ProfilesInv
<1>3. new \in SnapshotRecord /\ new.of = i /\ new.clean = (i \notin changed)
  BY <1>1, SnapshotTyped
<1> HIDE DEF new
<1>4. SnapshotsOK'
  BY <1>1, <1>2, <1>3 DEF SnapshotsOK, UndoIsKept
<1>5. HostOK'
  BY <1>1 DEF HostOK, downloads, system
<1>6. WaitingIsSettled'
  BY <1>1, <1>2, StaysSettled DEF downloads
<1> QED BY <1>2, <1>4, <1>5, <1>6

\* Deleting a snapshot counts its profile as unchanged, and the others of it as clean.
LEMMA DeleteSnapshotKeeps ==
  ASSUME ProfilesInv, NEW s \in snapshots, DeleteSnapshot(s)
  PROVE  ProfilesInv'
<1> DEFINE recounted(t) == [t EXCEPT !.clean = @ \/ t.of = s.of]
<1>1. /\ serving /\ edits' = edits + 1
      /\ snapshots' = {recounted(t) : t \in snapshots \ {s}}
      /\ changed' = changed \ {s.of}
      /\ UNCHANGED <<profiles, made, decided, downloads, system>>
  BY DEF DeleteSnapshot, Request
<1>2. TableOK' /\ Existing' = Existing
  BY <1>1, TableStays
<1> USE DEF ProfilesInv
<1>3. \A t \in snapshots : /\ recounted(t) \in SnapshotRecord /\ recounted(t).of = t.of
                           /\ recounted(t).clean = (t.clean \/ t.of = s.of)
  BY DEF SnapshotsOK, SnapshotRecord
<1> HIDE DEF recounted
<1>4. SnapshotsOK'
  <2>1. snapshots' \subseteq SnapshotRecord /\ \A t \in snapshots' : t.of \in Existing'
    BY <1>1, <1>2, <1>3 DEF SnapshotsOK
  <2>2. \A t \in snapshots' : t.of \notin changed' => t.clean
    <3> SUFFICES ASSUME NEW u \in snapshots', u.of \notin changed'
                 PROVE  u.clean
      OBVIOUS
    <3>1. PICK t \in snapshots : u = recounted(t)
      BY <1>1
    <3>2. t.of = s.of \/ t.of \notin changed
      BY <1>1, <1>3, <3>1
    <3> QED BY <1>3, <3>1, <3>2 DEF SnapshotsOK
  <2>3. UndoIsKept'
    <3> SUFFICES ASSUME NEW k \in changed \ made, k # s.of
                 PROVE  \E t \in snapshots' : t.of = k /\ t.clean
      BY <1>1 DEF UndoIsKept
    <3>1. PICK t \in snapshots : t.of = k /\ t.clean
      BY DEF SnapshotsOK, UndoIsKept
    <3>2. recounted(t) \in snapshots'
      BY <1>1, <3>1
    <3> QED BY <1>3, <3>1, <3>2
  <2> QED BY <1>1, <1>2, <2>1, <2>2, <2>3 DEF SnapshotsOK
<1>5. HostOK'
  BY <1>1 DEF HostOK, downloads, system
<1>6. WaitingIsSettled'
  BY <1>1, <1>2, StaysSettled DEF downloads
<1> QED BY <1>2, <1>4, <1>5, <1>6

\* What is restored is a launch with its model, under the present name.
LEMMA RestoreKeeps ==
  ASSUME ProfilesInv, NEW s \in snapshots, Restore(s)
  PROVE  ProfilesInv'
<1> DEFINE p == profiles[s.of]
           q == Updated(p, p.alias, s.launch.args, s.launch.located, s.launch.draft,
                        s.enabled, s.version, p.baseline)
<1> USE DEF ProfilesInv
<1>1. Request /\ Saves(s.of, q) /\ decided' = decided \cup {s.of}
      /\ UNCHANGED <<snapshots, made, changed, downloads, system>>
  BY DEF Restore
<1>2. s \in SnapshotRecord /\ s.of \in Existing
  BY DEF SnapshotsOK
<1>3. p \in ProfileRecord
  BY <1>2, RecordOf
<1>4. s.launch \in LaunchSettings /\ s.launch.located
  <2>1. q.located = s.launch.located
    BY <1>3, UpdatedFields
  <2> QED BY <1>1, <1>2, <2>1 DEF Saves, Validates, SnapshotRecord
<1>5. Sound(q) /\ q.waits = NoWait
  <2>1. /\ p.alias \in Aliases /\ p.baseline \in Baselines /\ s.launch.args \in Settings
        /\ s.launch.located \in BOOLEAN /\ s.launch.draft \in BOOLEAN
        /\ s.enabled \in BOOLEAN /\ s.version \in 1..MaxVersion
    BY <1>2, <1>3, <1>4 DEF ProfileRecord, SnapshotRecord, LaunchSettings
  <2>2. s.enabled => s.launch.located
    BY <1>4
  <2> HIDE DEF p
  <2> QED BY <1>3, <2>1, <2>2, UpdatedSound
<1> HIDE DEF q
<1>6. TableOK' /\ HostOK' /\ WaitingIsSettled' /\ Existing' = Existing
  BY <1>1, <1>2, <1>5, ChangeKeeps DEF Saves
<1>7. SnapshotsOK'
  BY <1>1, <1>6, SnapshotsStay DEF SnapshotsOK
<1> QED BY <1>6, <1>7

\* The first change of the conversation finds, or leaves, a clean snapshot.
LEMMA SnapshotOnceKeeps ==
  ASSUME ProfilesInv, NEW i \in Existing, snapshots' = SnapshotOnce(i),
         changed' = changed \cup {i}, made' = made, Existing' = Existing
  PROVE  SnapshotsOK'
<1> DEFINE new == Snapshot(i, TRUE)
<1> USE DEF ProfilesInv
<1>1. new \in SnapshotRecord /\ new.of = i /\ new.clean = (i \notin changed)
  BY SnapshotTyped
<1>2. snapshots' = snapshots \/ snapshots' = snapshots \cup {new}
  BY DEF SnapshotOnce
<1>3. i \in made \/ (\E s \in snapshots : s.of = i /\ s.conversation) \/ new \in snapshots'
  BY DEF SnapshotOnce
<1> HIDE DEF new
<1>4. UndoIsKept'
  <2> SUFFICES ASSUME NEW k \in (changed \cup {i}) \ made
               PROVE  \E s \in snapshots' : s.of = k /\ s.clean
    BY DEF UndoIsKept
  <2>1. CASE k \in changed
    BY <1>2, <2>1 DEF SnapshotsOK, UndoIsKept
  <2>2. CASE k \notin changed
    BY <1>1, <1>2, <1>3, <2>2 DEF SnapshotsOK
  <2> QED BY <2>1, <2>2
<1> QED BY <1>1, <1>2, <1>4 DEF SnapshotsOK

\* The assistant keeps files and name, and leaves a clean snapshot behind.
LEMMA AssistantUpdateKeeps ==
  ASSUME ProfilesInv, NEW i, NEW args \in Settings, NEW on \in BOOLEAN,
         AssistantUpdate(i, args, on)
  PROVE  ProfilesInv'
<1> DEFINE p == profiles[i]
           v == NextVersion(p, args, p.located)
           q == Updated(p, p.alias, args, p.located, p.draft, on, v, p.baseline)
<1> USE DEF ProfilesInv
<1>1. i \in Existing /\ Request /\ Saves(i, q) /\ decided' \in {decided, decided \cup {i}}
      /\ snapshots' = SnapshotOnce(i) /\ changed' = changed \cup {i}
      /\ UNCHANGED <<made, downloads, system>>
  BY DEF AssistantUpdate
<1>2. p \in ProfileRecord
  BY <1>1, RecordOf
<1>3. v \in 1..MaxVersion /\ p.located
  <2>1. q.version = v /\ q.located = p.located
    BY <1>2, UpdatedFields
  <2> QED BY <1>1, <1>2, <2>1, NextVersionFits DEF Saves, Validates
<1> HIDE DEF v
<1>4. Sound(q) /\ q.waits = NoWait
  <2>1. /\ p.alias \in Aliases /\ p.baseline \in Baselines
        /\ p.located \in BOOLEAN /\ p.draft \in BOOLEAN
    BY <1>2 DEF ProfileRecord
  <2>2. on => p.located
    BY <1>3
  <2>3. q = Updated(p, p.alias, args, p.located, p.draft, on, v, p.baseline)
    OBVIOUS
  <2>4. v \in 1..MaxVersion
    BY <1>3
  <2> HIDE DEF p, q
  <2>5. Sound(q)
    BY <1>2, <2>1, <2>2, <2>3, <2>4, UpdatedSound
  <2>6. q.waits = NoWait
    BY <1>2, <2>1, <2>2, <2>3, <2>4, UpdatedSound
  <2> QED BY <2>5, <2>6
<1> HIDE DEF q
<1>5. TableOK' /\ HostOK' /\ WaitingIsSettled' /\ Existing' = Existing
  BY <1>1, <1>4, ChangeKeeps DEF Saves
<1>6. SnapshotsOK'
  BY <1>1, <1>5, SnapshotOnceKeeps
<1> QED BY <1>5, <1>6

----------------------------------------------------------------------------
(* Downloads, the router and restarts                                      *)

\* The snapshots are as sound as before while profiles stay.
LEMMA SnapshotsSame ==
  ASSUME ProfilesInv, UNCHANGED <<snapshots, made, changed>>, Existing' = Existing
  PROVE  SnapshotsOK'
BY SnapshotsStay DEF ProfilesInv, SnapshotsOK

\* A step of the downloads or the router that changes no record.
LEMMA HostKeeps ==
  ASSUME ProfilesInv, UNCHANGED <<profiles, snapshots, made, decided, changed>>,
         HostOK', WaitingIsSettled'
  PROVE  ProfilesInv'
BY TableStays, SnapshotsSame DEF ProfilesInv

\* A download that completes is marked for its callback in the same step.
LEMMA CompletesKeeps ==
  ASSUME ProfilesInv, NEW j \in Jobs, Completes(j)
  PROVE  ProfilesInv'
<1>1. HostOK'
  BY DEF ProfilesInv, HostOK, Completes, untouched, States
<1>2. WaitingIsSettled'
  BY DEF ProfilesInv, HostOK, Completes, WaitingIsSettled, Existing
<1> QED BY <1>1, <1>2, HostKeeps DEF Completes, untouched

\* Whoever waited on the download that completed waits on one that has not.
LEMMA HookKeeps ==
  ASSUME ProfilesInv, NEW j \in Jobs, Hook(j)
  PROVE  ProfilesInv'
<1> USE DEF ProfilesInv
<1>1. /\ serving /\ hooking' = hooking \ {j}
      /\ profiles' = IF job[j] = "completed" THEN EnableReady(j) ELSE profiles
      /\ UNCHANGED <<job, file, running, serving, edits, release>>
      /\ UNCHANGED <<snapshots, made, decided, changed>>
  BY DEF Hook, untouched
<1>2. HostOK'
  BY <1>1 DEF HostOK
<1>3. CASE job[j] # "completed"
  <2>1. profiles' = profiles
    BY <1>1, <1>3
  <2>2. WaitingIsSettled'
    BY <1>1, <1>3, <2>1 DEF WaitingIsSettled, Existing
  <2> QED BY <1>1, <1>2, <2>1, <2>2, HostKeeps
<1>4. CASE job[j] = "completed"
  <2>1. profiles' = EnableReady(j)
    BY <1>1, <1>4
  <2>2. DOMAIN profiles' = Existing /\ profiles' = [k \in Existing |-> profiles'[k]]
    BY <2>1 DEF EnableReady
  <2>3. ASSUME NEW k \in Existing
        PROVE  /\ Sound(profiles'[k]) /\ profiles'[k].alias = profiles[k].alias
               /\ profiles[k].waits = NoWait => profiles'[k].waits = NoWait
               /\ \/ profiles'[k].waits = profiles[k].waits /\ profiles[k].waits # j
                  \/ profiles'[k].waits = NoWait
                  \/ job[profiles'[k].waits] \in ActiveDownload
    <3>1. CASE profiles[k].waits = j
      <4>1. profiles'[k] = Ready(profiles[k]) /\ j # NoWait
        BY <2>1, <3>1 DEF EnableReady, Jobs, NoWait
      <4>2. Sound(profiles[k])
        BY DEF TableOK
      <4> QED BY <3>1, <4>1, <4>2, ReadySound
    <3>2. CASE profiles[k].waits # j
      <4>1. profiles'[k] = profiles[k]
        BY <2>1, <3>2 DEF EnableReady
      <4> QED BY <3>2, <4>1 DEF TableOK
    <3> QED BY <3>1, <3>2
  <2>4. TableOK' /\ Existing' = Existing
    <3>1. decided' = decided
      BY <1>1
    <3> QED BY <2>2, <2>3, <3>1, Rewrites
  <2>5. WaitingIsSettled'
    <3> SUFFICES ASSUME NEW k \in Existing, NEW m \in Jobs, profiles'[k].waits = m,
                        job[m] = "completed"
                 PROVE  m \in hooking'
      BY <1>1, <2>4 DEF WaitingIsSettled
    <3>1. m # NoWait /\ job[m] \notin ActiveDownload
      BY DEF Jobs, NoWait, ActiveDownload
    <3>2. profiles[k].waits = m /\ m # j
      BY <2>3, <3>1
    <3> QED BY <1>1, <3>2 DEF WaitingIsSettled
  <2>6. SnapshotsOK'
    BY <1>1, <2>4, SnapshotsSame
  <2> QED BY <1>2, <2>4, <2>5, <2>6
<1> QED BY <1>3, <1>4

\* A download that does not complete settles no wait.
LEMMA MoveJobKeeps ==
  ASSUME ProfilesInv, NEW j \in Jobs, NEW from, NEW to \in States \ {"completed"},
         MoveJob(j, from, to)
  PROVE  ProfilesInv'
<1>1. HostOK'
  BY DEF ProfilesInv, HostOK, MoveJob, Moved, untouched
<1>2. WaitingIsSettled'
  BY DEF ProfilesInv, HostOK, MoveJob, WaitingIsSettled, Existing
<1> QED BY <1>1, <1>2, HostKeeps DEF MoveJob, untouched

\* Every step of the downloads is one of these.
LEMMA DownloadKeeps ==
  ASSUME ProfilesInv, DownloadSteps
  PROVE  ProfilesInv'
<1>1. PICK j \in Jobs : \/ Completes(j) \/ Hook(j) \/ DeletesFiles(j)
                       \/ \E from : \E to \in {"failed", "paused", "cancelled", "active"} :
                            MoveJob(j, from, to)
  BY DEF DownloadSteps, Fails, Pauses, Cancels, Resumes, Downloaded, Redownloads
<1>2. {"failed", "paused", "cancelled", "active"} \subseteq States \ {"completed"}
  BY DEF States
<1>3. CASE DeletesFiles(j)
  <2>1. HostOK'
    BY <1>3 DEF ProfilesInv, HostOK, DeletesFiles, Moved, untouched
  <2>2. WaitingIsSettled'
    BY <1>3 DEF ProfilesInv, HostOK, DeletesFiles, WaitingIsSettled, Existing
  <2> QED BY <1>3, <2>1, <2>2, HostKeeps DEF DeletesFiles, untouched
<1> QED BY <1>1, <1>2, <1>3, CompletesKeeps, HookKeeps, MoveJobKeeps

\* The router and the end of the application change no record.
LEMMA RouterKeeps ==
  ASSUME ProfilesInv, StartRouter \/ RouterMoves \/ ApplicationEnds
  PROVE  ProfilesInv'
<1>1. HostOK'
  BY DEF ProfilesInv, HostOK, StartRouter, RouterMoves, ApplicationEnds, untouched, downloads
<1>2. WaitingIsSettled'
  BY DEF ProfilesInv, HostOK, StartRouter, RouterMoves, ApplicationEnds, downloads,
         WaitingIsSettled, Existing
<1> QED BY <1>1, <1>2, HostKeeps DEF StartRouter, RouterMoves, ApplicationEnds, untouched

\* A boot catches up with the downloads that completed unseen, and interrupts
\* or queues the others.
LEMMA BootsKeeps ==
  ASSUME ProfilesInv, NEW interrupted \in SUBSET Jobs, NEW r \in 1..2, Boots(interrupted, r)
  PROVE  ProfilesInv'
<1> DEFINE refreshed(p) == IF Validates(p) THEN WithPreset(p) ELSE p
           caughtUp(p) == IF p.waits # NoWait /\ job[p.waits] = "completed" THEN Ready(p) ELSE p
<1> USE DEF ProfilesInv
<1>1. /\ serving' = TRUE /\ release' = r
      /\ job' = [j \in Jobs |-> CASE j \in interrupted -> "paused"
                                  [] job[j] = "queued" -> "active"
                                  [] OTHER -> job[j]]
      /\ profiles' = [i \in Existing |-> Linked(caughtUp(refreshed(profiles[i])), r)]
      /\ UNCHANGED <<snapshots, made, decided, changed>>
      /\ UNCHANGED <<edits, file, hooking, running>>
  BY DEF Boots
<1>2. \A j \in Jobs : job'[j] = "completed" => job[j] = "completed"
  BY <1>1
<1>3. ASSUME NEW k \in Existing
      PROVE  /\ Sound(profiles'[k]) /\ profiles'[k].alias = profiles[k].alias
             /\ profiles[k].waits = NoWait => profiles'[k].waits = NoWait
             /\ \/ profiles'[k].waits = NoWait
                \/ job[profiles'[k].waits] # "completed"
  <2>1. Sound(profiles[k]) /\ profiles[k] \in ProfileRecord /\ (profiles[k].enabled => profiles[k].located)
    BY RecordOf DEF Sound
  <2>2. PICK p : p = refreshed(profiles[k])
    OBVIOUS
  <2>3. Sound(p) /\ p.alias = profiles[k].alias /\ p.waits = profiles[k].waits
    BY <2>1, <2>2, RenderedSound
  <2>4. PICK q : q = caughtUp(p)
    OBVIOUS
  <2>5. /\ Sound(q) /\ q.alias = p.alias /\ (p.waits = NoWait => q.waits = NoWait)
        /\ q.waits = NoWait \/ job[q.waits] # "completed"
    <3>1. CASE p.waits # NoWait /\ job[p.waits] = "completed"
      <4>1. q = Ready(p)
        BY <2>4, <3>1
      <4> QED BY <2>3, <3>1, <4>1, ReadySound DEF ActiveDownload
    <3>2. CASE ~(p.waits # NoWait /\ job[p.waits] = "completed")
      BY <2>3, <2>4, <3>2
    <3> QED BY <3>1, <3>2
  <2>6. profiles'[k] = Linked(q, r)
    BY <1>1, <2>2, <2>4
  <2> QED BY <2>3, <2>5, <2>6, LinkedSound
<1>4. TableOK' /\ Existing' = Existing
  <2>1. DOMAIN profiles' = Existing /\ profiles' = [k \in Existing |-> profiles'[k]]
        /\ decided' = decided
    BY <1>1
  <2> QED BY <1>3, <2>1, Rewrites
<1>5. SnapshotsOK'
  BY <1>1, <1>4, SnapshotsSame
<1>6. HostOK'
  <2>1. job' \in [Jobs -> States]
    BY <1>1 DEF HostOK, States
  <2> QED BY <1>1, <2>1 DEF HostOK
<1>7. WaitingIsSettled'
  <2> SUFFICES ASSUME NEW k \in Existing, NEW j \in Jobs, profiles'[k].waits = j,
                      job'[j] = "completed"
               PROVE  FALSE
    BY <1>4 DEF WaitingIsSettled
  <2>1. j # NoWait
    BY DEF Jobs, NoWait
  <2> QED BY <1>2, <1>3, <2>1
<1> QED BY <1>4, <1>5, <1>6, <1>7

----------------------------------------------------------------------------
(* The invariant                                                           *)

\* It holds at first, without any profile.
LEMMA ProfilesStart == ProfilesInit => ProfilesInv
<1> SUFFICES ASSUME ProfilesInit PROVE ProfilesInv
  OBVIOUS
<1>1. Existing = {}
  BY DEF ProfilesInit, Existing
<1>2. profiles \in [Existing -> ProfileRecord]
  BY <1>1 DEF ProfilesInit
<1> QED BY <1>1, <1>2 DEF ProfilesInit, ProfilesInv, TableOK, SnapshotsOK, UndoIsKept, HostOK,
                          WaitingIsSettled, States

\* Every way to create a profile keeps it.
LEMMA CreationsKeep ==
  ASSUME ProfilesInv, NEW i \in ProfileIds, NEW alias \in Aliases, Creations(i, alias)
  PROVE  ProfilesInv'
<1>1. CASE \E on \in BOOLEAN, byAssistant \in BOOLEAN : CreateProfile(i, alias, on, byAssistant)
  BY <1>1, CreateKeeps
<1>2. CASE ImportUnresolved(i, alias)
  BY <1>2, ImportUnresolvedKeeps
<1>3. CASE Apply(i, alias) \/ ApplyRefused
  BY <1>3, ApplyKeeps, ApplyRefusedKeeps
<1>4. CASE \E source \in ProfileIds, byAssistant \in BOOLEAN :
             Clone(source, i, alias, byAssistant)
  BY <1>4, CloneKeeps
<1> QED BY <1>1, <1>2, <1>3, <1>4
     DEF Creations, PostProfile, ImportFile, ImportCommand, ImportModel, ToolCreate,
         ApplyRoute, CloneRoute, ToolClone

\* Every way to change a profile keeps it.
LEMMA ChangesKeep ==
  ASSUME ProfilesInv, NEW i \in ProfileIds, Changes(i)
  PROVE  ProfilesInv'
<1>1. CASE \E alias \in Aliases, args \in {"own", "rec2"}, on \in BOOLEAN :
             Edit(i, alias, args, on)
  BY <1>1, EditKeeps DEF Settings
<1>2. CASE \E on \in BOOLEAN : EnabledRoute(i, on)
  BY <1>2, SetEnabledKeeps DEF EnabledRoute
<1>3. CASE ResetRoute(i) \/ DeleteRoute(i) \/ ToolDelete(i) \/ UpgradeRoute(i)
  BY <1>3, ResetKeeps, RemoveProfileKeeps, UpgradeKeeps
     DEF ResetRoute, DeleteRoute, ToolDelete, UpgradeRoute
<1>4. CASE SnapshotRoute(i) \/ ToolSnapshot(i)
  BY <1>4, TakeSnapshotKeeps DEF SnapshotRoute, ToolSnapshot
<1>5. CASE \E args \in {"own", "bare"}, on \in BOOLEAN : AssistantUpdate(i, args, on)
  BY <1>5, AssistantUpdateKeeps DEF Settings
<1> QED BY <1>1, <1>2, <1>3, <1>4, <1>5 DEF Changes

\* Every step keeps it.
LEMMA ProfilesStep == ProfilesInv /\ [ProfilesNext]_ProfileVars => ProfilesInv'
<1> SUFFICES ASSUME ProfilesInv, [ProfilesNext]_ProfileVars PROVE ProfilesInv'
  OBVIOUS
<1>1. CASE \E i \in ProfileIds, alias \in Aliases : Creations(i, alias)
  BY <1>1, CreationsKeep
<1>2. CASE \E i \in ProfileIds : Changes(i)
  BY <1>2, ChangesKeep
<1>3. CASE \E s \in snapshots : DeleteSnapshot(s) \/ RestoreRoute(s) \/ ToolRestore(s)
  BY <1>3, DeleteSnapshotKeeps, RestoreKeeps DEF RestoreRoute, ToolRestore
<1>4. CASE DownloadSteps
  BY <1>4, DownloadKeeps
<1>5. CASE StartRouter \/ RouterMoves \/ ApplicationEnds
  BY <1>5, RouterKeeps
<1>6. CASE \E interrupted \in SUBSET Jobs, r \in 1..2 : Boots(interrupted, r)
  BY <1>6, BootsKeeps
<1>7. CASE UNCHANGED ProfileVars
  <2>1. HostOK'
    BY <1>7 DEF ProfilesInv, HostOK, ProfileVars
  <2>2. WaitingIsSettled'
    BY <1>7 DEF ProfilesInv, WaitingIsSettled, Existing, ProfileVars
  <2> QED BY <1>7, <2>1, <2>2, HostKeeps DEF ProfileVars
<1> QED BY <1>1, <1>2, <1>3, <1>4, <1>5, <1>6, <1>7 DEF ProfilesNext

\* The records, the snapshots and the waits of the profiles agree throughout.
THEOREM ProfilesInvariant == ProfilesSpec => []ProfilesInv
<1> QED BY ProfilesStart, ProfilesStep, PTL DEF ProfilesSpec

\* Stored profiles agree with the downloads they wait on, with the presets
\* the router is given and with the snapshots that undo the assistant's work.
THEOREM ProfilesAgree == ProfilesSpec => []ProfilesConsistent
<1>1. ProfilesInv => ProfilesConsistent
  <2> SUFFICES ASSUME ProfilesInv PROVE ProfilesConsistent
    OBVIOUS
  <2>1. ProfilesTypeOK
    <3>1. \A i \in Existing : profiles[i] \in ProfileRecord
      BY DEF ProfilesInv, TableOK
    <3> QED BY <3>1 DEF ProfilesInv, TableOK, HostOK, ProfilesTypeOK, ProfileRecord, Baselines,
                        Settings
  <2>2. PresetIsOwn
    BY DEF ProfilesInv, TableOK, Sound, PresetIsOwn, Enabled
  <2> QED BY <2>1, <2>2 DEF ProfilesInv, SnapshotsOK, ProfilesConsistent
<1> QED BY <1>1, ProfilesInvariant, PTL

\* What an operator chose is not undone behind their back, and an upgrade
\* never replaces settings that are not a recommendation's.
THEOREM ChoicesAreKept == ProfilesSpec => ChoicesStand
<1> DEFINE Stands == /\ edits' = edits => \A i \in decided : profiles'[i].enabled = profiles[i].enabled
                     /\ \A i \in ProfileIds : Upgrade(i) => profiles[i].args # "own"
<1>1. ASSUME ProfilesInv, [ProfilesNext]_ProfileVars
      PROVE  Stands \/ UNCHANGED ProfileVars
  <2>1. ASSUME NEW i \in ProfileIds, Upgrade(i)
        PROVE  profiles[i].args # "own"
    <3>1. i \in Existing /\ profiles[i].baseline # NoWait
          /\ profiles[i].baseline = profiles[i].args
      BY <2>1 DEF Upgrade, Modified
    <3>2. profiles[i].baseline \in Baselines
      BY <1>1, <3>1 DEF ProfilesInv, TableOK, ProfileRecord
    <3> QED BY <3>1, <3>2 DEF Baselines
  <2>2. ASSUME edits' = edits, NEW i \in decided
        PROVE  profiles'[i].enabled = profiles[i].enabled
    <3> USE DEF ProfilesInv
    <3> USE <1>1
    <3>1. ~Request /\ i \in Existing /\ profiles[i].waits = NoWait
      BY <2>2 DEF Request, HostOK, TableOK
    <3>2. CASE \E k \in ProfileIds, alias \in Aliases : Creations(k, alias)
      <4>1. PICK k \in ProfileIds, alias \in Aliases : Creations(k, alias)
        BY <3>2
      <4>2. \/ \E on, byAssistant \in BOOLEAN : CreateProfile(k, alias, on, byAssistant)
            \/ ImportUnresolved(k, alias) \/ Apply(k, alias) \/ ApplyRefused
            \/ \E source \in ProfileIds, byAssistant \in BOOLEAN :
                 Clone(source, k, alias, byAssistant)
        BY <4>1 DEF Creations, PostProfile, ImportFile, ImportCommand, ImportModel,
           ToolCreate, ApplyRoute, CloneRoute, ToolClone
      <4>3. Request
        BY <4>2 DEF CreateProfile, ImportUnresolved, Apply, ApplyRefused, Clone
      <4> QED BY <3>1, <4>3
    <3>3. CASE \E k \in ProfileIds : Changes(k)
      BY <3>1, <3>3 DEF Changes, Edit, EnabledRoute, SetEnabled, ResetRoute, Reset,
         DeleteRoute, ToolDelete, RemoveProfile, UpgradeRoute, Upgrade, SnapshotRoute,
         ToolSnapshot, TakeSnapshot, AssistantUpdate
    <3>4. CASE \E s \in snapshots : DeleteSnapshot(s) \/ RestoreRoute(s) \/ ToolRestore(s)
      BY <3>1, <3>4 DEF DeleteSnapshot, RestoreRoute, ToolRestore, Restore
    <3>5. CASE \E j \in Jobs : Hook(j)
      <4>1. PICK j \in Jobs : profiles' = EnableReady(j) \/ profiles' = profiles
        BY <3>5 DEF Hook
      <4>2. j # NoWait
        BY DEF Jobs, NoWait
      <4> QED BY <3>1, <4>1, <4>2 DEF EnableReady
    <3>6. CASE DownloadSteps /\ ~\E j \in Jobs : Hook(j)
      BY <3>6 DEF DownloadSteps, Completes, Fails, Pauses, Cancels, Resumes, Downloaded,
         Redownloads, MoveJob, DeletesFiles
    <3>7. CASE StartRouter \/ RouterMoves \/ ApplicationEnds
      BY <3>7 DEF StartRouter, RouterMoves, ApplicationEnds
    <3>8. CASE \E interrupted \in SUBSET Jobs, r \in 1..2 : Boots(interrupted, r)
      <4>1. PICK interrupted \in SUBSET Jobs, r \in 1..2 : Boots(interrupted, r)
        BY <3>8
      <4>2. PICK p : p = IF Validates(profiles[i]) THEN WithPreset(profiles[i]) ELSE profiles[i]
        OBVIOUS
      <4>3. Sound(p) /\ p.waits = NoWait /\ p.enabled = profiles[i].enabled
        <5>1. Sound(profiles[i]) /\ (profiles[i].enabled => profiles[i].located)
          BY <3>1 DEF TableOK, Sound
        <5>2. profiles[i] \in ProfileRecord
          BY <5>1 DEF Sound
        <5> QED BY <3>1, <4>2, <5>1, <5>2, RenderedSound
      <4>4. profiles'[i] = Linked(p, r)
        BY <3>1, <4>1, <4>2, <4>3 DEF Boots
      <4> QED BY <4>3, <4>4, LinkedSound
    <3>9. CASE UNCHANGED ProfileVars
      BY <3>9 DEF ProfileVars
    <3> QED BY <1>1, <3>2, <3>3, <3>4, <3>5, <3>6, <3>7, <3>8, <3>9 DEF ProfilesNext
  <2> QED BY <2>1, <2>2
<1>2. ProfilesInv /\ [ProfilesNext]_ProfileVars => [Stands]_ProfileVars
  BY <1>1
<1> QED BY <1>2, ProfilesInvariant, PTL DEF ProfilesSpec, ChoicesStand

(***************************************************************************)
(* Accounts.  The guards count administrators, which means something while *)
(* the accounts are finitely many.                                         *)
(***************************************************************************)

USE AccountsAssumption

\* The fields that AccountsTypeOK leaves open, and the account list is finite:
\* it begins with one account and each request adds at most one.
AccountsTyped ==
  /\ role \in [Users -> Roles] /\ password \in [Users -> Nat]
  /\ holder \in [Sessions -> Users] /\ opened \in [Sessions -> Nat]
  /\ IsFiniteSet(users)

\* The inductive invariant.  The guards count the administrators; that the
\* count means something needs a finite list of accounts.
AccountsIInv == AccountsConsistent /\ AccountsTyped

\* The administrators other than one account, when the count is past one.
LEMMA AnotherAdministrator ==
  ASSUME IsFiniteSet(users), NEW u, ~(AdministratorCount <= 1)
  PROVE  \E v \in users \ {u} : IsAdministrator(role[v])
<1>. DEFINE Admins == {v \in users : IsAdministrator(role[v])}
<1>1. SUFFICES ASSUME \A v \in users \ {u} : ~IsAdministrator(role[v])
               PROVE  FALSE
  OBVIOUS
<1>2. Admins \in SUBSET {u}
  BY <1>1
<1>3. IsFiniteSet({u}) /\ Cardinality({u}) = 1
  BY FS_Singleton
<1>4. Cardinality(Admins) <= 1
  BY <1>2, <1>3, FS_Subset
<1>. QED
  BY <1>4 DEF AdministratorCount

\* It holds at first.
LEMMA AccountsInitIInv == AccountsInit => AccountsIInv
<1>. SUFFICES ASSUME AccountsInit PROVE AccountsIInv
  OBVIOUS
<1>1. AccountsTypeOK
  BY DEF AccountsInit, AccountsTypeOK
<1>2. AdministratorRemains /\ SessionsFollowPassword
  BY DEF AccountsInit, AdministratorRemains, IsAdministrator, SessionsFollowPassword
<1>3. AccountsTyped
  BY FS_Singleton DEF AccountsInit, AccountsTyped
<1>. QED
  BY <1>1, <1>2, <1>3 DEF AccountsIInv, AccountsConsistent

-----------------------------------------------------------------------------
(* Each operation keeps the invariant.                                     *)

\* A login opens a session with the password of an account that exists.
LEMMA LoginKeeps ==
  ASSUME AccountsIInv, NEW s \in Sessions, NEW u \in Users, Login(u, s)
  PROVE  AccountsIInv'
<1>. USE DEF Login, Authenticates, CreateSession, accountData
<1>1. AccountsTypeOK'
  BY DEF AccountsIInv, AccountsConsistent, AccountsTypeOK
<1>2. AdministratorRemains'
  BY DEF AccountsIInv, AccountsConsistent, AdministratorRemains, IsAdministrator
<1>3. SessionsFollowPassword'
  BY DEF AccountsIInv, AccountsConsistent, AccountsTypeOK, AccountsTyped, SessionsFollowPassword
<1>4. AccountsTyped'
  BY DEF AccountsIInv, AccountsConsistent, AccountsTypeOK, AccountsTyped
<1>. QED
  BY <1>1, <1>2, <1>3, <1>4 DEF AccountsIInv, AccountsConsistent

\* A session that ends, by a logout or by its age, or a request that comes or
\* goes leaves the accounts as they are.
LEMMA SessionEndsKeeps ==
  ASSUME AccountsIInv, NEW s \in Sessions,
         Logout(s) \/ Expires(s) \/ Admit(s) \/ Abandons(s)
  PROVE  AccountsIInv'
<1>. USE DEF Logout, RevokeSession, Expires, Admit, Abandons, accountData, sessionData
<1>1. AccountsTypeOK'
  BY DEF AccountsIInv, AccountsConsistent, AccountsTypeOK
<1>2. AdministratorRemains'
  BY DEF AccountsIInv, AccountsConsistent, AdministratorRemains, IsAdministrator
<1>3. SessionsFollowPassword'
  BY DEF AccountsIInv, AccountsConsistent, AccountsTypeOK, AccountsTyped, SessionsFollowPassword
<1>4. AccountsTyped'
  BY DEF AccountsIInv, AccountsConsistent, AccountsTypeOK, AccountsTyped
<1>. QED
  BY <1>1, <1>2, <1>3, <1>4 DEF AccountsIInv, AccountsConsistent

\* A new password ends every session of the account but the one that set it.
LEMMA PasswordRequestKeeps ==
  ASSUME AccountsIInv, NEW s \in Sessions, PasswordRequest(s)
  PROVE  AccountsIInv'
<1>. USE DEF PasswordRequest, ChangePassword, Usable
<1>1. AccountsTypeOK'
  BY DEF AccountsIInv, AccountsConsistent, AccountsTypeOK
<1>2. AdministratorRemains'
  BY DEF AccountsIInv, AccountsConsistent, AdministratorRemains, IsAdministrator
<1>3. SessionsFollowPassword'
  <2>. SUFFICES ASSUME NEW t \in Sessions, session'[t] = "valid"
                PROVE  holder'[t] \in users' /\ opened'[t] = password'[holder'[t]]
    BY DEF SessionsFollowPassword
  <2>1. CASE t = s
    BY <2>1 DEF AccountsIInv, AccountsConsistent, AccountsTypeOK, AccountsTyped
  <2>2. CASE t # s
    <3>1. session[t] = "valid" /\ holder[t] # holder[s]
      BY <2>2 DEF AccountsIInv, AccountsConsistent, AccountsTypeOK, AccountsTyped
    <3>2. holder[t] \in users /\ opened[t] = password[holder[t]]
      BY <3>1 DEF AccountsIInv, AccountsConsistent, SessionsFollowPassword
    <3>. QED
      BY <2>2, <3>1, <3>2 DEF AccountsIInv, AccountsConsistent, AccountsTypeOK, AccountsTyped
  <2>. QED
    BY <2>1, <2>2
<1>4. AccountsTyped'
  BY DEF AccountsIInv, AccountsConsistent, AccountsTypeOK, AccountsTyped
<1>. QED
  BY <1>1, <1>2, <1>3, <1>4 DEF AccountsIInv, AccountsConsistent

\* A new account has no session: a session is of an account that exists.
LEMMA CreateUserKeeps ==
  ASSUME AccountsIInv, NEW s \in Sessions, NEW u \in Users, NEW r \in Roles,
         CreateUserRequest(s, u, r)
  PROVE  AccountsIInv'
<1>. USE DEF CreateUserRequest, Handles, CreateUser, sessionData
<1>1. AccountsTypeOK'
  BY DEF AccountsIInv, AccountsConsistent, AccountsTypeOK, AccountsTyped
<1>2. AdministratorRemains'
  BY DEF AccountsIInv, AccountsConsistent, AccountsTypeOK, AccountsTyped, AdministratorRemains,
         IsAdministrator
<1>3. SessionsFollowPassword'
  BY DEF AccountsIInv, AccountsConsistent, AccountsTypeOK, AccountsTyped, SessionsFollowPassword
<1>4. AccountsTyped'
  BY FS_AddElement DEF AccountsIInv, AccountsConsistent, AccountsTypeOK, AccountsTyped
<1>. QED
  BY <1>1, <1>2, <1>3, <1>4 DEF AccountsIInv, AccountsConsistent

\* The only administrator keeps the role; any other account may change its own.
LEMMA UpdateUserKeeps ==
  ASSUME AccountsIInv, NEW s \in Sessions, NEW u \in Users, NEW r \in Roles,
         UpdateUserRequest(s, u, r)
  PROVE  AccountsIInv'
<1>. USE DEF UpdateUserRequest, Handles, UpdateUser, sessionData
<1>1. AccountsTypeOK'
  BY DEF AccountsIInv, AccountsConsistent, AccountsTypeOK, AccountsTyped
<1>2. AdministratorRemains'
  <2>1. CASE role[u] = r
    <3>1. role' = role
      BY <2>1 DEF AccountsIInv, AccountsTyped
    <3>. QED
      BY <3>1 DEF AccountsIInv, AccountsConsistent, AdministratorRemains, IsAdministrator
  <2>2. CASE ~IsAdministrator(role[u])
    BY <2>2 DEF AccountsIInv, AccountsConsistent, AccountsTypeOK, AccountsTyped, AdministratorRemains,
                IsAdministrator
  <2>3. CASE ~(AdministratorCount <= 1)
    <3>1. PICK v \in users \ {u} : IsAdministrator(role[v])
      BY <2>3, AnotherAdministrator DEF AccountsIInv, AccountsTyped
    <3>. QED
      BY <3>1 DEF AccountsIInv, AccountsConsistent, AccountsTypeOK, AccountsTyped, AdministratorRemains,
                  IsAdministrator
  <2>. QED
    BY <2>1, <2>2, <2>3
<1>3. SessionsFollowPassword'
  BY DEF AccountsIInv, AccountsConsistent, SessionsFollowPassword
<1>4. AccountsTyped'
  BY DEF AccountsIInv, AccountsConsistent, AccountsTypeOK, AccountsTyped
<1>. QED
  BY <1>1, <1>2, <1>3, <1>4 DEF AccountsIInv, AccountsConsistent

\* An account takes its sessions with it, and is not the last administrator.
LEMMA DeleteUserKeeps ==
  ASSUME AccountsIInv, NEW s \in Sessions, NEW u \in Users, DeleteUserRequest(s, u)
  PROVE  AccountsIInv'
<1>. USE DEF DeleteUserRequest, Handles, DeleteUser
<1>1. AccountsTypeOK'
  BY DEF AccountsIInv, AccountsConsistent, AccountsTypeOK, AccountsTyped
<1>2. AdministratorRemains'
  <2>1. CASE ~IsAdministrator(role[u])
    BY <2>1 DEF AccountsIInv, AccountsConsistent, AdministratorRemains, IsAdministrator
  <2>2. CASE ~(AdministratorCount <= 1)
    BY <2>2, AnotherAdministrator DEF AccountsIInv, AccountsTyped, AdministratorRemains, IsAdministrator
  <2>. QED
    BY <2>1, <2>2
<1>3. SessionsFollowPassword'
  BY DEF AccountsIInv, AccountsConsistent, AccountsTypeOK, SessionsFollowPassword
<1>4. AccountsTyped'
  BY FS_RemoveElement DEF AccountsIInv, AccountsConsistent, AccountsTypeOK, AccountsTyped
<1>. QED
  BY <1>1, <1>2, <1>3, <1>4 DEF AccountsIInv, AccountsConsistent

\* A new role has no account yet, a removed one none any more, and a role with
\* every privilege keeps them.
LEMMA RoleKeeps ==
  ASSUME AccountsIInv, NEW s \in Sessions, NEW r \in Roles, NEW P \in SUBSET Full,
         \/ CreateRoleRequest(s, r, P)
         \/ UpdateRoleRequest(s, r, P)
         \/ DeleteRoleRequest(s, r)
  PROVE  AccountsIInv'
<1>. USE DEF CreateRoleRequest, UpdateRoleRequest, DeleteRoleRequest, Handles,
             CreateRole, UpdateRole, DeleteRole, sessionData
<1>1. AccountsTypeOK'
  BY DEF AccountsIInv, AccountsConsistent, AccountsTypeOK
<1>2. AdministratorRemains'
  <2>1. PICK u \in users : IsAdministrator(role[u])
    BY DEF AccountsIInv, AccountsConsistent, AdministratorRemains
  <2>2. role[u] \in roles /\ role[u] \in Roles
    BY DEF AccountsIInv, AccountsConsistent, AccountsTypeOK
  <2>3. IsAdministrator(role[u])'
    BY <2>1, <2>2 DEF AccountsIInv, AccountsConsistent, AccountsTypeOK, IsAdministrator
  <2>. QED
    BY <2>1, <2>3 DEF AdministratorRemains
<1>3. SessionsFollowPassword'
  BY DEF AccountsIInv, AccountsConsistent, SessionsFollowPassword
<1>4. AccountsTyped'
  BY DEF AccountsIInv, AccountsTyped
<1>. QED
  BY <1>1, <1>2, <1>3, <1>4 DEF AccountsIInv, AccountsConsistent

\* After a restart the sessions that were valid still are, and no request is
\* under way.
LEMMA RestartKeeps ==
  ASSUME AccountsIInv, AccountsRestart PROVE AccountsIInv'
<1>. USE DEF AccountsRestart, accountData
<1>1. AccountsTypeOK'
  BY DEF AccountsIInv, AccountsConsistent, AccountsTypeOK
<1>2. AdministratorRemains'
  BY DEF AccountsIInv, AccountsConsistent, AdministratorRemains, IsAdministrator
<1>3. SessionsFollowPassword'
  BY DEF AccountsIInv, AccountsConsistent, SessionsFollowPassword
<1>4. AccountsTyped'
  BY DEF AccountsIInv, AccountsTyped
<1>. QED
  BY <1>1, <1>2, <1>3, <1>4 DEF AccountsIInv, AccountsConsistent

-----------------------------------------------------------------------------
\* Whatever requests were admitted while others changed accounts, roles and
\* passwords under them, an administrator remains and a session that can be
\* used stands for the current password of an account that exists.
THEOREM ConsistentAccounts == AccountsSpec => []AccountsConsistent
<1>1. ASSUME AccountsIInv, [AccountsNext]_AccountVars
      PROVE  AccountsIInv'
  <2>1. CASE UNCHANGED AccountVars
    BY <1>1, <2>1 DEF AccountVars, AccountsIInv, AccountsConsistent, AccountsTypeOK,
       AdministratorRemains, IsAdministrator, SessionsFollowPassword, AccountsTyped
  <2>2. ASSUME NEW s \in Sessions, NEW u \in Users, Login(u, s) \/ DeleteUserRequest(s, u)
        PROVE  AccountsIInv'
    BY <1>1, <2>2, LoginKeeps, DeleteUserKeeps
  <2>3. ASSUME NEW s \in Sessions, Logout(s) \/ Expires(s) \/ Admit(s) \/ Abandons(s)
        PROVE  AccountsIInv'
    BY <1>1, <2>3, SessionEndsKeeps
  <2>4. ASSUME NEW s \in Sessions, PasswordRequest(s)
        PROVE  AccountsIInv'
    BY <1>1, <2>4, PasswordRequestKeeps
  <2>5. ASSUME NEW s \in Sessions, NEW u \in Users, NEW r \in Roles,
               CreateUserRequest(s, u, r) \/ UpdateUserRequest(s, u, r)
        PROVE  AccountsIInv'
    BY <1>1, <2>5, CreateUserKeeps, UpdateUserKeeps
  <2>6. ASSUME NEW s \in Sessions, NEW r \in Roles, NEW P \in SUBSET Full,
               CreateRoleRequest(s, r, P) \/ UpdateRoleRequest(s, r, P)
        PROVE  AccountsIInv'
    BY <1>1, <2>6, RoleKeeps
  <2>7. ASSUME NEW s \in Sessions, NEW r \in Roles, DeleteRoleRequest(s, r)
        PROVE  AccountsIInv'
    BY <1>1, <2>7, {} \in SUBSET Full, RoleKeeps
  <2>8. CASE AccountsRestart
    BY <1>1, <2>8, RestartKeeps
  <2>. QED
    BY <1>1, <2>1, <2>2, <2>3, <2>4, <2>5, <2>6, <2>7, <2>8 DEF AccountsNext
<1>2. AccountsIInv => AccountsConsistent
  BY DEF AccountsIInv
<1>. QED
  BY <1>1, <1>2, AccountsInitIInv, PTL DEF AccountsSpec

(***************************************************************************)
(* ProfileArguments.  The preset of joined options is the joined presets,  *)
(* so a migration is right field by field.  An update places the entries   *)
(* that stay, changed, before the last changes of the others it names      *)
(* (Placed), so that each key is there once; leaving out what it names is  *)
(* the same before and after, element by element.                          *)
(***************************************************************************)

----------------------------------------------------------------------------
(* Migration                                                               *)

\* A set of natural numbers has a first one.
LEMMA FirstNumber ==
  ASSUME NEW S \in SUBSET Nat, S # {}
  PROVE  \E i \in S : \A k \in S : i <= k
<1> DEFINE R == OpToRel(<, Nat)
<1>1. \A i, k \in Nat : <<k, i>> \in R <=> k < i
  BY DEF OpToRel
<1>2. IsWellFoundedOn(R, Nat)
  BY NatLessThanWellFounded
<1> HIDE DEF R
<1>3. PICK i \in S : \A k \in S : ~(<<k, i>> \in R)
  BY <1>2, WFMin
<1>4. ASSUME NEW k \in S PROVE i <= k
  <2>1. k \in Nat /\ i \in Nat /\ ~(<<k, i>> \in R)
    BY <1>3
  <2>2. ~(k < i)
    BY <1>1, <2>1
  <2> QED BY <2>1, <2>2
<1> QED BY <1>4

\* Some numbers from 0 to n are all of them.
LEMMA UpTo ==
  ASSUME NEW n \in Nat, NEW P, 0 \in P, \A i \in 1..n : i - 1 \in P => i \in P
  PROVE  \A i \in 0..n : i \in P
<1> DEFINE Bad == {i \in 0..n : i \notin P}
<1>1. CASE Bad = {}
  BY <1>1
<1>2. CASE Bad # {}
  <2>1. PICK i \in Bad : \A k \in Bad : i <= k
    <3>1. Bad \in SUBSET Nat
      OBVIOUS
    <3> HIDE DEF Bad
    <3> QED BY <3>1, <1>2, FirstNumber
  <2>2. i # 0 /\ i \in 0..n
    BY <2>1
  <2>3. i \in 1..n /\ i - 1 \in 0..n /\ i - 1 \notin Bad
    BY <2>1, <2>2
  <2>4. i - 1 \in P
    BY <2>3
  <2> QED BY <2>1, <2>3, <2>4
<1> QED BY <1>1, <1>2

\* g is defined from 0 on, each value from the one before; step is a function
\* of both the number and that value.
Recurs(g, n, base, step) ==
  g = [i \in 0..n |-> IF i = 0 THEN base ELSE step[<<i, g[i - 1]>>]]

\* Such a function exists: it is built one value at a time.
LEMMA RecursExists ==
  ASSUME NEW n \in Nat, NEW base, NEW step
  PROVE  \E g : Recurs(g, n, base, step)
<1> DEFINE P == {m \in 0..n : \E g : Recurs(g, m, base, step)}
<1>1. 0 \in P
  <2>1. Recurs([i \in 0..0 |-> base], 0, base, step)
    BY DEF Recurs
  <2> QED BY <2>1
<1>2. ASSUME NEW m \in 1..n, m - 1 \in P PROVE m \in P
  <2>1. PICK g : Recurs(g, m - 1, base, step)
    BY <1>2
  <2>2. PICK h : h = [i \in 0..m |-> IF i = 0 THEN base ELSE step[<<i, g[i - 1]>>]]
    OBVIOUS
  <2>3. \A i \in 0..(m - 1) : h[i] = g[i]
    BY <2>1, <2>2 DEF Recurs
  <2>4. h = [i \in 0..m |-> IF i = 0 THEN base ELSE step[<<i, h[i - 1]>>]]
    <3>1. \A i \in 0..m : i # 0 => g[i - 1] = h[i - 1]
      BY <2>3
    <3> QED BY ONLY <2>2, <3>1
  <2> QED BY <2>4 DEF Recurs
<1> HIDE DEF P
<1>3. \A i \in 0..n : i \in P
  BY <1>1, <1>2, UpTo
<1> QED BY <1>3 DEF P

\* A step that stays in a set keeps every value in it.
LEMMA RecursTyped ==
  ASSUME NEW n \in Nat, NEW S, NEW base \in S, NEW step \in [(1..n) \X S -> S],
         NEW g, Recurs(g, n, base, step)
  PROVE  \A i \in 0..n : g[i] \in S
<1> DEFINE P == {i \in 0..n : g[i] \in S}
<1>0. g = [i \in 0..n |-> IF i = 0 THEN base ELSE step[<<i, g[i - 1]>>]]
  BY DEF Recurs
<1>1. 0 \in P
  BY <1>0
<1>2. ASSUME NEW i \in 1..n, i - 1 \in P PROVE i \in P
  <2>1. g[i - 1] \in S /\ g[i] = step[<<i, g[i - 1]>>]
    BY <1>0, <1>2
  <2>2. <<i, g[i - 1]>> \in (1..n) \X S
    BY <2>1
  <2> QED BY <2>1, <2>2
<1> HIDE DEF P
<1>3. \A i \in 0..n : i \in P
  BY <1>1, <1>2, UpTo
<1> QED BY <1>3 DEF P

\* One more element, two sequences, and when two are the same.
LEMMA Appends ==
  ASSUME NEW T, NEW s \in Seq(T), NEW x \in T
  PROVE  /\ Append(s, x) \in Seq(T) /\ Append(s, x) # <<>> /\ Len(Append(s, x)) = Len(s) + 1
         /\ Append(s, x)[Len(s) + 1] = x /\ \A i \in 1..Len(s) : Append(s, x)[i] = s[i]
         /\ Len(s) \in Nat /\ DOMAIN s = 1..Len(s) /\ s \o <<x>> = Append(s, x)
OBVIOUS

\* The first of two joined sequences lies before the second.
LEMMA Concats ==
  ASSUME NEW T, NEW u \in Seq(T), NEW v \in Seq(T)
  PROVE  /\ u \o v \in Seq(T) /\ Len(u \o v) = Len(u) + Len(v) /\ Len(u) \in Nat /\ Len(v) \in Nat
         /\ \A i \in 1..Len(u) : (u \o v)[i] = u[i]
         /\ \A i \in 1..Len(v) : (u \o v)[Len(u) + i] = v[i]
OBVIOUS

\* Joining is associative, and nothing joined to a sequence leaves it.
LEMMA Regrouped ==
  ASSUME NEW T, NEW u \in Seq(T), NEW v \in Seq(T), NEW x \in T
  PROVE  /\ u \o Append(v, x) = Append(u \o v, x)
         /\ u \o <<>> = u /\ <<>> \o u = u
OBVIOUS

\* Sequences are equal when their elements are.
LEMMA SameSequence ==
  ASSUME NEW T, NEW u \in Seq(T), NEW v \in Seq(T), Len(u) = Len(v),
         \A i \in 1..Len(u) : u[i] = v[i]
  PROVE  u = v
OBVIOUS

\* A function from one set to another, and applied to every element.
Maps(f, A, B) == f \in [A -> B]
Mapped(f, s) == [i \in DOMAIN s |-> f[s[i]]]

\* It is a sequence of the function's values.
LEMMA MappedTyped ==
  ASSUME NEW A, NEW B, NEW f \in [A -> B], NEW s \in Seq(A)
  PROVE  /\ Mapped(f, s) \in Seq(B) /\ Len(Mapped(f, s)) = Len(s)
         /\ \A i \in 1..Len(s) : Mapped(f, s)[i] = f[s[i]]
BY DEF Mapped

\* The same, of a function whose sets are not looked into.
IsMapped(m, f, s, B) ==
  m \in Seq(B) /\ Len(m) = Len(s) /\ \A i \in 1..Len(s) : m[i] = f[s[i]]

\* A mapped sequence is one.
LEMMA MappedIs ==
  ASSUME NEW A, NEW B, NEW f, Maps(f, A, B), NEW s \in Seq(A)
  PROVE  IsMapped(Mapped(f, s), f, s, B)
<1>1. f \in [A -> B]
  BY DEF Maps
<1> QED BY <1>1 DEF IsMapped, Mapped

\* It is applied to joined sequences one by one.
LEMMA MappedConcat ==
  ASSUME NEW f, NEW A, NEW B, Maps(f, A, B), NEW u \in Seq(A), NEW v \in Seq(A)
  PROVE  Mapped(f, u \o v) = Mapped(f, u) \o Mapped(f, v)
<1>0. f \in [A -> B]
  BY DEF Maps
<1>1. PICK w \in Seq(A) : w = u \o v
  BY Concats
<1>2. /\ Len(w) = Len(u) + Len(v) /\ Len(u) \in Nat /\ Len(v) \in Nat
      /\ \A i \in 1..Len(u) : w[i] = u[i]
      /\ \A i \in 1..Len(v) : w[Len(u) + i] = v[i]
  BY <1>1, Concats
<1>3. PICK a \in Seq(B), b \in Seq(B), c \in Seq(B) :
        a = Mapped(f, u) /\ b = Mapped(f, v) /\ c = Mapped(f, w)
  <2>1. \A s \in Seq(A) : IsMapped(Mapped(f, s), f, s, B)
    BY MappedIs
  <2>2. \A s \in Seq(A) : Mapped(f, s) \in Seq(B)
    BY <2>1 DEF IsMapped
  <2> QED BY <2>2
<1>4. /\ Len(a) = Len(u) /\ \A i \in 1..Len(u) : a[i] = f[u[i]]
      /\ Len(b) = Len(v) /\ \A i \in 1..Len(v) : b[i] = f[v[i]]
      /\ Len(c) = Len(w) /\ \A i \in 1..Len(w) : c[i] = f[w[i]]
  <2>1. IsMapped(a, f, u, B) /\ IsMapped(b, f, v, B) /\ IsMapped(c, f, w, B)
    BY <1>3, MappedIs
  <2> QED BY ONLY <2>1 DEF IsMapped
<1>5. PICK d \in Seq(B) : d = a \o b
  BY Concats
<1>6. /\ Len(d) = Len(a) + Len(b)
      /\ \A i \in 1..Len(a) : d[i] = a[i]
      /\ \A i \in 1..Len(b) : d[Len(a) + i] = b[i]
  BY <1>5, Concats
<1>7. ASSUME NEW i \in 1..Len(c) PROVE c[i] = d[i]
  <2>1. CASE i <= Len(u)
    <3>1. i \in 1..Len(u) /\ i \in 1..Len(w)
      BY <1>2, <1>4, <2>1
    <3> QED BY <1>0, <1>2, <1>4, <1>6, <3>1
  <2>2. CASE i > Len(u)
    <3>1. PICK k \in 1..Len(v) : i = Len(u) + k
      <4>1. i - Len(u) \in 1..Len(v) /\ i = Len(u) + (i - Len(u))
        BY <1>2, <1>4, <2>2
      <4> QED BY <4>1
    <3>2. i \in 1..Len(w)
      BY <1>4
    <3> QED BY <1>0, <1>2, <1>4, <1>6, <3>1, <3>2
  <2> QED BY <1>2, <1>4, <2>1, <2>2
<1>8. c = d
  BY <1>2, <1>4, <1>6, <1>7, SameSequence
<1> QED BY <1>1, <1>3, <1>5, <1>8

Flattens(f, seqs) ==
  f = [i \in 1..Len(seqs) |-> IF i = 1 THEN seqs[i] ELSE f[i - 1] \o seqs[i]]

\* What FlattenSeq computes.
LEMMA FlattenIs ==
  ASSUME NEW S, NEW seqs \in Seq(Seq(S)), seqs # <<>>
  PROVE  \E f \in [1..Len(seqs) -> Seq(S)] : Flattens(f, seqs) /\ FlattenSeq(seqs) = f[Len(seqs)]
<1> DEFINE n == Len(seqs)
           step == [x \in (1..n) \X Seq(S) |-> IF x[1] = 1 THEN seqs[1] ELSE x[2] \o seqs[x[1]]]
<1>0. n \in Nat /\ n # 0 /\ DOMAIN seqs = 1..n /\ \A i \in 1..n : seqs[i] \in Seq(S)
  OBVIOUS
<1>1. step \in [(1..n) \X Seq(S) -> Seq(S)]
  BY <1>0
<1>2. PICK h : Recurs(h, n, <<>>, step)
  BY <1>0, RecursExists
<1>3. \A i \in 0..n : h[i] \in Seq(S)
  <2>1. <<>> \in Seq(S)
    OBVIOUS
  <2> HIDE DEF step, n
  <2> QED BY <1>0, <1>1, <1>2, <2>1, RecursTyped
<1>4. PICK g : g = [i \in 1..n |-> h[i]]
  OBVIOUS
<1>5. ASSUME NEW i \in 1..n PROVE g[i] = IF i = 1 THEN seqs[i] ELSE g[i - 1] \o seqs[i]
  <2>1. h[i] = step[<<i, h[i - 1]>>]
    <3>1. i \in 0..n /\ i # 0
      BY <1>0
    <3> HIDE DEF step, n
    <3> QED BY <3>1, <1>2 DEF Recurs
  <2>2. <<i, h[i - 1]>> \in (1..n) \X Seq(S)
    BY <1>0, <1>3
  <2>3. h[i] = IF i = 1 THEN seqs[1] ELSE h[i - 1] \o seqs[i]
    BY <2>1, <2>2
  <2>4. i # 1 => i - 1 \in 1..n
    BY <1>0
  <2> QED BY <1>4, <2>3, <2>4
<1> HIDE DEF step
<1>6. Flattens(g, seqs)
  <2>1. g = [i \in 1..n |-> g[i]]
    BY <1>4
  <2>2. [i \in 1..n |-> g[i]] = [i \in 1..n |-> IF i = 1 THEN seqs[i] ELSE g[i - 1] \o seqs[i]]
    BY <1>5
  <2> QED BY <2>1, <2>2 DEF Flattens
<1> DEFINE f == CHOOSE f : Flattens(f, seqs)
<1>7. Flattens(f, seqs)
  BY <1>6
<1>8. FlattenSeq(seqs) = f[n]
  BY <1>0 DEF FlattenSeq, Flattens
<1> HIDE DEF f
<1>9. f = [i \in 1..n |-> IF i = 1 THEN seqs[i] ELSE f[i - 1] \o seqs[i]]
  BY <1>7 DEF Flattens
<1> DEFINE P == {i \in 0..n : i = 0 \/ f[i] \in Seq(S)}
<1>10. 0 \in P
  BY <1>0
<1>11. ASSUME NEW i \in 1..n, i - 1 \in P PROVE i \in P
  <2>1. f[i] = IF i = 1 THEN seqs[i] ELSE f[i - 1] \o seqs[i]
    BY <1>9
  <2>2. i = 1 \/ f[i - 1] \in Seq(S)
    BY <1>11
  <2>3. f[i] \in Seq(S)
    BY <1>0, <2>1, <2>2
  <2> QED BY <1>0, <2>3
<1>12. \A i \in 1..n : f[i] \in Seq(S)
  <2> HIDE DEF P
  <2>1. \A i \in 0..n : i \in P
    BY <1>0, <1>10, <1>11, UpTo
  <2>2. \A i \in 1..n : i \in 0..n /\ i # 0
    BY <1>0
  <2> QED BY <2>1, <2>2 DEF P
<1>13. f \in [1..n -> Seq(S)]
  <2>1. f = [i \in 1..n |-> f[i]]
    BY <1>9
  <2> QED BY <2>1, <1>12
<1> QED BY <1>7, <1>8, <1>13

\* One more sequence is appended at the end.
LEMMA FlattenAppend ==
  ASSUME NEW S, NEW seqs \in Seq(Seq(S)), NEW x \in Seq(S)
  PROVE  FlattenSeq(Append(seqs, x)) = FlattenSeq(seqs) \o x /\ FlattenSeq(seqs) \in Seq(S)
<1> DEFINE more == Append(seqs, x)
           n == Len(seqs)
<1>1. /\ more \in Seq(Seq(S)) /\ more # <<>> /\ n \in Nat /\ Len(more) = n + 1
      /\ more[n + 1] = x /\ \A i \in 1..n : more[i] = seqs[i]
  BY Appends
<1>2. PICK g \in [1..Len(more) -> Seq(S)] : Flattens(g, more) /\ FlattenSeq(more) = g[Len(more)]
  BY <1>1, FlattenIs
<1> HIDE DEF more
<1>3. g = [i \in 1..(n + 1) |-> IF i = 1 THEN more[i] ELSE g[i - 1] \o more[i]]
  BY <1>1, <1>2 DEF Flattens
<1>4. FlattenSeq(more) = IF n = 0 THEN x ELSE g[n] \o x
  <2>1. n + 1 \in 1..(n + 1)
    BY <1>1
  <2>2. g[n + 1] = IF n + 1 = 1 THEN more[n + 1] ELSE g[(n + 1) - 1] \o more[n + 1]
    BY <1>3, <2>1
  <2>3. (n + 1) - 1 = n /\ (n + 1 = 1 <=> n = 0)
    BY <1>1
  <2> QED BY <1>1, <1>2, <2>2, <2>3
<1>5. CASE n = 0
  <2>1. FlattenSeq(seqs) = <<>>
    BY <1>5 DEF FlattenSeq
  <2>2. <<>> \o x = x
    OBVIOUS
  <2> QED BY <1>4, <1>5, <2>1, <2>2 DEF more
<1>6. CASE n # 0
  <2>1. seqs # <<>>
    BY <1>6
  <2>2. PICK f \in [1..n -> Seq(S)] : Flattens(f, seqs) /\ FlattenSeq(seqs) = f[n]
    BY <2>1, FlattenIs
  <2>3. f = [i \in 1..n |-> IF i = 1 THEN seqs[i] ELSE f[i - 1] \o seqs[i]]
    BY <2>2 DEF Flattens
  <2> DEFINE P == {i \in 0..n : i = 0 \/ g[i] = f[i]}
  <2>4. 0 \in P
    BY <1>1
  <2>5. ASSUME NEW i \in 1..n, i - 1 \in P PROVE i \in P
    <3>1. i \in 1..(n + 1) /\ i \in 0..n /\ (i # 1 => i - 1 # 0)
      BY <1>1
    <3>2. g[i] = IF i = 1 THEN more[i] ELSE g[i - 1] \o more[i]
      BY <1>3, <3>1
    <3>3. f[i] = IF i = 1 THEN seqs[i] ELSE f[i - 1] \o seqs[i]
      BY <2>3
    <3>4. i # 1 => g[i - 1] = f[i - 1]
      BY <2>5, <3>1
    <3> QED BY <1>1, <3>1, <3>2, <3>3, <3>4
  <2>6. g[n] = f[n]
    <3> HIDE DEF P
    <3>1. \A i \in 0..n : i \in P
      BY <1>1, <2>4, <2>5, UpTo
    <3>2. n \in P
      BY <1>1, <3>1
    <3> QED BY <3>2, <1>6 DEF P
  <2>7. f[n] \in Seq(S)
    <3>1. n \in 1..n
      BY <1>1, <1>6
    <3> HIDE DEF n
    <3> QED BY <2>2, <3>1
  <2> QED BY <1>4, <1>6, <2>2, <2>6, <2>7 DEF more
<1> QED BY <1>1, <1>5, <1>6

\* Nothing is joined to nothing, and one sequence is itself.
LEMMA FlattenOne ==
  ASSUME NEW S, NEW x \in Seq(S)
  PROVE  FlattenSeq(<<>>) = <<>> /\ FlattenSeq(<<x>>) = x
<1>1. FlattenSeq(<<>>) = <<>>
  BY DEF FlattenSeq
<1> DEFINE none == <<>>
<1>2. none \in Seq(Seq(S)) /\ Append(none, x) = <<x>> /\ none \o x = x
  OBVIOUS
<1> HIDE DEF none
<1>3. FlattenSeq(Append(none, x)) = FlattenSeq(none) \o x
  BY <1>2, FlattenAppend
<1> QED BY <1>1, <1>2, <1>3 DEF none

\* A sequence ends with its last element.
LEMMA LastAppended ==
  ASSUME NEW S, NEW t \in Seq(S), NEW k \in 1..Len(t)
  PROVE  /\ SubSeq(t, 1, k - 1) \in Seq(S) /\ t[k] \in S
         /\ SubSeq(t, 1, k) = Append(SubSeq(t, 1, k - 1), t[k])
<1>1. Len(t) \in Nat /\ k \in Nat /\ k - 1 \in Nat /\ k <= Len(t)
  OBVIOUS
<1>2. SubSeq(t, 1, k - 1) \in Seq(S) /\ t[k] \in S /\ Len(SubSeq(t, 1, k - 1)) = k - 1
  BY <1>1
<1>3. /\ SubSeq(t, 1, k) \in Seq(S) /\ Len(SubSeq(t, 1, k)) = k
      /\ \A i \in 1..k : SubSeq(t, 1, k)[i] = t[i]
  BY <1>1
<1>4. /\ Append(SubSeq(t, 1, k - 1), t[k]) \in Seq(S) /\ Len(Append(SubSeq(t, 1, k - 1), t[k])) = k
      /\ \A i \in 1..k : Append(SubSeq(t, 1, k - 1), t[k])[i] = t[i]
  BY <1>1, <1>2
<1> QED BY <1>2, <1>3, <1>4

\* Two lists of sequences are joined one after the other.
LEMMA FlattenConcat ==
  ASSUME NEW S, NEW s \in Seq(Seq(S)), NEW t \in Seq(Seq(S))
  PROVE  FlattenSeq(s \o t) = FlattenSeq(s) \o FlattenSeq(t)
<1> DEFINE P == {k \in 0..Len(t) :
                   FlattenSeq(s \o SubSeq(t, 1, k)) = FlattenSeq(s) \o FlattenSeq(SubSeq(t, 1, k))}
<1>0. <<>> \in Seq(S) /\ Len(t) \in Nat /\ FlattenSeq(s) \in Seq(S)
  BY FlattenAppend
<1>1. 0 \in P
  <2>1. SubSeq(t, 1, 0) = <<>> /\ s \o <<>> = s
    BY Regrouped
  <2>2. FlattenSeq(<<>>) = <<>>
    BY <1>0, FlattenOne
  <2>3. PICK a \in Seq(S) : a = FlattenSeq(s)
    BY <1>0
  <2>4. a \o <<>> = a
    OBVIOUS
  <2>5. FlattenSeq(s \o SubSeq(t, 1, 0)) = FlattenSeq(s) \o FlattenSeq(SubSeq(t, 1, 0))
    BY ONLY <2>1, <2>2, <2>3, <2>4
  <2>6. 0 \in 0..Len(t)
    BY <1>0
  <2> QED BY <2>5, <2>6
<1>2. ASSUME NEW k \in 1..Len(t), k - 1 \in P PROVE k \in P
  <2>1. PICK u : u = SubSeq(t, 1, k - 1)
    OBVIOUS
  <2>2. PICK x : x = t[k]
    OBVIOUS
  <2>3. u \in Seq(Seq(S)) /\ x \in Seq(S) /\ SubSeq(t, 1, k) = Append(u, x)
    BY <2>1, <2>2, LastAppended
  <2>4. s \o Append(u, x) = Append(s \o u, x) /\ s \o u \in Seq(Seq(S))
    <3>1. PICK T : T = Seq(S)
      OBVIOUS
    <3>2. s \in Seq(T) /\ u \in Seq(T) /\ x \in T
      BY <2>3, <3>1
    <3>3. s \o Append(u, x) = Append(s \o u, x)
      BY ONLY <3>2, Regrouped
    <3>4. s \o u \in Seq(T)
      BY ONLY <3>2, Concats
    <3> QED BY <3>1, <3>3, <3>4
  <2>5. FlattenSeq(s \o Append(u, x)) = FlattenSeq(s \o u) \o x
    BY <2>3, <2>4, FlattenAppend
  <2>6. FlattenSeq(s \o u) = FlattenSeq(s) \o FlattenSeq(u)
    BY <1>2, <2>1
  <2>7. FlattenSeq(Append(u, x)) = FlattenSeq(u) \o x /\ FlattenSeq(u) \in Seq(S)
    BY <2>3, FlattenAppend
  <2>8. PICK a \in Seq(S), b \in Seq(S) : a = FlattenSeq(s) /\ b = FlattenSeq(u)
    BY <1>0, <2>7
  <2>9. (a \o b) \o x = a \o (b \o x)
    BY <2>3
  <2>10. FlattenSeq(s \o Append(u, x)) = FlattenSeq(s) \o FlattenSeq(Append(u, x))
    BY <2>5, <2>6, <2>7, <2>8, <2>9
  <2>11. k \in 0..Len(t)
    BY <1>0
  <2> QED BY <2>3, <2>10, <2>11
<1> HIDE DEF P
<1>3. \A k \in 0..Len(t) : k \in P
  BY <1>0, <1>1, <1>2, UpTo
<1>4. Len(t) \in P /\ SubSeq(t, 1, Len(t)) = t
  BY <1>0, <1>3
<1> QED BY <1>4 DEF P

\* Singletons give the sequence of what they hold.
LEMMA FlattenSingles ==
  ASSUME NEW S, NEW t \in Seq(S)
  PROVE  FlattenSeq([i \in DOMAIN t |-> <<t[i]>>]) = t
<1> DEFINE one == [x \in S |-> <<x>>]
           P == {k \in 0..Len(t) : FlattenSeq(Mapped(one, SubSeq(t, 1, k))) = SubSeq(t, 1, k)}
<1>0. <<>> \in Seq(S) /\ Len(t) \in Nat /\ one \in [S -> Seq(S)]
  OBVIOUS
<1>1. 0 \in P
  <2>1. SubSeq(t, 1, 0) = <<>>
    OBVIOUS
  <2>2. Mapped(one, <<>>) = <<>>
    BY DEF Mapped
  <2> HIDE DEF one
  <2>3. FlattenSeq(<<>>) = <<>>
    BY <1>0, FlattenOne
  <2>4. FlattenSeq(Mapped(one, SubSeq(t, 1, 0))) = SubSeq(t, 1, 0)
    BY ONLY <2>1, <2>2, <2>3
  <2>5. 0 \in 0..Len(t)
    BY <1>0
  <2> QED BY <2>4, <2>5
<1>2. ASSUME NEW k \in 1..Len(t), k - 1 \in P PROVE k \in P
  <2>1. PICK u : u = SubSeq(t, 1, k - 1)
    OBVIOUS
  <2>2. PICK x : x = t[k]
    OBVIOUS
  <2>3. u \in Seq(S) /\ x \in S /\ SubSeq(t, 1, k) = Append(u, x)
    BY <2>1, <2>2, LastAppended
  <2>4. <<x>> \in Seq(S) /\ <<x>> = [i \in 1..1 |-> x]
    BY <2>3
  <2>5. Mapped(one, <<x>>) = << <<x>> >>
    BY <2>3 DEF Mapped
  <2> HIDE DEF one
  <2>11. one \in [S -> Seq(S)] /\ u \in Seq(S)
    BY <1>0, <2>3
  <2>14. Maps(one, S, Seq(S))
    BY <2>11 DEF Maps
  <2>12. Mapped(one, u \o <<x>>) = Mapped(one, u) \o Mapped(one, <<x>>)
    <3>1. PICK y : y = <<x>>
      OBVIOUS
    <3>2. y \in Seq(S)
      BY ONLY <3>1, <2>4
    <3>3. u \in Seq(S)
      BY <2>3
    <3>4. Mapped(one, u \o y) = Mapped(one, u) \o Mapped(one, y)
      BY ONLY <2>14, <3>2, <3>3, MappedConcat
    <3> QED BY ONLY <3>1, <3>4
  <2>13. Mapped(one, u) \in Seq(Seq(S))
    BY ONLY <2>11, MappedTyped
  <2>6. Mapped(one, u \o <<x>>) = Mapped(one, u) \o << <<x>> >> /\ Mapped(one, u) \in Seq(Seq(S))
    BY <2>5, <2>12, <2>13
  <2>7. u \o <<x>> = Append(u, x) /\ Mapped(one, u) \o << <<x>> >> = Append(Mapped(one, u), <<x>>)
    BY <2>3, <2>4, <2>6, Appends
  <2>8. FlattenSeq(Append(Mapped(one, u), <<x>>)) = FlattenSeq(Mapped(one, u)) \o <<x>>
    BY <2>4, <2>6, FlattenAppend
  <2>9. FlattenSeq(Mapped(one, u)) = u
    BY <1>2, <2>1
  <2>10. k \in 0..Len(t)
    BY <1>0
  <2> QED BY <2>3, <2>6, <2>7, <2>8, <2>9, <2>10
<1>3. [i \in DOMAIN t |-> <<t[i]>>] = Mapped(one, t)
  BY DEF Mapped
<1> HIDE DEF P, one
<1>4. \A k \in 0..Len(t) : k \in P
  BY <1>0, <1>1, <1>2, UpTo
<1>5. Len(t) \in P /\ SubSeq(t, 1, Len(t)) = t
  BY <1>0, <1>4
<1> QED BY <1>3, <1>5 DEF P

\* A sequence of something.
Sequence(s) == \E n \in Nat : s = [i \in 1..n |-> s[i]]

\* It is a sequence of its elements.
LEMMA SequenceOf ==
  ASSUME NEW s, Sequence(s), NEW S, \A i \in DOMAIN s : s[i] \in S
  PROVE  s \in Seq(S) /\ DOMAIN s = 1..Len(s) /\ Len(s) \in Nat
<1>1. PICK n \in Nat : s = [i \in 1..n |-> s[i]]
  BY DEF Sequence
<1>2. s \in [1..n -> S]
  BY <1>1
<1> QED BY <1>2

\* What joined options write to the preset is what they write one by one.
LEMMA PresetConcat ==
  ASSUME NEW O, NEW u \in Seq(O), NEW v \in Seq(O)
  PROVE  Preset(u \o v) = Preset(u) \o Preset(v)
<1> DEFINE line == [o \in O |-> <<o[1], PresetValue(o)>>]
           R == {line[o] : o \in O}
<1>1. \A w \in Seq(O) : Preset(w) = Mapped(line, w)
  BY DEF Preset, Mapped
<1>2. line \in [O -> R]
  OBVIOUS
<1>3. u \o v \in Seq(O)
  BY Concats
<1> HIDE DEF line, R
<1>9. Maps(line, O, R)
  BY <1>2 DEF Maps
<1>4. Mapped(line, u \o v) = Mapped(line, u) \o Mapped(line, v)
  BY ONLY <1>9, u \in Seq(O), v \in Seq(O), MappedConcat
<1> QED BY <1>1, <1>3, <1>4

\* What joined arguments emit is what they emit one by one.
LEMMA EmitsConcat ==
  ASSUME NEW A, NEW O, \A a \in A : Emitted(a) \in Seq(O), NEW u \in Seq(A), NEW v \in Seq(A)
  PROVE  EmittedAll(u \o v) = EmittedAll(u) \o EmittedAll(v) /\ EmittedAll(u) \in Seq(O)
<1> DEFINE f == [a \in A |-> Emitted(a)]
<1>1. \A w \in Seq(A) : EmittedAll(w) = FlattenSeq(Mapped(f, w))
  <2> SUFFICES ASSUME NEW w \in Seq(A) PROVE EmittedAll(w) = FlattenSeq(Mapped(f, w))
    OBVIOUS
  <2>1. Mapped(f, w) = [i \in DOMAIN w |-> Emitted(w[i])]
    BY DEF Mapped
  <2> QED BY <2>1 DEF EmittedAll
<1>2. f \in [A -> Seq(O)]
  OBVIOUS
<1>3. u \o v \in Seq(A) /\ <<>> \in Seq(O)
  BY Concats
<1> HIDE DEF f
<1>4. PICK a \in Seq(Seq(O)), b \in Seq(Seq(O)) : a = Mapped(f, u) /\ b = Mapped(f, v)
  BY <1>2, MappedTyped
<1>9. Maps(f, A, Seq(O))
  BY <1>2 DEF Maps
<1>5. Mapped(f, u \o v) = Mapped(f, u) \o Mapped(f, v)
  BY ONLY <1>9, u \in Seq(A), v \in Seq(A), MappedConcat
<1>6. FlattenSeq(a \o b) = FlattenSeq(a) \o FlattenSeq(b) /\ FlattenSeq(a) \in Seq(O)
  BY <1>3, <1>4, FlattenConcat, FlattenAppend
<1> QED BY <1>1, <1>3, <1>4, <1>5, <1>6

\* What an argument emits is a function, and a sequence when it has as many
\* options as one.
LEMMA EmittedSequence ==
  ASSUME NEW a, NEW n \in Nat, DOMAIN Emitted(a) = 1..n
  PROVE  Sequence(Emitted(a))
<1> DEFINE e == Emitted(a)
<1>1. e = [i \in DOMAIN e |-> e[i]]
  <2>1. \A x : <<x>> = [i \in DOMAIN <<x>> |-> <<x>>[i]]
    OBVIOUS
  <2>2. <<>> = [i \in DOMAIN <<>> |-> <<>>[i]]
    OBVIOUS
  <2>3. \A x, y : LET f == [i \in DOMAIN x |-> <<y, <<x[i]>>>>] IN f = [i \in DOMAIN f |-> f[i]]
    OBVIOUS
  <2> QED BY <2>1, <2>2, <2>3 DEF Emitted, EmittedTyped
<1> HIDE DEF e
<1>2. e = [i \in 1..n |-> e[i]]
  BY <1>1 DEF e
<1> QED BY <1>2 DEF Sequence, e

\* A field and what it became: the same options.
Same(g, arguments) ==
  /\ Sequence(arguments) /\ \A i \in DOMAIN arguments : Sequence(Emitted(arguments[i]))
  /\ Preset(EmittedAll(arguments)) = Preset(g)

\* An option that no argument took is emitted as it was.
LEMMA RawEmitted ==
  ASSUME NEW o, NEW origin PROVE Emitted(RawOption(o, origin)) = <<<<o[1], o[2]>>>>
<1>1. CASE o[2] = <<>>
  BY <1>1 DEF Emitted, RawOption, Raw
<1>2. CASE o[2] # <<>>
  <2>1. Text(o[2]) # Yes /\ Text(o[2])[2] = o[2]
    BY DEF Text, Yes
  <2>5. PICK t : t = Text(o[2])
    OBVIOUS
  <2>6. PICK a : a = RawOption(o, origin)
    OBVIOUS
  <2>2. a = [id |-> "", flag |-> o[1], value |-> t, origin |-> origin]
    BY <1>2, <2>5, <2>6 DEF RawOption, Raw
  <2>3. a.id = "" /\ a.flag = o[1] /\ a.value = t
    BY ONLY <2>2
  <2>4. Emitted(a) = <<<<a.flag, IF a.value = Yes THEN <<>> ELSE a.value[2]>>>>
    BY <2>3 DEF Emitted
  <2> QED BY <2>1, <2>3, <2>4, <2>5, <2>6
<1> QED BY <1>1, <1>2

\* A field that is kept as raw options.
LEMMA KeptSame ==
  ASSUME NEW g \in LegacyGroups, NEW origin
  PROVE  Same(g, [i \in DOMAIN g |-> RawOption(g[i], origin)])
<1> DEFINE k == [i \in DOMAIN g |-> RawOption(g[i], origin)]
           S == {g[i] : i \in DOMAIN g}
<1>1. PICK n \in Nat : g = [i \in 1..n |-> <<g[i][1], g[i][2]>>]
  BY LegacyAssumption
<1>2. DOMAIN g = 1..n /\ DOMAIN k = 1..n /\ \A i \in 1..n : g[i] = <<g[i][1], g[i][2]>>
  BY <1>1
<1>3. \A i \in 1..n : Emitted(k[i]) = <<g[i]>>
  BY <1>2, RawEmitted
<1>4. Sequence(k)
  BY <1>2 DEF Sequence
<1>5. g \in Seq(S)
  <2>1. \A i \in 1..n : g[i] \in S
    BY <1>2
  <2> HIDE DEF S, k
  <2>2. g = [i \in 1..n |-> g[i]]
    BY <1>1, <1>2
  <2>3. g \in [1..n -> S]
    BY ONLY <2>1, <2>2
  <2> QED BY <2>3
<1> HIDE DEF k, S
<1>6. EmittedAll(k) = FlattenSeq([i \in DOMAIN g |-> <<g[i]>>])
  <2>1. [i \in DOMAIN k |-> Emitted(k[i])] = [i \in DOMAIN g |-> <<g[i]>>]
    BY <1>2, <1>3
  <2> QED BY <2>1 DEF EmittedAll
<1>7. EmittedAll(k) = g
  BY <1>5, <1>6, FlattenSingles
<1>8. \A i \in DOMAIN k : Sequence(Emitted(k[i]))
  <2>1. \A x : Sequence(<<x>>)
    <3> TAKE x
    <3>1. <<x>> = [i \in 1..1 |-> <<x>>[i]]
      OBVIOUS
    <3> QED BY <3>1 DEF Sequence
  <2> QED BY <1>2, <1>3, <2>1
<1> QED BY <1>4, <1>7, <1>8 DEF Same, k

\* A field that becomes an argument with the same options.
LEMMA TypedSame ==
  ASSUME NEW g \in LegacyGroups, NEW id, NEW v, SameOptions(id, v, g)
  PROVE  Same(g, <<Typed(id, v)>>)
<1>1. PICK a : a = Typed(id, v)
  OBVIOUS
<1>2. PICK n \in Nat : g = [i \in 1..n |-> <<g[i][1], g[i][2]>>]
  BY LegacyAssumption
<1>3. Preset(Emitted(a)) = Preset(g)
  BY <1>1 DEF SameOptions
<1>4. DOMAIN Emitted(a) = 1..n
  <2>1. \A x : DOMAIN Preset(x) = DOMAIN x
    BY DEF Preset
  <2>2. DOMAIN g = 1..n
    BY <1>2
  <2> QED BY <1>3, <2>1, <2>2
<1>5. Sequence(Emitted(a))
  BY <1>4, EmittedSequence
<1>6. EmittedAll(<<a>>) = Emitted(a)
  <2> DEFINE O == {Emitted(a)[i] : i \in DOMAIN Emitted(a)}
  <2>1. Emitted(a) \in Seq(O)
    <3>1. \A i \in DOMAIN Emitted(a) : Emitted(a)[i] \in O
      OBVIOUS
    <3> HIDE DEF O
    <3> QED BY <1>5, <3>1, SequenceOf
  <2> HIDE DEF O
  <2>2. [i \in DOMAIN <<a>> |-> Emitted(<<a>>[i])] = <<Emitted(a)>>
    OBVIOUS
  <2> QED BY <2>1, <2>2, FlattenOne DEF EmittedAll
<1>7. Sequence(<<a>>) /\ \A i \in DOMAIN <<a>> : <<a>>[i] = a
  <2>1. <<a>> = [i \in 1..1 |-> <<a>>[i]]
    OBVIOUS
  <2> QED BY <2>1 DEF Sequence
<1> QED BY <1>1, <1>3, <1>5, <1>6, <1>7 DEF Same

\* So a field is never changed, whatever the catalog says of it.
LEMMA MigratedSame ==
  ASSUME NEW g \in LegacyGroups PROVE Same(g, Migrated(g))
<1>1. \A origin : Same(g, [i \in DOMAIN g |-> RawOption(g[i], origin)])
  BY KeptSame
<1>2. \A id, v : SameOptions(id, v, g) => Same(g, <<Typed(id, v)>>)
  BY TypedSame
<1>3. \A id : LET exact == {v \in Candidate(id, g) : SameOptions(id, v, g)}
              IN  exact # {} => Same(g, <<Typed(id, CHOOSE v \in exact : TRUE)>>)
  <2> TAKE id
  <2> DEFINE exact == {v \in Candidate(id, g) : SameOptions(id, v, g)}
  <2>1. ASSUME exact # {} PROVE Same(g, <<Typed(id, CHOOSE v \in exact : TRUE)>>)
    <3>1. (CHOOSE v \in exact : TRUE) \in exact
      BY <2>1
    <3> QED BY <3>1, <1>2
  <2> QED BY <2>1
<1> QED BY <1>1, <1>3 DEF Migrated

\* Migrating any version 1 configuration (migrate_legacy) changes, drops and
\* reorders no option of the preset, with any catalog.
THEOREM MigrationIsExact ==
  ASSUME NEW groups \in Seq(LegacyGroups)
  PROVE  Preset(EmittedAll(MigrateLegacy(groups))) = Preset(FlattenSeq(groups))
<1> DEFINE n == Len(groups)
           m(i) == Migrated(groups[i])
           A == UNION {{m(i)[j] : j \in DOMAIN m(i)} : i \in 1..n}
           O == UNION {{Emitted(a)[j] : j \in DOMAIN Emitted(a)} : a \in A}
           G == UNION {{groups[i][j] : j \in DOMAIN groups[i]} : i \in 1..n}
           X == O \cup G
           M == [i \in 1..n |-> m(i)]
<1>1. n \in Nat /\ DOMAIN groups = 1..n /\ \A i \in 1..n : groups[i] \in LegacyGroups
  OBVIOUS
<1>2. \A i \in 1..n : Same(groups[i], m(i))
  BY <1>1, MigratedSame
<1>3. \A i \in 1..n : m(i) \in Seq(A)
  <2> SUFFICES ASSUME NEW i \in 1..n PROVE m(i) \in Seq(A)
    OBVIOUS
  <2>2. PICK s : s = m(i)
    OBVIOUS
  <2>1. \A j \in DOMAIN s : s[j] \in A
    <3> HIDE DEF m
    <3> SUFFICES ASSUME NEW j \in DOMAIN s PROVE s[j] \in A
      OBVIOUS
    <3>1. s[j] \in {m(i)[k] : k \in DOMAIN m(i)}
      BY <2>2
    <3> QED BY <3>1
  <2> HIDE DEF A
  <2>3. Sequence(s)
    BY <1>2, <2>2 DEF Same
  <2> HIDE DEF m
  <2> QED BY <2>1, <2>2, <2>3, SequenceOf
<1>4. \A a \in A : Emitted(a) \in Seq(X)
  <2> SUFFICES ASSUME NEW a \in A PROVE Emitted(a) \in Seq(X)
    OBVIOUS
  <2>1. Sequence(Emitted(a))
    <3>1. PICK i \in 1..n : \E j \in DOMAIN m(i) : a = m(i)[j]
      OBVIOUS
    <3> HIDE DEF m
    <3> QED BY <3>1, <1>2 DEF Same
  <2>2. \A j \in DOMAIN Emitted(a) : Emitted(a)[j] \in X
    <3> HIDE DEF A
    <3> QED OBVIOUS
  <2> HIDE DEF X, A
  <2> QED BY <2>1, <2>2, SequenceOf
<1>5. \A i \in 1..n : groups[i] \in Seq(X)
  <2> SUFFICES ASSUME NEW i \in 1..n PROVE groups[i] \in Seq(X)
    OBVIOUS
  <2>1. PICK l \in Nat : groups[i] = [j \in 1..l |-> <<groups[i][j][1], groups[i][j][2]>>]
    BY <1>1, LegacyAssumption
  <2>2. Sequence(groups[i])
    <3>1. DOMAIN groups[i] = 1..l
      BY <2>1
    <3>2. groups[i] = [j \in 1..l |-> groups[i][j]]
      BY <2>1, <3>1
    <3> QED BY <3>2 DEF Sequence
  <2>3. \A j \in DOMAIN groups[i] : groups[i][j] \in X
    <3> HIDE DEF O
    <3> QED OBVIOUS
  <2> HIDE DEF X
  <2> QED BY <2>2, <2>3, SequenceOf
<1>6. /\ M \in Seq(Seq(A)) /\ Len(M) = n /\ \A i \in 1..n : M[i] = m(i)
      /\ groups \in Seq(Seq(X))
  <2> HIDE DEF A, X, m
  <2>1. M \in [1..n -> Seq(A)] /\ groups \in [1..n -> Seq(X)]
    BY <1>1, <1>3, <1>5
  <2>2. M \in Seq(Seq(A)) /\ Len(M) = n
    <3> HIDE DEF M, n
    <3> QED BY ONLY <1>1, <2>1
  <2>3. groups \in Seq(Seq(X))
    <3> HIDE DEF M, n
    <3> QED BY ONLY <1>1, <2>1
  <2> QED BY <2>2, <2>3
<1>7. \A i \in 1..n : Preset(EmittedAll(M[i])) = Preset(groups[i])
  <2> HIDE DEF M, m
  <2> QED BY <1>2, <1>6 DEF Same
<1>8. MigrateLegacy(groups) = FlattenSeq(M)
  BY <1>1 DEF MigrateLegacy
<1> HIDE DEF M, A, X, m, n
<1> DEFINE P == {k \in 0..n : Preset(EmittedAll(FlattenSeq(SubSeq(M, 1, k))))
                                = Preset(FlattenSeq(SubSeq(groups, 1, k)))}
<1>9. 0 \in P
  <2>1. SubSeq(M, 1, 0) = <<>> /\ SubSeq(groups, 1, 0) = <<>>
    BY <1>6
  <2>2. FlattenSeq(<<>>) = <<>>
    BY DEF FlattenSeq
  <2>3. [i \in DOMAIN <<>> |-> Emitted(<<>>[i])] = <<>>
    OBVIOUS
  <2>4. EmittedAll(<<>>) = <<>>
    BY <2>2, <2>3 DEF EmittedAll
  <2>5. EmittedAll(FlattenSeq(SubSeq(M, 1, 0))) = FlattenSeq(SubSeq(groups, 1, 0))
    BY <2>1, <2>2, <2>4
  <2>6. 0 \in 0..n
    BY <1>1
  <2> QED BY <2>5, <2>6
<1>10. ASSUME NEW k \in 1..n, k - 1 \in P PROVE k \in P
  <2>1. PICK u : u = SubSeq(M, 1, k - 1)
    OBVIOUS
  <2>2. PICK w : w = SubSeq(groups, 1, k - 1)
    OBVIOUS
  <2>3. u \in Seq(Seq(A)) /\ M[k] \in Seq(A) /\ SubSeq(M, 1, k) = Append(u, M[k])
    BY <1>6, <2>1, LastAppended
  <2>4. k \in 1..Len(groups)
    BY DEF n
  <2>5. w \in Seq(Seq(X)) /\ groups[k] \in Seq(X) /\ SubSeq(groups, 1, k) = Append(w, groups[k])
    BY <1>6, <2>2, <2>4, LastAppended
  <2>6. FlattenSeq(Append(u, M[k])) = FlattenSeq(u) \o M[k] /\ FlattenSeq(u) \in Seq(A)
    BY <2>3, FlattenAppend
  <2>7. FlattenSeq(Append(w, groups[k])) = FlattenSeq(w) \o groups[k] /\ FlattenSeq(w) \in Seq(X)
    BY <2>5, FlattenAppend
  <2>8. /\ EmittedAll(FlattenSeq(u) \o M[k]) = EmittedAll(FlattenSeq(u)) \o EmittedAll(M[k])
        /\ EmittedAll(FlattenSeq(u)) \in Seq(X)
    BY <1>4, <2>3, <2>6, EmitsConcat
  <2>9. EmittedAll(M[k]) \in Seq(X)
    BY <1>4, <2>3, EmitsConcat
  <2>10. Preset(EmittedAll(FlattenSeq(u)) \o EmittedAll(M[k]))
           = Preset(EmittedAll(FlattenSeq(u))) \o Preset(EmittedAll(M[k]))
    BY <2>8, <2>9, PresetConcat
  <2>11. Preset(FlattenSeq(w) \o groups[k]) = Preset(FlattenSeq(w)) \o Preset(groups[k])
    BY <2>5, <2>7, PresetConcat
  <2>12. Preset(EmittedAll(FlattenSeq(u))) = Preset(FlattenSeq(w))
    BY <1>10, <2>1, <2>2
  <2>13. k \in 0..n
    BY <1>1
  <2> QED BY <1>7, <2>3, <2>5, <2>6, <2>7, <2>8, <2>10, <2>11, <2>12, <2>13
<1> HIDE DEF P
<1>11. \A k \in 0..n : k \in P
  BY <1>1, <1>9, <1>10, UpTo
<1>12. n \in P /\ SubSeq(M, 1, n) = M /\ SubSeq(groups, 1, n) = groups
  <2>1. n \in P
    BY <1>1, <1>11
  <2>2. SubSeq(M, 1, Len(M)) = M /\ SubSeq(groups, 1, Len(groups)) = groups
    BY <1>6
  <2> QED BY <1>6, <2>1, <2>2 DEF n
<1> QED BY <1>8, <1>12 DEF P

\* So it is in every state of the model.
THEOREM MigrationKeeps == ArgumentsSpec => []MigrationKeepsOptions
<1> DEFINE L == legacy \in Seq(LegacyGroups)
<1>1. ArgumentsInit => L
  BY DEF ArgumentsInit, Empty
<1>2. L /\ [ArgumentsNext]_ArgumentVars => L'
  BY DEF ArgumentsNext, ArgumentVars, TypesPhrase, AddsLegacy, AddsArgument, AddsChange, AddsRemoval
<1>3. L => MigrationKeepsOptions
  BY MigrationIsExact DEF MigrationKeepsOptions
<1> QED BY <1>1, <1>2, <1>3, PTL DEF ArgumentsSpec

----------------------------------------------------------------------------
(* Updates                                                                 *)

\* The fields of an entry.
LEMMA EntryFields ==
  ASSUME NEW i, NEW g, NEW v, NEW f, f = [id |-> i, flag |-> g, value |-> v]
  PROVE  f.id = i /\ f.flag = g /\ f.value = v
OBVIOUS

\* A value reads as one value at most.
LEMMA CoercedOnce ==
  ASSUME NEW d, NEW v, NEW x \in Coerced(d, v), NEW y \in Coerced(d, v)
  PROVE  x = y
<1>1. CASE d.type = "boolean"
  <2>1. x \in Boolean(v) /\ y \in Boolean(v)
    BY <1>1 DEF Coerced
  <2>2. Yes # No /\ Yes[1] # "text" /\ No[1] # "text"
    BY DEF Yes, No
  <2>3. v = Yes => x = Yes /\ y = Yes
    BY <2>1, <2>2 DEF Boolean
  <2>4. v = No => x = No /\ y = No
    BY <2>1, <2>2 DEF Boolean
  <2>5. CASE v # Yes /\ v # No
    <3>1. \A b \in Boolean(v) : /\ b = Yes \/ b = No
                                /\ v[2][1] \in (IF b = Yes THEN TrueTexts ELSE FalseTexts)
      BY <2>5 DEF Boolean
    <3>2. TrueTexts \cap FalseTexts = {}
      BY TextsAssumption
    <3> QED BY <2>1, <2>2, <3>1, <3>2
  <2> QED BY <2>3, <2>4, <2>5
<1>2. CASE d.type = "list"
  BY <1>2 DEF Coerced, ListValue
<1>3. CASE d.type = "number"
  <2>1. x \in {Text(<<n>>) : n \in Number(d, v[2][1])} /\ y \in {Text(<<n>>) : n \in Number(d, v[2][1])}
    BY <1>3 DEF Coerced
  <2>2. \A t : \A a, b \in Number(d, t) : a = b
    BY DEF Number
  <2> QED BY <2>1, <2>2
<1>4. CASE d.type \notin {"boolean", "list", "number"}
  BY <1>4 DEF Coerced
<1> QED BY <1>1, <1>2, <1>3, <1>4

\* What a value was stored as reads as itself.
LEMMA CoercedAgain ==
  ASSUME NEW d, NEW v, NEW x \in Coerced(d, v)
  PROVE  Coerced(d, x) = {x}
<1>0. SUFFICES x \in Coerced(d, x)
  BY <1>0, CoercedOnce
<1>1. CASE d.type = "boolean"
  <2>1. x \in Boolean(v)
    BY <1>1 DEF Coerced
  <2>2. x \in {Yes, No}
    BY <2>1 DEF Boolean
  <2>3. x \in Boolean(x)
    BY <2>2 DEF Boolean
  <2> QED BY <1>1, <2>3 DEF Coerced
<1>2. CASE d.type = "list"
  <2> DEFINE el == Elements(d, v)
             ys == [i \in DOMAIN el |-> CHOOSE z \in Element(d, el[i]) : TRUE]
  <2>1. /\ DOMAIN el # {} /\ \A i \in DOMAIN el : Element(d, el[i]) # {}
        /\ x = Listed(ys)
    BY <1>2 DEF Coerced, ListValue
  <2>2. \A t : \A z \in Element(d, t) : Element(d, z) = {z}
    BY TextsAssumption DEF Element
  <2>3. \A i \in DOMAIN el : Element(d, ys[i]) = {ys[i]}
    <3> SUFFICES ASSUME NEW i \in DOMAIN el PROVE Element(d, ys[i]) = {ys[i]}
      OBVIOUS
    <3>1. ys[i] = CHOOSE z \in Element(d, el[i]) : TRUE
      OBVIOUS
    <3>2. ys[i] \in Element(d, el[i])
      BY <2>1, <3>1
    <3> QED BY <2>2, <3>2
  <2>4. DOMAIN ys = DOMAIN el /\ ys = [i \in DOMAIN ys |-> ys[i]]
    OBVIOUS
  <2> HIDE DEF ys, el
  <2>5. Elements(d, Listed(ys)) = ys
    BY DEF Elements, Listed
  <2>6. [i \in DOMAIN ys |-> CHOOSE z \in Element(d, ys[i]) : TRUE] = ys
    BY <2>3, <2>4
  <2>7. ListValue(d, Listed(ys)) = {Listed(ys)}
    BY <2>1, <2>3, <2>4, <2>5, <2>6 DEF ListValue
  <2>8. Coerced(d, Listed(ys)) = ListValue(d, Listed(ys))
    BY <1>2 DEF Coerced
  <2> QED BY ONLY <2>1, <2>7, <2>8
<1>3. CASE d.type = "number"
  <2>1. PICK n \in Number(d, v[2][1]) : x = Text(<<n>>)
    BY <1>3 DEF Coerced
  <2>2. n \in Number(d, n)
    BY TextsAssumption DEF Number
  <2>3. x[1] = "text" /\ x[2][1] = n
    BY <2>1 DEF Text
  <2> QED BY <1>3, <2>1, <2>2, <2>3 DEF Coerced
<1>4. CASE d.type \notin {"boolean", "list", "number"}
  BY <1>4 DEF Coerced
<1> QED BY <1>1, <1>2, <1>3, <1>4

\* The argument of an entry that is accepted.
TheBuilt(e) == CHOOSE a \in BuiltOne(e) : TRUE

\* It is the only one and goes by the entry's key; read again it is the same.
LEMMA BuiltAgain ==
  ASSUME NEW e, NEW a \in BuiltOne(e)
  PROVE  /\ BuiltOne(e) = {a} /\ TheBuilt(e) = a
         /\ Identity(a) = Key(e) /\ Key(EntryOf(a)) = Key(e)
         /\ BuiltOne(EntryOf(a)) = {a} /\ TheBuilt(EntryOf(a)) = a
<1>1. CASE e.id = ""
  <2> DEFINE v == IF e.value = No THEN Text(<<"false">>) ELSE e.value
  <2>1. a = [id |-> "", flag |-> e.flag, value |-> v, origin |-> "custom"] /\ BuiltOne(e) = {a}
    BY <1>1 DEF BuiltOne, Raw
  <2>2. v # No
    BY DEF No, Text
  <2> HIDE DEF v
  <2>3. EntryOf(a) = [id |-> "", flag |-> e.flag, value |-> v]
    BY <2>1 DEF EntryOf
  <2>4. PICK f : f = EntryOf(a)
    OBVIOUS
  <2>5. f.id = "" /\ f.flag = e.flag /\ f.value = v
    <3>1. PICK g, w : g = e.flag /\ w = v
      OBVIOUS
    <3>2. f = [id |-> "", flag |-> g, value |-> w]
      BY <2>3, <2>4, <3>1
    <3>3. f.id = "" /\ f.flag = g /\ f.value = w
      BY ONLY <3>2, EntryFields
    <3> QED BY <3>1, <3>3
  <2>6. BuiltOne(f) = {a}
    BY <2>1, <2>2, <2>5 DEF BuiltOne, Raw
  <2>7. Identity(a) = Key(e) /\ Key(f) = Key(e)
    BY <1>1, <2>1, <2>5 DEF Identity, Key
  <2> QED BY <2>1, <2>4, <2>6, <2>7 DEF TheBuilt
<1>2. CASE e.id # ""
  <2>1. e.id \in DOMAIN Catalog /\ BuiltOne(e) = {Typed(e.id, v) : v \in Coerced(Catalog[e.id], e.value)}
    BY <1>2 DEF BuiltOne
  <2>2. PICK v \in Coerced(Catalog[e.id], e.value) : a = Typed(e.id, v)
    BY <2>1
  <2>3. \A w \in Coerced(Catalog[e.id], e.value) : w = v
    BY CoercedOnce
  <2>4. BuiltOne(e) = {a}
    BY <2>1, <2>2, <2>3
  <2>5. a = [id |-> e.id, flag |-> Catalog[e.id].flag, value |-> v, origin |-> ""]
    BY <2>2 DEF Typed
  <2>6. EntryOf(a) = [id |-> e.id, flag |-> "", value |-> v]
    BY <1>2, <2>5 DEF EntryOf
  <2>7. PICK f : f = EntryOf(a)
    OBVIOUS
  <2>8. f.id = e.id /\ f.value = v
    <3>1. PICK i : i = e.id
      OBVIOUS
    <3>2. f = [id |-> i, flag |-> "", value |-> v]
      BY <2>6, <2>7, <3>1
    <3>3. f.id = i /\ f.value = v
      BY ONLY <3>2, EntryFields
    <3> QED BY <3>1, <3>3
  <2>9. Coerced(Catalog[e.id], v) = {v}
    BY CoercedAgain
  <2>10. BuiltOne(f) = {a}
    BY <1>2, <2>1, <2>2, <2>8, <2>9 DEF BuiltOne
  <2>11. Identity(a) = Key(e) /\ Key(f) = Key(e)
    BY <1>2, <2>5, <2>8 DEF Identity, Key
  <2> QED BY <2>4, <2>7, <2>10, <2>11 DEF TheBuilt
<1> QED BY <1>1, <1>2

\* What holds of nothing, and of one element more, holds of every sequence.
LEMMA SequencesAll ==
  ASSUME NEW T, NEW Q, <<>> \in Q,
         \A u \in Seq(T) : \A x \in T : u \in Q => Append(u, x) \in Q
  PROVE  \A s \in Seq(T) : s \in Q
<1> SUFFICES ASSUME NEW s \in Seq(T) PROVE s \in Q
  OBVIOUS
<1> DEFINE P == {k \in 0..Len(s) : SubSeq(s, 1, k) \in Q}
<1>0. Len(s) \in Nat
  OBVIOUS
<1>1. 0 \in P
  <2>1. SubSeq(s, 1, 0) = <<>>
    OBVIOUS
  <2>2. SubSeq(s, 1, 0) \in Q
    BY ONLY <2>1, <<>> \in Q
  <2>3. 0 \in 0..Len(s)
    BY <1>0
  <2> QED BY <2>2, <2>3
<1>2. ASSUME NEW k \in 1..Len(s), k - 1 \in P PROVE k \in P
  <2>1. PICK u : u = SubSeq(s, 1, k - 1)
    OBVIOUS
  <2>2. PICK x : x = s[k]
    OBVIOUS
  <2>3. u \in Seq(T) /\ x \in T /\ SubSeq(s, 1, k) = Append(u, x)
    BY <2>1, <2>2, LastAppended
  <2>4. u \in Q
    BY <1>2, <2>1
  <2>5. k \in 0..Len(s)
    BY <1>0
  <2> QED BY <2>3, <2>4, <2>5
<1> HIDE DEF P
<1>3. \A k \in 0..Len(s) : k \in P
  BY <1>0, <1>1, <1>2, UpTo
<1>4. Len(s) \in P /\ SubSeq(s, 1, Len(s)) = s
  BY <1>0, <1>3
<1> QED BY <1>4 DEF P

\* Flattening one more element's sequence.
LEMMA FlattenNext ==
  ASSUME NEW T, NEW S, NEW f, Maps(f, T, Seq(S)), NEW u \in Seq(T), NEW x \in T
  PROVE  /\ FlattenSeq(Mapped(f, Append(u, x))) = FlattenSeq(Mapped(f, u)) \o f[x]
         /\ FlattenSeq(Mapped(f, u)) \in Seq(S)
<1>1. PICK y : y = <<x>>
  OBVIOUS
<1>2. y \in Seq(T) /\ Append(u, x) = u \o y
  BY <1>1, Appends
<1>3. Mapped(f, u \o y) = Mapped(f, u) \o Mapped(f, y)
  BY ONLY <1>2, Maps(f, T, Seq(S)), u \in Seq(T), MappedConcat
<1>4. Mapped(f, y) = <<f[x]>>
  BY <1>1 DEF Mapped
<1>5. f \in [T -> Seq(S)]
  BY DEF Maps
<1>6. Mapped(f, u) \in Seq(Seq(S)) /\ f[x] \in Seq(S)
  BY <1>5, MappedTyped
<1>7. PICK m \in Seq(Seq(S)) : m = Mapped(f, u)
  BY <1>6
<1>8. m \o <<f[x]>> = Append(m, f[x])
  BY <1>6, <1>7, Appends
<1>9. FlattenSeq(Append(m, f[x])) = FlattenSeq(m) \o f[x] /\ FlattenSeq(m) \in Seq(S)
  BY <1>6, <1>7, FlattenAppend
<1> QED BY <1>2, <1>3, <1>4, <1>7, <1>8, <1>9

\* The elements of a sequence are different.
Apart(s) == \A i, j \in DOMAIN s : s[i] = s[j] => i = j

\* One more element: Only keeps it when it is in the set.
OnlyGrows(u, x, S) ==
  Only(Append(u, x), S) = IF x \in S THEN Append(Only(u, S), x) ELSE Only(u, S)

\* So it does for sequences.
LEMMA OnlyNext ==
  ASSUME NEW T, NEW u \in Seq(T), NEW x \in T, NEW S
  PROVE  Only(<<>>, S) = <<>> /\ Only(u, S) \in Seq(T) /\ OnlyGrows(u, x, S)
<1> DEFINE f == [y \in T |-> IF y \in S THEN <<y>> ELSE <<>>]
<1>1. Maps(f, T, Seq(T))
  BY DEF Maps
<1>2. \A w \in Seq(T) : Only(w, S) = FlattenSeq(Mapped(f, w))
  <2> SUFFICES ASSUME NEW w \in Seq(T) PROVE Only(w, S) = FlattenSeq(Mapped(f, w))
    OBVIOUS
  <2>1. Mapped(f, w) = [i \in DOMAIN w |-> IF w[i] \in S THEN <<w[i]>> ELSE <<>>]
    BY DEF Mapped
  <2> QED BY <2>1 DEF Only
<1>3. Only(<<>>, S) = <<>>
  <2>1. [i \in DOMAIN <<>> |-> IF <<>>[i] \in S THEN <<<<>>[i]>> ELSE <<>>] = <<>>
    OBVIOUS
  <2>2. FlattenSeq(<<>>) = <<>>
    BY DEF FlattenSeq
  <2> QED BY <2>1, <2>2 DEF Only
<1>4. f[x] = IF x \in S THEN <<x>> ELSE <<>>
  OBVIOUS
<1> HIDE DEF f
<1>5. /\ FlattenSeq(Mapped(f, Append(u, x))) = FlattenSeq(Mapped(f, u)) \o f[x]
      /\ FlattenSeq(Mapped(f, u)) \in Seq(T)
  BY <1>1, FlattenNext
<1>6. PICK k \in Seq(T) : k = Only(u, S)
  BY <1>2, <1>5
<1>7. Append(u, x) \in Seq(T)
  BY Appends
<1>8. Only(Append(u, x), S) = k \o f[x]
  BY <1>2, <1>5, <1>6, <1>7
<1>9. k \o <<x>> = Append(k, x) /\ k \o <<>> = k
  BY Appends, Regrouped
<1> QED BY <1>3, <1>4, <1>6, <1>8, <1>9 DEF OnlyGrows

\* The elements of a sequence with one more.
LEMMA RangeNext ==
  ASSUME NEW T, NEW u \in Seq(T), NEW x \in T
  PROVE  Range(Append(u, x)) = Range(u) \cup {x} /\ Range(u) \subseteq T /\ Range(<<>>) = {}
<1>1. PICK w : w = Append(u, x)
  OBVIOUS
<1>2. PICK n \in Nat : /\ DOMAIN u = 1..n /\ DOMAIN w = 1..(n + 1) /\ w[n + 1] = x
                       /\ \A i \in 1..n : w[i] = u[i]
  <2>1. PICK n : n = Len(u)
    OBVIOUS
  <2> QED BY <1>1, <2>1, Appends
<1>3. \A y : y \in Range(w) <=> y \in Range(u) \/ y = x
  <2>1. ASSUME NEW i \in DOMAIN w PROVE w[i] \in Range(u) \/ w[i] = x
    <3>1. i \in 1..n \/ i = n + 1
      BY <1>2
    <3> QED BY <1>2, <3>1 DEF Range
  <2>2. \A i \in DOMAIN u : u[i] \in Range(w)
    <3>1. \A i \in 1..n : i \in 1..(n + 1)
      OBVIOUS
    <3> QED BY <1>2, <3>1 DEF Range
  <2>3. x \in Range(w)
    <3>1. n + 1 \in 1..(n + 1)
      OBVIOUS
    <3> QED BY <1>2, <3>1 DEF Range
  <2> QED BY <2>1, <2>2, <2>3 DEF Range
<1>4. Range(u) \subseteq T /\ Range(<<>>) = {}
  BY DEF Range
<1> QED BY <1>1, <1>3, <1>4

\* What Only returns.
LEMMA OnlyIs ==
  ASSUME NEW T, NEW s \in Seq(T), NEW S
  PROVE  /\ Only(s, S) \in Seq(T) /\ Range(Only(s, S)) = Range(s) \cap S
         /\ Apart(s) => Apart(Only(s, S))
<1> DEFINE Right(u) == /\ Only(u, S) \in Seq(T) /\ Range(Only(u, S)) = Range(u) \cap S
                       /\ Apart(u) => Apart(Only(u, S))
           Q == {u \in Seq(T) : Right(u)}
<1>1. <<>> \in Q
  <2>1. <<>> \in Seq(T) /\ Apart(<<>>) /\ Range(<<>>) = {}
    BY DEF Apart, Range
  <2>2. Only(<<>>, S) = <<>>
    <3>1. FlattenSeq(<<>>) = <<>>
      BY DEF FlattenSeq
    <3>2. [i \in DOMAIN <<>> |-> IF <<>>[i] \in S THEN <<<<>>[i]>> ELSE <<>>] = <<>>
      OBVIOUS
    <3> QED BY <3>1, <3>2 DEF Only
  <2> QED BY <2>1, <2>2
<1>2. ASSUME NEW u \in Seq(T), NEW x \in T, u \in Q PROVE Append(u, x) \in Q
  <2>1. PICK k \in Seq(T) : k = Only(u, S)
    BY <1>2
  <2>2. PICK w \in Seq(T) : w = Append(u, x)
    BY Appends
  <2>3. /\ x \in S => Only(w, S) = Append(k, x)
        /\ x \notin S => Only(w, S) = k
    <3>1. OnlyGrows(u, x, S)
      BY ONLY OnlyNext, u \in Seq(T), x \in T
    <3> QED BY ONLY <2>1, <2>2, <3>1 DEF OnlyGrows
  <2>4. /\ Range(w) = Range(u) \cup {x} /\ Range(Append(k, x)) = Range(k) \cup {x}
        /\ Range(k) = Range(u) \cap S /\ Append(k, x) \in Seq(T)
    BY <1>2, <2>1, <2>2, RangeNext, Appends
  <2>5. ASSUME Apart(w) PROVE Apart(k) /\ x \notin Range(u)
    <3>1. /\ DOMAIN u = 1..Len(u) /\ DOMAIN w = 1..(Len(u) + 1) /\ w[Len(u) + 1] = x /\ Len(u) \in Nat
          /\ \A i \in 1..Len(u) : w[i] = u[i]
      BY <2>2, Appends
    <3>2. \A i \in 1..Len(u) : i \in 1..(Len(u) + 1) /\ i # Len(u) + 1 /\ Len(u) + 1 \in 1..(Len(u) + 1)
      BY <3>1
    <3>3. Apart(u)
      BY <2>5, <3>1, <3>2 DEF Apart
    <3>4. \A i \in 1..Len(u) : u[i] # x
      BY <2>5, <3>1, <3>2 DEF Apart
    <3> QED BY <1>2, <2>1, <3>1, <3>3, <3>4 DEF Range
  <2>6. ASSUME Apart(k), x \notin Range(k) PROVE Apart(Append(k, x))
    <3>1. PICK z : z = Append(k, x)
      OBVIOUS
    <3>2. PICK n \in Nat : /\ DOMAIN k = 1..n /\ DOMAIN z = 1..(n + 1) /\ z[n + 1] = x
                           /\ \A i \in 1..n : z[i] = k[i]
      <4>1. PICK n : n = Len(k)
        OBVIOUS
      <4> QED BY <3>1, <4>1, Appends
    <3>3. \A i \in 1..(n + 1) : i \in 1..n \/ i = n + 1
      OBVIOUS
    <3>4. \A i \in 1..n : k[i] # x
      BY <2>6, <3>2 DEF Range
    <3> QED BY <2>6, <3>1, <3>2, <3>3, <3>4 DEF Apart
  <2>7. Right(w)
    <3>1. CASE x \in S
      BY <2>1, <2>3, <2>4, <2>5, <2>6, <3>1
    <3>2. CASE x \notin S
      BY <2>1, <2>3, <2>4, <2>5, <3>2
    <3> QED BY <3>1, <3>2
  <2> QED BY <2>2, <2>7
<1> HIDE DEF Q
<1>3. \A u \in Seq(T) : u \in Q
  <2>1. \A u \in Seq(T) : \A x \in T : u \in Q => Append(u, x) \in Q
    BY <1>2
  <2> QED BY <1>1, <2>1, SequencesAll
<1> QED BY <1>3 DEF Q

\* Elements that contribute nothing can be left out.
LEMMA FlattenOnly ==
  ASSUME NEW T, NEW A, NEW g, Maps(g, T, Seq(A)), NEW S, \A x \in T \ S : g[x] = <<>>,
         NEW s \in Seq(T)
  PROVE  FlattenSeq(Mapped(g, Only(s, S))) = FlattenSeq(Mapped(g, s))
<1> DEFINE Q == {u \in Seq(T) : FlattenSeq(Mapped(g, Only(u, S))) = FlattenSeq(Mapped(g, u))}
<1>1. <<>> \in Q
  <2>1. Only(<<>>, S) = <<>>
    <3>1. FlattenSeq(<<>>) = <<>>
      BY DEF FlattenSeq
    <3>2. [i \in DOMAIN <<>> |-> IF <<>>[i] \in S THEN <<<<>>[i]>> ELSE <<>>] = <<>>
      OBVIOUS
    <3> QED BY <3>1, <3>2 DEF Only
  <2>2. <<>> \in Seq(T)
    OBVIOUS
  <2> QED BY <2>1, <2>2
<1>2. ASSUME NEW u \in Seq(T), NEW x \in T, u \in Q PROVE Append(u, x) \in Q
  <2>1. PICK k \in Seq(T) : k = Only(u, S)
    BY OnlyNext
  <2>2. PICK w \in Seq(T) : w = Append(u, x)
    BY Appends
  <2>3. /\ x \in S => Only(w, S) = Append(k, x)
        /\ x \notin S => Only(w, S) = k
    <3>1. OnlyGrows(u, x, S)
      BY ONLY OnlyNext, u \in Seq(T), x \in T
    <3> QED BY ONLY <2>1, <2>2, <3>1 DEF OnlyGrows
  <2>4. /\ FlattenSeq(Mapped(g, w)) = FlattenSeq(Mapped(g, u)) \o g[x]
        /\ FlattenSeq(Mapped(g, u)) \in Seq(A)
    BY ONLY <2>2, FlattenNext, Maps(g, T, Seq(A)), u \in Seq(T), x \in T
  <2>5. FlattenSeq(Mapped(g, Append(k, x))) = FlattenSeq(Mapped(g, k)) \o g[x]
    BY ONLY FlattenNext, Maps(g, T, Seq(A)), k \in Seq(T), x \in T
  <2>6. FlattenSeq(Mapped(g, k)) = FlattenSeq(Mapped(g, u))
    BY <1>2, <2>1
  <2>7. CASE x \in S
    BY <2>2, <2>3, <2>4, <2>5, <2>6, <2>7
  <2>8. CASE x \notin S
    <3>1. PICK y \in Seq(A) : y = FlattenSeq(Mapped(g, u))
      BY <2>4
    <3>2. y \o <<>> = y /\ g[x] = <<>>
      BY <2>8
    <3>3. FlattenSeq(Mapped(g, w)) = y
      BY <2>4, <3>1, <3>2
    <3> QED BY <2>2, <2>3, <2>6, <2>8, <3>1, <3>3
  <2> QED BY <2>7, <2>8
<1> HIDE DEF Q
<1>3. \A u \in Seq(T) : u \in Q
  <2>1. \A u \in Seq(T) : \A x \in T : u \in Q => Append(u, x) \in Q
    BY <1>2
  <2> QED BY <1>1, <2>1, SequencesAll
<1> QED BY <1>3 DEF Q

\* What an update names, what it removes, and the last change of an argument.
Named == Range(Keys(changes))
Gone == {Key(r) : r \in removals}
LastChange(k) == LastOf(changes, Keys(changes), k)

\* No two entries have the same key; those that are not removed; an entry
\* after the update; and the ks that are named and not there, each once.
KeysApart(es) == \A i, j \in DOMAIN es : Key(es[i]) = Key(es[j]) => i = j
Stays(es) == Only(es, {e \in Range(es) : Key(e) \notin Gone})
Changed(e) == IF Key(e) \in Named THEN LastChange(Key(e)) ELSE e
Fresh(es, fresh) ==
  fresh \in Seq(Named) /\ Apart(fresh) /\ Range(fresh) = Named \ Range(Keys(Stays(es)))

\* The last change of a named argument has its key.
LEMMA LastIs ==
  ASSUME NEW U, changes \in Seq(U), NEW k \in Named
  PROVE  \E i \in DOMAIN changes : LastChange(k) = changes[i] /\ Key(changes[i]) = k
<1> DEFINE n == Len(changes)
           I == {i \in 1..n : Key(changes[i]) = k}
           D == {n - i : i \in I}
<1>1. n \in Nat /\ DOMAIN changes = 1..n
  OBVIOUS
<1>2. /\ DOMAIN Keys(changes) = 1..n
      /\ \A i \in 1..n : Keys(changes)[i] = Key(changes[i])
  BY <1>1 DEF Keys
<1>3. I # {}
  BY <1>2 DEF Named, Range
<1>4. D \in SUBSET Nat /\ D # {}
  BY <1>1, <1>3
<1>5. PICK d \in D : \A c \in D : d <= c
  <2> HIDE DEF D
  <2> QED BY <1>4, FirstNumber
<1>6. PICK m \in I : d = n - m
  OBVIOUS
<1>7. ASSUME NEW j \in I PROVE j <= m
  <2>1. n - j \in D /\ j \in 1..n /\ m \in 1..n
    BY <1>6
  <2>2. n - m <= n - j
    BY <1>5, <1>6, <2>1
  <2> QED BY <1>1, <2>1, <2>2
<1> DEFINE L(i) == /\ Keys(changes)[i] = k
                   /\ \A j \in DOMAIN Keys(changes) : Keys(changes)[j] = k => j <= i
<1>8. m \in DOMAIN Keys(changes) /\ L(m)
  BY <1>2, <1>6, <1>7
<1>9. PICK i : i = CHOOSE p \in DOMAIN Keys(changes) : L(p)
  OBVIOUS
<1>10. i \in DOMAIN Keys(changes) /\ L(i)
  <2> HIDE DEF L
  <2> QED BY <1>8, <1>9
<1>11. LastChange(k) = changes[i]
  BY <1>9 DEF LastChange, LastOf
<1> QED BY <1>1, <1>2, <1>10, <1>11

\* What is left of the entries.
LEMMA StaysIs ==
  ASSUME NEW T, NEW es \in Seq(T), KeysApart(es)
  PROVE  /\ Stays(es) \in Seq(T) /\ KeysApart(Stays(es))
         /\ \A i \in DOMAIN Stays(es) : Stays(es)[i] \in Range(es) /\ Key(Stays(es)[i]) \notin Gone
<1> DEFINE S == {e \in Range(es) : Key(e) \notin Gone}
<1>1. PICK s : s = Only(es, S)
  OBVIOUS
<1>2. Apart(es)
  BY DEF Apart, KeysApart
<1>3. s \in Seq(T) /\ Range(s) = Range(es) \cap S /\ Apart(s)
  <2> HIDE DEF S
  <2>1. s \in Seq(T)
    BY <1>1, OnlyIs
  <2>2. Range(s) = Range(es) \cap S
    BY <1>1, OnlyIs
  <2>3. Apart(s)
    BY <1>1, <1>2, OnlyIs
  <2> QED BY <2>1, <2>2, <2>3
<1>4. \A i \in DOMAIN s : s[i] \in Range(es) /\ Key(s[i]) \notin Gone
  <2>1. \A i \in DOMAIN s : s[i] \in Range(s)
    BY DEF Range
  <2> QED BY <1>3, <2>1
<1>5. \A x, y \in Range(es) : Key(x) = Key(y) => x = y
  BY DEF KeysApart, Range
<1>6. KeysApart(s)
  BY <1>3, <1>4, <1>5 DEF KeysApart, Apart
<1> QED BY <1>1, <1>3, <1>4, <1>6 DEF Stays

\* An update changes the entries that stay where they are, and adds the others
\* it names, each once.
LEMMA MergeIs ==
  ASSUME NEW T, NEW es \in Seq(T), KeysApart(es), NEW U, changes \in Seq(U)
  PROVE  \E fresh : /\ Fresh(es, fresh)
                    /\ Merge(es, changes, removals) =
                         [i \in DOMAIN Stays(es) |-> Changed(Stays(es)[i])]
                         \o [k \in DOMAIN fresh |-> LastChange(fresh[k])]
<1>1. PICK kept \in Seq(T) : kept = Stays(es) /\ KeysApart(kept)
  BY StaysIs
<1>2. PICK ks : ks = Keys(kept)
  OBVIOUS
<1>3. PICK updated : updated = Keys(changes)
  OBVIOUS
<1>4. PICK c : c = changes
  OBVIOUS
<1>5. PICK n \in Nat : DOMAIN c = 1..n
  <2>1. Len(changes) \in Nat /\ DOMAIN changes = 1..Len(changes)
    OBVIOUS
  <2> QED BY <1>4, <2>1
<1>6. DOMAIN updated = 1..n /\ DOMAIN ks = DOMAIN kept
  BY <1>2, <1>3, <1>4, <1>5 DEF Keys
<1> DEFINE ids == [i \in 1..n |-> i]
           S == {i \in 1..n : updated[i] \notin Range(ks) /\ FirstOf(updated, i)}
<1>7. PICK added : added = Only(ids, S)
  OBVIOUS
<1>8. added \in Seq(1..n) /\ Range(added) = S /\ Apart(added)
  <2>1. ids \in Seq(1..n) /\ Range(ids) = 1..n /\ Apart(ids)
    BY DEF Range, Apart
  <2>2. S \subseteq 1..n
    OBVIOUS
  <2> HIDE DEF S, ids
  <2>3. added \in Seq(1..n) /\ Range(added) = Range(ids) \cap S
    BY <1>7, <2>1, OnlyIs
  <2>4. Apart(added)
    BY <1>7, <2>1, OnlyIs
  <2> QED BY <2>1, <2>2, <2>3, <2>4
<1>9. PICK fresh : fresh = [k \in DOMAIN added |-> updated[added[k]]]
  OBVIOUS
<1>10. \A k \in DOMAIN added : added[k] \in S
  BY <1>8 DEF Range
<1>11. Fresh(es, fresh)
  <2>1. fresh \in Seq(Named)
    <3>1. \A i \in 1..n : updated[i] \in Named
      BY <1>3, <1>6 DEF Named, Range
    <3>2. PICK l \in Nat : DOMAIN added = 1..l
      <4>1. Len(added) \in Nat /\ DOMAIN added = 1..Len(added)
        BY <1>8
      <4> QED BY <4>1
    <3>3. fresh \in [1..l -> Named]
      <4>1. \A k \in 1..l : added[k] \in 1..n
        BY <1>10, <3>2
      <4> QED BY <1>9, <3>1, <3>2, <4>1
    <3> QED BY <3>2, <3>3
  <2>2. Apart(fresh)
    <3>1. \A i, j \in S : updated[i] = updated[j] => i = j
      <4>1. \A i, j \in S : i < j => updated[i] # updated[j]
        BY DEF FirstOf
      <4>2. \A i, j \in S : i < j \/ j < i \/ i = j
        OBVIOUS
      <4> HIDE DEF S
      <4> QED BY <4>1, <4>2
    <3>2. ASSUME NEW a \in DOMAIN fresh, NEW b \in DOMAIN fresh, fresh[a] = fresh[b] PROVE a = b
      <4> HIDE DEF S
      <4>1. a \in DOMAIN added /\ b \in DOMAIN added /\ updated[added[a]] = updated[added[b]]
        BY <1>9, <3>2
      <4>2. added[a] = added[b]
        BY <1>10, <3>1, <4>1
      <4> QED BY <1>8, <4>1, <4>2 DEF Apart
    <3> QED BY <3>2 DEF Apart
  <2>3. \A k : k \in Range(fresh) => k \in Named /\ k \notin Range(ks)
    BY <1>3, <1>6, <1>9, <1>10 DEF Range, Named
  <2>4. ASSUME NEW k \in Named, k \notin Range(ks) PROVE k \in Range(fresh)
    <3> DEFINE I == {i \in 1..n : updated[i] = k}
    <3>1. I \in SUBSET Nat /\ I # {}
      BY <1>3, <1>6, <2>4 DEF Named, Range
    <3>2. PICK i \in I : \A j \in I : i <= j
      <4> HIDE DEF I
      <4> QED BY <3>1, FirstNumber
    <3>3. FirstOf(updated, i)
      <4>1. \A j \in 1..(i - 1) : j \in 1..n /\ ~(i <= j)
        BY <3>2
      <4> QED BY <3>2, <4>1 DEF FirstOf
    <3>4. i \in S
      BY <2>4, <3>2, <3>3
    <3>5. PICK p \in DOMAIN added : added[p] = i
      BY <1>8, <3>4 DEF Range
    <3> QED BY <1>9, <3>2, <3>5 DEF Range
  <2>5. Range(fresh) = Named \ Range(ks)
    BY <2>3, <2>4
  <2> QED BY <1>1, <1>2, <2>1, <2>2, <2>5 DEF Fresh
<1>12. Merge(es, changes, removals) = Merged(kept, ks, changes, updated)
  BY <1>1, <1>2, <1>3 DEF Merge, MergedBy, Stays, Gone
<1> DEFINE First == [i \in DOMAIN kept |-> IF ks[i] \in Range(updated) /\ FirstOf(ks, i)
                                           THEN LastOf(changes, updated, ks[i]) ELSE kept[i]]
           Second == [k \in DOMAIN added |-> LastOf(changes, updated, updated[added[k]])]
<1>13. Merged(kept, ks, changes, updated) = First \o Second
  <2>1. DOMAIN changes = 1..n
    BY <1>4, <1>5
  <2> QED BY <1>7, <2>1 DEF Merged
<1>14. First = [i \in DOMAIN kept |-> Changed(kept[i])]
  <2>1. \A i \in DOMAIN kept : FirstOf(ks, i)
    <3> SUFFICES ASSUME NEW i \in DOMAIN kept PROVE FirstOf(ks, i)
      OBVIOUS
    <3>1. \A j \in 1..(i - 1) : j \in DOMAIN kept /\ j # i
      OBVIOUS
    <3> QED BY <1>1, <1>2, <3>1 DEF FirstOf, KeysApart, Keys
  <2>2. \A i \in DOMAIN kept : ks[i] = Key(kept[i])
    BY <1>2 DEF Keys
  <2>3. \A k : LastOf(changes, updated, k) = LastChange(k)
    BY <1>3 DEF LastChange
  <2>4. Range(updated) = Named
    BY <1>3 DEF Named
  <2> QED BY <2>1, <2>2, <2>3, <2>4 DEF Changed
<1>15. Second = [k \in DOMAIN fresh |-> LastChange(fresh[k])]
  BY <1>3, <1>9 DEF LastChange
<1> HIDE DEF First, Second
<1>16. Merge(es, changes, removals) = [i \in DOMAIN Stays(es) |-> Changed(Stays(es)[i])]
                                      \o [k \in DOMAIN fresh |-> LastChange(fresh[k])]
  BY <1>1, <1>12, <1>13, <1>14, <1>15
<1> QED BY ONLY <1>11, <1>16

\* m is the entries that stay, changed, and behind them the last changes of
\* the fresh keys; every entry of m has the key it was put there for.
Placed(m, kept, fresh, n, l) ==
  /\ n \in Nat /\ l \in Nat /\ DOMAIN m = 1..(n + l)
  /\ DOMAIN kept = 1..n /\ DOMAIN fresh = 1..l
  /\ \A i \in 1..n : m[i] = Changed(kept[i]) /\ Key(m[i]) = Key(kept[i])
  /\ \A k \in 1..l : m[n + k] = LastChange(fresh[k]) /\ Key(m[n + k]) = fresh[k]

\* An update places the entries like that.
LEMMA UpdatePlaces ==
  ASSUME NEW T, NEW es \in Seq(T), KeysApart(es), NEW U, changes \in Seq(U)
  PROVE  \E fresh, n, l : /\ Fresh(es, fresh)
                          /\ Placed(Merge(es, changes, removals), Stays(es), fresh, n, l)
<1>1. PICK fresh : /\ Fresh(es, fresh)
                   /\ Merge(es, changes, removals) =
                        [i \in DOMAIN Stays(es) |-> Changed(Stays(es)[i])]
                        \o [k \in DOMAIN fresh |-> LastChange(fresh[k])]
  BY MergeIs
<1>2. PICK kept \in Seq(T) : kept = Stays(es)
  BY StaysIs
<1>3. PICK n \in Nat : DOMAIN kept = 1..n
  <2>1. Len(kept) \in Nat /\ DOMAIN kept = 1..Len(kept)
    OBVIOUS
  <2> QED BY <2>1
<1>4. PICK l \in Nat : DOMAIN fresh = 1..l
  <2>1. fresh \in Seq(Named)
    BY <1>1 DEF Fresh
  <2>2. Len(fresh) \in Nat /\ DOMAIN fresh = 1..Len(fresh)
    BY <2>1
  <2> QED BY <2>2
<1> DEFINE X == {Changed(kept[i]) : i \in 1..n} \cup {LastChange(fresh[k]) : k \in 1..l}
<1>5. PICK u : u = [i \in 1..n |-> Changed(kept[i])]
  OBVIOUS
<1>6. PICK v : v = [k \in 1..l |-> LastChange(fresh[k])]
  OBVIOUS
<1>7. u \in Seq(X) /\ Len(u) = n /\ v \in Seq(X) /\ Len(v) = l
  <2>1. u \in [1..n -> X] /\ v \in [1..l -> X]
    BY <1>5, <1>6
  <2> HIDE DEF X
  <2> QED BY <2>1
<1>8. PICK m : m = u \o v
  OBVIOUS
<1>9. m = Merge(es, changes, removals)
  BY <1>1, <1>2, <1>3, <1>4, <1>5, <1>6, <1>8
<1> HIDE DEF X
<1>10. PICK a \in Seq(X), b \in Seq(X) : a = u /\ b = v
  BY <1>7
<1>11. /\ Len(m) = n + l /\ DOMAIN m = 1..(n + l)
       /\ \A i \in 1..n : m[i] = u[i]
       /\ \A k \in 1..l : m[n + k] = v[k]
  <2>1. PICK c \in Seq(X) : c = a \o b
    BY Concats
  <2>2. /\ Len(c) = Len(a) + Len(b)
        /\ \A i \in 1..Len(a) : c[i] = a[i]
        /\ \A i \in 1..Len(b) : c[Len(a) + i] = b[i]
    BY <2>1, Concats
  <2>3. DOMAIN c = 1..Len(c)
    OBVIOUS
  <2> QED BY <1>7, <1>8, <1>10, <2>1, <2>2, <2>3
<1>12. DOMAIN m = 1..(n + l)
  BY <1>11
<1>13. \A k \in Named : Key(LastChange(k)) = k
  BY LastIs
<1>14. \A i \in 1..n : m[i] = Changed(kept[i]) /\ Key(m[i]) = Key(kept[i])
  BY <1>5, <1>11, <1>13 DEF Changed
<1>15. \A k \in 1..l : m[n + k] = LastChange(fresh[k]) /\ Key(m[n + k]) = fresh[k]
  <2>1. \A k \in 1..l : fresh[k] \in Named
    BY <1>1, <1>4 DEF Fresh, Range
  <2> QED BY <1>6, <1>11, <1>13, <2>1
<1>16. Placed(m, kept, fresh, n, l)
  BY <1>3, <1>4, <1>12, <1>14, <1>15 DEF Placed
<1> QED BY <1>1, <1>2, <1>9, <1>16

\* Every place is one of an entry that stays or of a fresh key.
LEMMA TwoParts ==
  ASSUME NEW n \in Nat, NEW l \in Nat, NEW i \in 1..(n + l)
  PROVE  i \in 1..n \/ \E k \in 1..l : i = n + k
<1>1. CASE i <= n
  BY <1>1
<1>2. CASE i > n
  <2>1. i - n \in 1..l /\ i = n + (i - n)
    BY <1>2
  <2> QED BY <2>1
<1> QED BY <1>1, <1>2

\* So every key is there once, with its last change if it is named, and what
\* is there and was removed is named.
LEMMA PlacedKeys ==
  ASSUME NEW T, NEW es \in Seq(T), KeysApart(es), NEW fresh, Fresh(es, fresh),
         NEW m, NEW n, NEW l, Placed(m, Stays(es), fresh, n, l)
  PROVE  /\ KeysApart(m)
         /\ \A k \in Named : \E i \in DOMAIN m : Key(m[i]) = k
         /\ \A i \in DOMAIN m : /\ Key(m[i]) \in Named => m[i] = LastChange(Key(m[i]))
                                /\ Key(m[i]) \in Gone => Key(m[i]) \in Named
<1>1. PICK kept \in Seq(T) : kept = Stays(es) /\ KeysApart(kept)
  BY StaysIs
<1>2. \A i \in DOMAIN kept : Key(kept[i]) \notin Gone
  BY <1>1, StaysIs
<1>3. /\ n \in Nat /\ l \in Nat /\ DOMAIN m = 1..(n + l)
      /\ DOMAIN kept = 1..n /\ DOMAIN fresh = 1..l
      /\ \A i \in 1..n : m[i] = Changed(kept[i]) /\ Key(m[i]) = Key(kept[i])
      /\ \A k \in 1..l : m[n + k] = LastChange(fresh[k]) /\ Key(m[n + k]) = fresh[k]
  BY <1>1 DEF Placed
<1>4. /\ Apart(fresh) /\ \A k \in 1..l : fresh[k] \in Named
      /\ \A k \in 1..l : \A i \in 1..n : fresh[k] # Key(kept[i])
      /\ \A k \in Named : (\E i \in 1..n : Key(kept[i]) = k) \/ \E i \in 1..l : fresh[i] = k
  <2>1. \A k : k \in Range(Keys(kept)) <=> \E i \in 1..n : Key(kept[i]) = k
    BY <1>3 DEF Range, Keys
  <2>2. \A k : k \in Range(fresh) <=> \E i \in 1..l : fresh[i] = k
    BY <1>3 DEF Range
  <2>3. Apart(fresh) /\ Range(fresh) = Named \ Range(Keys(kept))
    BY <1>1 DEF Fresh
  <2> HIDE DEF Named
  <2> QED BY <2>1, <2>2, <2>3
<1>5. \A i \in 1..(n + l) : i \in 1..n \/ \E k \in 1..l : i = n + k
  BY <1>3, TwoParts
<1>6. \A i \in 1..n : i \in 1..(n + l)
  BY <1>3
<1>7. \A k \in 1..l : n + k \in 1..(n + l)
  BY <1>3
<1>8. KeysApart(m)
  <2> SUFFICES ASSUME NEW i \in DOMAIN m, NEW j \in DOMAIN m, Key(m[i]) = Key(m[j]) PROVE i = j
    BY DEF KeysApart
  <2>1. CASE i \in 1..n /\ j \in 1..n
    BY <1>1, <1>3, <2>1 DEF KeysApart
  <2>2. CASE i \in 1..n /\ \E k \in 1..l : j = n + k
    <3>1. PICK k \in 1..l : j = n + k
      BY <2>2
    <3>2. Key(m[j]) = fresh[k] /\ Key(m[i]) = Key(kept[i])
      BY <1>3, <2>2, <3>1
    <3> QED BY <1>4, <2>2, <3>2
  <2>3. CASE j \in 1..n /\ \E k \in 1..l : i = n + k
    <3>1. PICK k \in 1..l : i = n + k
      BY <2>3
    <3>2. Key(m[i]) = fresh[k] /\ Key(m[j]) = Key(kept[j])
      BY <1>3, <2>3, <3>1
    <3> QED BY <1>4, <2>3, <3>2
  <2>4. CASE (\E k \in 1..l : i = n + k) /\ (\E k \in 1..l : j = n + k)
    <3>1. PICK a \in 1..l, b \in 1..l : i = n + a /\ j = n + b
      BY <2>4
    <3>2. fresh[a] = fresh[b]
      BY <1>3, <3>1
    <3>3. a = b
      BY <1>3, <1>4, <3>2 DEF Apart
    <3> QED BY <3>1, <3>3
  <2> QED BY <1>3, <1>5, <2>1, <2>2, <2>3, <2>4
<1>9. ASSUME NEW k \in Named PROVE \E i \in DOMAIN m : Key(m[i]) = k
  <2>1. CASE \E i \in 1..n : Key(kept[i]) = k
    <3>1. PICK i \in 1..n : Key(kept[i]) = k
      BY <2>1
    <3>2. i \in DOMAIN m /\ Key(m[i]) = k
      BY <1>3, <1>6, <3>1
    <3> QED BY <3>2
  <2>2. CASE \E i \in 1..l : fresh[i] = k
    <3>1. PICK i \in 1..l : fresh[i] = k
      BY <2>2
    <3>2. n + i \in DOMAIN m /\ Key(m[n + i]) = k
      BY <1>3, <1>7, <3>1
    <3> QED BY <3>2
  <2> QED BY <1>4, <2>1, <2>2
<1>10. ASSUME NEW i \in DOMAIN m
       PROVE  /\ Key(m[i]) \in Named => m[i] = LastChange(Key(m[i]))
              /\ Key(m[i]) \in Gone => Key(m[i]) \in Named
  <2>1. CASE i \in 1..n
    BY <1>2, <1>3, <2>1 DEF Changed
  <2>2. CASE \E k \in 1..l : i = n + k
    <3>1. PICK k \in 1..l : i = n + k
      BY <2>2
    <3>2. m[i] = LastChange(fresh[k]) /\ Key(m[i]) = fresh[k] /\ fresh[k] \in Named
      BY <1>3, <1>4, <3>1
    <3> QED BY <3>2
  <2> QED BY <1>3, <1>5, <2>1, <2>2
<1> QED BY <1>8, <1>9, <1>10

\* The arguments a are those of the entries es, one by one.
ArgumentsOf(a, es) ==
  /\ DOMAIN a = DOMAIN es
  /\ \A i \in DOMAIN es : /\ a[i] = TheBuilt(es[i]) /\ Identity(a[i]) = Key(es[i])
                          /\ BuiltOne(es[i]) = {a[i]}

\* Entries that are accepted build their arguments.
LEMMA BuiltAre ==
  ASSUME NEW es, Builds(es) PROVE ArgumentsOf(Built(es), es)
<1>1. PICK a : a = Built(es)
  OBVIOUS
<1>2. DOMAIN a = DOMAIN es /\ \A i \in DOMAIN es : a[i] = TheBuilt(es[i])
  BY <1>1 DEF Built, TheBuilt
<1>3. ASSUME NEW i \in DOMAIN es
      PROVE  Identity(a[i]) = Key(es[i]) /\ BuiltOne(es[i]) = {a[i]}
  <2>1. PICK e : e = es[i]
    OBVIOUS
  <2>2. PICK b \in BuiltOne(e) : TRUE
    BY <1>3, <2>1 DEF Builds
  <2>3. BuiltOne(e) = {b} /\ TheBuilt(e) = b /\ Identity(b) = Key(e)
    BY ONLY BuiltAgain, b \in BuiltOne(e)
  <2> QED BY <1>2, <2>1, <2>3
<1> QED BY <1>1, <1>2, <1>3 DEF ArgumentsOf

\* Read back, arguments are the entries of themselves, under the same keys.
LEMMA ReadBack ==
  ASSUME NEW es, NEW a, ArgumentsOf(a, es), NEW again, again = [i \in DOMAIN a |-> EntryOf(a[i])]
  PROVE  ArgumentsOf(a, again) /\ \A i \in DOMAIN es : Key(again[i]) = Key(es[i])
<1>1. /\ DOMAIN a = DOMAIN es /\ DOMAIN again = DOMAIN es
      /\ \A i \in DOMAIN es : again[i] = EntryOf(a[i])
  BY DEF ArgumentsOf
<1>2. ASSUME NEW i \in DOMAIN es
      PROVE  /\ a[i] = TheBuilt(again[i]) /\ Identity(a[i]) = Key(again[i])
             /\ BuiltOne(again[i]) = {a[i]} /\ Key(again[i]) = Key(es[i])
  <2>1. PICK e : e = es[i]
    OBVIOUS
  <2>2. PICK b \in BuiltOne(e) : b = a[i] /\ Identity(b) = Key(e)
    BY <2>1 DEF ArgumentsOf
  <2>3. Key(EntryOf(b)) = Key(e) /\ BuiltOne(EntryOf(b)) = {b} /\ TheBuilt(EntryOf(b)) = b
    BY ONLY BuiltAgain, b \in BuiltOne(e)
  <2> QED BY <1>1, <2>1, <2>2, <2>3
<1> QED BY <1>1, <1>2 DEF ArgumentsOf

\* The arguments an update does not name, and each of them as a sequence of one.
NotNamed(a) == {x \in Range(a) : Identity(x) \notin Named \cup Gone}
OneByOne(a) == [i \in DOMAIN a |-> IF a[i] \in NotNamed(a) THEN <<a[i]>> ELSE <<>>]

\* Nothing many times is nothing.
LEMMA FlattenNothing ==
  ASSUME NEW A, NEW u \in Seq({<<>>}) PROVE FlattenSeq(u) = <<>>
<1> DEFINE E == {<<>>}
           Q == {w \in Seq(E) : FlattenSeq(w) = <<>>}
<1>1. <<>> \in Q
  <2>1. FlattenSeq(<<>>) = <<>>
    BY DEF FlattenSeq
  <2> QED BY <2>1
<1>2. ASSUME NEW w \in Seq(E), NEW x \in E, w \in Q PROVE Append(w, x) \in Q
  <2>1. x = <<>> /\ x \in Seq(A) /\ E \subseteq Seq(A)
    OBVIOUS
  <2>2. w \in Seq(Seq(A)) /\ Append(w, x) \in Seq(E)
    <3> HIDE DEF E
    <3>1. \A B : E \subseteq B => w \in Seq(B)
      OBVIOUS
    <3> QED BY <2>1, <3>1, Appends
  <2>3. FlattenSeq(Append(w, x)) = FlattenSeq(w) \o x
    BY <2>1, <2>2, FlattenAppend
  <2>4. FlattenSeq(w) = <<>> /\ <<>> \o <<>> = <<>>
    BY <1>2
  <2> QED BY <2>1, <2>2, <2>3, <2>4
<1> HIDE DEF Q
<1>3. \A w \in Seq(E) : w \in Q
  <2>1. \A w \in Seq(E) : \A x \in E : w \in Q => Append(w, x) \in Q
    BY <1>2
  <2> HIDE DEF E
  <2> QED BY <1>1, <2>1, SequencesAll
<1> QED BY <1>3 DEF Q, E

\* An update leaves the arguments it does not name as and where they were.
LEMMA OthersSame ==
  ASSUME NEW T, NEW es \in Seq(T), KeysApart(es), NEW fresh, Fresh(es, fresh),
         NEW m, NEW n, NEW l, Placed(m, Stays(es), fresh, n, l),
         NEW before, ArgumentsOf(before, es), NEW after, ArgumentsOf(after, m)
  PROVE  Only(after, NotNamed(after)) = Only(before, NotNamed(before))
<1> DEFINE A == {TheBuilt(e) : e \in T}
           W == [e \in T |-> IF Key(e) \notin Named \cup Gone THEN <<TheBuilt(e)>> ELSE <<>>]
<1>1. W \in [T -> Seq(A)] /\ Maps(W, T, Seq(A))
  <2>1. \A e \in T : TheBuilt(e) \in A
    OBVIOUS
  <2> HIDE DEF A
  <2>2. \A a \in A : <<a>> \in Seq(A)
    OBVIOUS
  <2>3. <<>> \in Seq(A)
    OBVIOUS
  <2>4. W \in [T -> Seq(A)]
    BY <2>1, <2>2, <2>3
  <2> QED BY <2>4 DEF Maps
<1>2. PICK kept \in Seq(T) : kept = Stays(es)
  BY StaysIs
<1>3. /\ n \in Nat /\ l \in Nat /\ DOMAIN m = 1..(n + l)
      /\ DOMAIN kept = 1..n /\ DOMAIN fresh = 1..l
      /\ \A i \in 1..n : m[i] = Changed(kept[i]) /\ Key(m[i]) = Key(kept[i])
      /\ \A k \in 1..l : m[n + k] = LastChange(fresh[k]) /\ Key(m[n + k]) = fresh[k]
  BY <1>2 DEF Placed
<1>4. OneByOne(before) = Mapped(W, es)
  <2>1. \A i \in DOMAIN es : before[i] \in NotNamed(before) <=> Key(es[i]) \notin Named \cup Gone
    BY DEF ArgumentsOf, NotNamed, Range
  <2>2. DOMAIN before = DOMAIN es /\ \A i \in DOMAIN es : before[i] = TheBuilt(es[i]) /\ es[i] \in T
    BY DEF ArgumentsOf
  <2>3. \A i \in DOMAIN es : (IF before[i] \in NotNamed(before) THEN <<before[i]>> ELSE <<>>) = W[es[i]]
    BY <2>1, <2>2
  <2> HIDE DEF W
  <2> QED BY <2>2, <2>3 DEF OneByOne, Mapped
<1>5. \A i \in DOMAIN m : /\ after[i] \in NotNamed(after) <=> Key(m[i]) \notin Named \cup Gone
                          /\ after[i] = TheBuilt(m[i])
  BY DEF ArgumentsOf, NotNamed, Range
<1>6. DOMAIN after = 1..(n + l)
  BY <1>3 DEF ArgumentsOf
<1>7. ASSUME NEW i \in 1..n PROVE OneByOne(after)[i] = W[kept[i]]
  <2>1. i \in 1..(n + l) /\ kept[i] \in T
    BY <1>3
  <2>2. OneByOne(after)[i] = IF after[i] \in NotNamed(after) THEN <<after[i]>> ELSE <<>>
    BY <1>6, <2>1 DEF OneByOne
  <2>3. CASE Key(kept[i]) \in Named \cup Gone
    BY <1>3, <1>5, <2>1, <2>2, <2>3
  <2>4. CASE Key(kept[i]) \notin Named \cup Gone
    <3>1. m[i] = kept[i]
      BY <1>3, <2>4 DEF Changed
    <3> QED BY <1>3, <1>5, <2>1, <2>2, <2>4, <3>1
  <2> QED BY <2>3, <2>4
<1>8. ASSUME NEW k \in 1..l PROVE OneByOne(after)[n + k] = <<>>
  <2>1. n + k \in 1..(n + l)
    BY <1>3
  <2>2. fresh[k] \in Named
    BY <1>3 DEF Fresh, Range
  <2> QED BY <1>3, <1>5, <1>6, <2>1, <2>2 DEF OneByOne
<1>9. PICK none : none = [k \in 1..l |-> <<>>]
  OBVIOUS
<1>10. none \in Seq({<<>>}) /\ none \in Seq(Seq(A)) /\ Len(none) = l
  <2>1. \A B : <<>> \in B => none \in Seq(B) /\ Len(none) = l
    <3> SUFFICES ASSUME NEW B, <<>> \in B PROVE none \in Seq(B) /\ Len(none) = l
      OBVIOUS
    <3>1. PICK x \in B : x = <<>>
      OBVIOUS
    <3>2. none \in [1..l -> B]
      BY <1>9, <3>1
    <3> QED BY <1>3, <3>2
  <2>2. <<>> \in {<<>>} /\ <<>> \in Seq(A)
    OBVIOUS
  <2> HIDE DEF A
  <2> QED BY ONLY <2>1, <2>2
<1> HIDE DEF A, W
<1>11. PICK p \in Seq(Seq(A)) : p = Mapped(W, kept)
  BY <1>1, MappedTyped
<1>12. Len(p) = n /\ \A i \in 1..n : p[i] = W[kept[i]]
  <2>1. Len(kept) = n
    BY <1>3
  <2>2. IsMapped(p, W, kept, Seq(A))
    BY <1>1, <1>11, MappedIs
  <2> QED BY <2>1, <2>2 DEF IsMapped
<1>13. OneByOne(after) = p \o none
  <2>0. PICK q \in Seq(Seq(A)) : q = none
    BY <1>10
  <2>1. PICK d \in Seq(Seq(A)) : d = p \o q
    BY Concats
  <2>2. /\ Len(d) = Len(p) + Len(q)
        /\ \A i \in 1..Len(p) : d[i] = p[i]
        /\ \A i \in 1..Len(q) : d[Len(p) + i] = q[i]
    BY <2>1, Concats
  <2>3. /\ Len(d) = n + l /\ DOMAIN d = 1..(n + l)
        /\ \A i \in 1..n : d[i] = W[kept[i]]
        /\ \A k \in 1..l : d[n + k] = <<>>
    <3>1. Len(p) = n /\ Len(q) = l /\ Len(d) = n + l
      BY <1>10, <1>12, <2>0, <2>2
    <3>2. DOMAIN d = 1..Len(d)
      OBVIOUS
    <3>3. \A k \in 1..l : d[n + k] = none[k]
      BY <2>0, <2>2, <3>1
    <3>4. \A k \in 1..l : none[k] = <<>>
      BY <1>9
    <3>5. \A i \in 1..n : d[i] = W[kept[i]]
      BY <1>12, <2>2, <3>1
    <3> QED BY <3>1, <3>2, <3>3, <3>4, <3>5
  <2>4. \A i \in 1..(n + l) : d[i] = OneByOne(after)[i]
    <3> SUFFICES ASSUME NEW i \in 1..(n + l) PROVE d[i] = OneByOne(after)[i]
      OBVIOUS
    <3>1. i \in 1..n \/ \E k \in 1..l : i = n + k
      BY <1>3, TwoParts
    <3> QED BY <1>7, <1>8, <2>3, <3>1
  <2>5. DOMAIN OneByOne(after) = 1..(n + l) /\ OneByOne(after) = [i \in 1..(n + l) |-> OneByOne(after)[i]]
    BY <1>6 DEF OneByOne
  <2>6. d = [i \in 1..(n + l) |-> d[i]]
    BY <2>3
  <2> QED BY <2>0, <2>1, <2>4, <2>5, <2>6
<1>14. FlattenSeq(p \o none) = FlattenSeq(p)
  <2>1. FlattenSeq(p \o none) = FlattenSeq(p) \o FlattenSeq(none)
    BY <1>10, FlattenConcat
  <2>2. FlattenSeq(none) = <<>>
    BY <1>10, FlattenNothing
  <2>3. FlattenSeq(p) \in Seq(A)
    <3>1. <<>> \in Seq(A)
      OBVIOUS
    <3> QED BY <3>1, FlattenAppend
  <2> QED BY <2>1, <2>2, <2>3
<1>15. FlattenSeq(p) = FlattenSeq(Mapped(W, es))
  <2> DEFINE R == Range(es)
             S == {e \in R : Key(e) \notin Gone}
             V == [e \in R |-> W[e]]
  <2>1. es \in Seq(R) /\ R \subseteq T
    BY DEF Range
  <2>2. V \in [R -> Seq(A)]
    BY <1>1, <2>1
  <2>3. Maps(V, R, Seq(A))
    BY <2>2 DEF Maps
  <2>4. \A e \in R \ S : V[e] = <<>>
    BY <2>1 DEF W
  <2>5. Mapped(V, es) = Mapped(W, es)
    BY <2>1 DEF Mapped, Range
  <2>6. Mapped(V, kept) = Mapped(W, kept)
    <3>1. \A i \in DOMAIN kept : kept[i] \in R
      BY <1>2, StaysIs
    <3> QED BY <3>1 DEF Mapped
  <2>7. kept = Only(es, S)
    BY <1>2 DEF Stays
  <2> HIDE DEF S, V, R
  <2>8. FlattenSeq(Mapped(V, Only(es, S))) = FlattenSeq(Mapped(V, es))
    BY ONLY <2>1, <2>3, <2>4, FlattenOnly
  <2> QED BY <1>11, <2>5, <2>6, <2>7, <2>8
<1>16. \A a : Only(a, NotNamed(a)) = FlattenSeq(OneByOne(a))
  BY DEF Only, OneByOne
<1> QED BY <1>4, <1>13, <1>14, <1>15, <1>16

\* An update of the arguments of a profile that can be saved is right.
LEMMA UpdateIsRight ==
  ASSUME NEW S, current \in Seq(S), Builds(current), KeysApart(current), NEW U, changes \in Seq(U)
  PROVE  UpdateKeeps(Built(current))
<1>1. PICK before : before = Built(current) /\ ArgumentsOf(before, current)
  BY BuiltAre
<1>2. PICK es : es = [i \in DOMAIN before |-> EntryOf(before[i])]
  OBVIOUS
<1>3. ArgumentsOf(before, es) /\ \A i \in DOMAIN current : Key(es[i]) = Key(current[i])
  BY <1>1, <1>2, ReadBack
<1>4. DOMAIN es = DOMAIN current
  BY <1>1, <1>3 DEF ArgumentsOf
<1>5. KeysApart(es)
  BY <1>3, <1>4 DEF KeysApart
<1>6. es \in Seq(Range(es))
  <2>1. PICK n \in Nat : DOMAIN current = 1..n
    <3>1. Len(current) \in Nat /\ DOMAIN current = 1..Len(current)
      OBVIOUS
    <3> QED BY <3>1
  <2>2. \A i \in DOMAIN es : es[i] \in Range(es)
    BY DEF Range
  <2>3. es = [i \in DOMAIN es |-> es[i]]
    BY <1>2
  <2>4. \A R : (\A i \in DOMAIN es : es[i] \in R) => es \in Seq(R)
    BY <1>4, <2>1, <2>3
  <2> QED BY <2>2, <2>4
<1>7. PICK T : T = Range(es)
  OBVIOUS
<1>8. es \in Seq(T)
  BY <1>6, <1>7
<1>9. PICK fresh, n, l : /\ Fresh(es, fresh)
                         /\ Placed(Merge(es, changes, removals), Stays(es), fresh, n, l)
  BY <1>5, <1>8, UpdatePlaces
<1>10. PICK m : m = Merge(es, changes, removals)
  OBVIOUS
<1>11. Placed(m, Stays(es), fresh, n, l)
  BY <1>9, <1>10
<1>12. /\ KeysApart(m)
       /\ \A k \in Named : \E i \in DOMAIN m : Key(m[i]) = k
       /\ \A i \in DOMAIN m : /\ Key(m[i]) \in Named => m[i] = LastChange(Key(m[i]))
                              /\ Key(m[i]) \in Gone => Key(m[i]) \in Named
  BY <1>5, <1>8, <1>9, <1>11, PlacedKeys
<1>13. SUFFICES ASSUME Builds(m)
                PROVE  OthersKept(before, Built(m), Keys(changes), Named \cup Gone)
  BY <1>1, <1>2, <1>10 DEF UpdateKeeps, AcceptedKeeps, Named, Gone
<1>14. PICK after : after = Built(m) /\ ArgumentsOf(after, m)
  BY <1>13, BuiltAre
<1>15. Only(after, NotNamed(after)) = Only(before, NotNamed(before))
  BY <1>3, <1>5, <1>8, <1>9, <1>11, <1>14, OthersSame
<1>16. /\ DOMAIN after = DOMAIN m
       /\ \A i \in DOMAIN m : Identity(after[i]) = Key(m[i]) /\ BuiltOne(m[i]) = {after[i]}
  BY <1>14 DEF ArgumentsOf
<1>17. ASSUME NEW k \in Named
       PROVE  Cardinality({i \in DOMAIN after : Identity(after[i]) = k}) = 1
  <2>1. PICK j \in DOMAIN m : Key(m[j]) = k
    BY <1>12
  <2>2. {i \in DOMAIN after : Identity(after[i]) = k} = {j}
    BY <1>12, <1>16, <2>1 DEF KeysApart
  <2> QED BY <2>2, FS_Singleton
<1>18. ASSUME NEW k \in Named, NEW i \in DOMAIN after, Identity(after[i]) = k
       PROVE  {after[i]} = BuiltOne(LastOf(changes, Keys(changes), k))
  BY <1>12, <1>16, <1>18 DEF LastChange
<1>19. \A i \in DOMAIN after : Identity(after[i]) \in Named \cup Gone => Identity(after[i]) \in Named
  BY <1>12, <1>16
<1>20. \A a : {x \in Range(a) : Identity(x) \notin Named \cup Gone} = NotNamed(a)
  BY DEF NotNamed
<1>21. Range(Keys(changes)) = Named
  BY DEF Named
<1> QED BY <1>14, <1>15, <1>17, <1>18, <1>19, <1>20, <1>21 DEF OthersKept

\* The changes are a sequence, and the arguments are those of a profile that
\* can be saved: each is accepted, and no two are of one argument.
Savable ==
  /\ current \in Seq(Entries) /\ changes \in Seq(Entries)
  /\ Builds(current) /\ KeysApart(current)

\* Two arguments of one name are an error.
LEMMA DuplicateIsError ==
  ASSUME NEW a, NEW known, NEW i \in DOMAIN a, NEW j \in DOMAIN a, i < j,
         Identity(a[i]) = Identity(a[j])
  PROVE  "duplicate-flag" \in Errors(a, known)
<1>1. \E p, q \in DOMAIN a : p < q /\ Identity(a[p]) = Identity(a[q])
  OBVIOUS
<1> QED BY <1>1 DEF Errors

\* The invariant of the arguments that are being updated.
LEMMA SavableInvariant == ArgumentsSpec => []Savable
<1>1. ArgumentsInit => Savable
  BY DEF ArgumentsInit, Empty, Savable, Builds, KeysApart
<1>2. ASSUME Savable, [ArgumentsNext]_ArgumentVars PROVE Savable'
  <2>1. CASE UNCHANGED <<current, changes>>
    BY <1>2, <2>1 DEF Savable, Builds, KeysApart
  <2>2. CASE AddsChange
    BY <1>2, <2>2 DEF AddsChange, Savable, Builds, KeysApart
  <2>3. CASE AddsArgument
    <3>1. PICK e \in Entries : /\ BuiltOne(e) # {}
                               /\ Errors(Built(Append(current, e)), DOMAIN Catalog) = {}
                               /\ current' = Append(current, e)
      BY <2>3 DEF AddsArgument
    <3>2. PICK c \in Seq(Entries) : c = Append(current, e)
      BY <1>2, Appends DEF Savable
    <3>3. PICK n \in Nat : /\ DOMAIN c = 1..(n + 1) /\ DOMAIN current = 1..n /\ c[n + 1] = e
                           /\ \A i \in 1..n : c[i] = current[i]
      <4>1. PICK n : n = Len(current)
        OBVIOUS
      <4> QED BY <1>2, <3>2, <4>1, Appends DEF Savable
    <3>4. Builds(c)
      <4>1. \A i \in 1..(n + 1) : i \in 1..n \/ i = n + 1
        OBVIOUS
      <4> QED BY <1>2, <3>1, <3>3, <4>1 DEF Savable, Builds
    <3>5. PICK a : a = Built(c) /\ ArgumentsOf(a, c)
      BY <3>4, BuiltAre
    <3>6. ~ \E i, j \in DOMAIN a : i < j /\ Identity(a[i]) = Identity(a[j])
      <4>1. "duplicate-flag" \notin Errors(a, DOMAIN Catalog)
        BY <3>1, <3>2, <3>5
      <4> QED BY <4>1, DuplicateIsError
    <3>7. KeysApart(c)
      <4>1. \A i, j \in 1..(n + 1) : i < j \/ j < i \/ i = j
        OBVIOUS
      <4> QED BY <3>3, <3>5, <3>6, <4>1 DEF KeysApart, ArgumentsOf
    <3> QED BY <1>2, <2>3, <3>1, <3>2, <3>4, <3>7 DEF Savable, AddsArgument, Builds, KeysApart
  <2> QED BY <1>2, <2>1, <2>2, <2>3
          DEF ArgumentsNext, ArgumentVars, TypesPhrase, AddsLegacy, AddsRemoval
<1> QED BY <1>1, <1>2, PTL DEF ArgumentsSpec

\* An update that is accepted (_merge_entries and build_arguments) leaves the
\* arguments it does not name as and where they were, applies the last change
\* of each argument it names once and keeps nothing that was removed, for any
\* catalog and any number of arguments and changes.
THEOREM MergeKeeps == ArgumentsSpec => []MergeKeepsOthers
<1>1. Savable => MergeKeepsOthers
  BY UpdateIsRight DEF Savable, MergeKeepsOthers
<1> QED BY <1>1, SavableInvariant, PTL

\* The inputs are built of the elements given, up to their bounds.
LEMMA ArgumentsTyped == ArgumentsSpec => []ArgumentsTypeOK
<1> DEFINE Word(i) == IF i = 1 THEN ModelWords ELSE Phrases
           Words == /\ command \in Seq(ModelWords \cup Phrases) /\ legacy \in Seq(LegacyGroups)
                     /\ current \in Seq(Entries) /\ changes \in Seq(Entries)
                     /\ ArgumentsTypeOK
<1>1. ArgumentsInit => Words
  <2> SUFFICES ASSUME ArgumentsInit PROVE Words
    OBVIOUS
  <2>1. /\ command \in Seq(ModelWords \cup Phrases) /\ Len(command) <= 1
        /\ \A i \in DOMAIN command : command[i] \in Word(i)
    <3>1. CASE command = <<>>
      BY <3>1
    <3>2. CASE \E w \in ModelWords : command = <<w>>
      BY <3>2
    <3> QED BY <3>1, <3>2 DEF ArgumentsInit
  <2>2. Len(command) <= MaxPhrases + 1
    BY <2>1, BoundsAssumption
  <2> QED BY <2>1, <2>2, BoundsAssumption DEF ArgumentsInit, Empty, ArgumentsTypeOK
<1>2. ASSUME Words, [ArgumentsNext]_ArgumentVars PROVE Words'
  <2>1. CASE UNCHANGED ArgumentVars
    BY <1>2, <2>1 DEF ArgumentVars, ArgumentsTypeOK
  <2>2. CASE TypesPhrase
    BY <1>2, <2>2, BoundsAssumption DEF TypesPhrase, ArgumentsTypeOK
  <2>3. CASE AddsLegacy
    BY <1>2, <2>3, BoundsAssumption DEF AddsLegacy, ArgumentsTypeOK
  <2>4. CASE AddsArgument
    BY <1>2, <2>4, BoundsAssumption DEF AddsArgument, ArgumentsTypeOK
  <2>5. CASE AddsChange
    BY <1>2, <2>5, BoundsAssumption DEF AddsChange, ArgumentsTypeOK
  <2>6. CASE AddsRemoval
    BY <1>2, <2>6 DEF AddsRemoval, ArgumentsTypeOK
  <2> QED BY <1>2, <2>1, <2>2, <2>3, <2>4, <2>5, <2>6 DEF ArgumentsNext
<1> QED BY <1>1, <1>2, PTL DEF ArgumentsSpec

\* So migrating and updating keep what nobody changed, for any catalog and any
\* number of arguments.
THEOREM ArgumentsAreKept == ArgumentsSpec => []ArgumentsKept
BY MigrationKeeps, MergeKeeps, ArgumentsTyped, PTL DEF ArgumentsKept

=============================================================================
