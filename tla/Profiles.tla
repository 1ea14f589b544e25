------------------------------- MODULE Profiles -------------------------------
(***************************************************************************)
(* Model profiles: ProfileRegistry, ProfileSnapshotRegistry, the profile   *)
(* routes of app.py, the assistant's profile tools and the recommended     *)
(* profiles (services/recommendations.py), with the downloads a profile    *)
(* waits on and restarts of the application with a newer catalog.          *)
(*                                                                         *)
(* Registry calls run on the event loop without an await, so each request  *)
(* is one step.  A profile's arguments are one of four settings; its file  *)
(* locations are the model and the draft of one recommendation.            *)
(***************************************************************************)
EXTENDS Naturals, FiniteSets

CONSTANTS
  ProfileIds, Aliases,
  MaxEdits,       \* bound: changes by the operator and the assistant
  MaxVersion,     \* bound: version numbers
  MaxMoves,       \* bound: downloads failed, paused, resumed, deleted...
  MaxProfileBoots,\* bound: restarts of the application
  BundledAlias    \* the alias the bundled recommendation uses

ASSUME ProfilesAssumption == MaxVersion \in Nat \ {0, 1} \* there are two releases

VARIABLES
  profiles,   \* the stored records
  snapshots,  \* the stored snapshots
  made,       \* profiles created by the assistant's conversation
  job, file,  \* download of the model and of its draft: state, files complete
  hooking,    \* completed downloads whose on_completed has not run
  running,    \* the router: "stopped", "starting" (probing its port) or "live"
  release,    \* argument catalog and recommendations of the running program
  serving,    \* the application runs
  decided,    \* history: profiles last switched by an explicit request
  changed,    \* history: profiles the assistant's conversation has updated
  edits, moves, profileBoots

ProfileVars == <<profiles, snapshots, made, job, file, hooking, running,
                 release, serving, decided, changed, edits, moves,
                 profileBoots>>
downloads == <<job, file, hooking, moves>>
system == <<running, release, serving, profileBoots>>

Jobs == {"model", "draft"}
States == {"none", "queued", "active", "paused", "failed", "cancelled", "completed"}
ActiveDownload == {"queued", "active", "paused"}
Reusable == ActiveDownload \cup {"completed"}
Settings == {"rec1", "rec2", "own", "bare"}
Recommended(r) == IF r = 1 THEN "rec1" ELSE "rec2"
NoWait == "-"

\* Everything that decides how the profile launches.
Launch(p) == [args |-> p.args, located |-> p.located, draft |-> p.draft]
Existing == DOMAIN profiles
With(i, p) == [k \in Existing \cup {i} |-> IF k = i THEN p ELSE profiles[k]]
Free(alias) == \A i \in Existing : profiles[i].alias # alias

\* render_preset: a section with the profile's name and its options.
Rendered(p) == [name |-> p.alias, launch |-> Launch(p)]
\* validate_profile: a missing model is an error, a missing draft a warning.
Validates(p) == p.located /\ file["model"]
Modified(p) == p.baseline # p.args

\* The settings of one record, as a new record stores them.
Stored(alias, args, located, draft, on, version, baseline) ==
  [alias |-> alias, args |-> args, located |-> located, draft |-> draft,
   enabled |-> on, waits |-> NoWait, version |-> version, baseline |-> baseline,
   preset |-> [name |-> alias, launch |-> [args |-> args, located |-> located, draft |-> draft]]]
WithPreset(p) == [p EXCEPT !.preset = Rendered(p)]

ProfilesInit ==
  /\ profiles = <<>> /\ snapshots = {} /\ made = {}
  /\ job = [j \in Jobs |-> "none"] /\ file = [j \in Jobs |-> FALSE] /\ hooking = {}
  /\ running = "stopped" /\ release = 1 /\ serving = TRUE
  /\ decided = {} /\ changed = {} /\ edits = 0 /\ moves = 0
  /\ profileBoots = 0

\* Within the bound on changes.
Request == serving /\ edits < MaxEdits /\ edits' = edits + 1
\* _require_router_stopped: edits wait for a router that is stopped, which it
\* still is while a start probes its port.
RouterStopped == running # "live"

----------------------------------------------------------------------------
(* Creating                                                                *)

\* create: a profile of the operator's (the form, an imported file or command,
\* the assistant's tool) on a model that is there.
CreateProfile(i, alias, on, byAssistant) ==
  LET p == Stored(alias, "own", TRUE, FALSE, on, 1, NoWait)
  IN  /\ Request /\ i \notin Existing /\ Free(alias) /\ Validates(p)
      /\ profiles' = With(i, p)
      /\ made' = IF byAssistant THEN made \cup {i} ELSE made
      /\ decided' = decided \cup {i}
      /\ UNCHANGED <<snapshots, changed, downloads, system>>

\* create_unresolved_import: kept for repair, with a preset of its own name only.
ImportUnresolved(i, alias) ==
  LET p == Stored(alias, "own", FALSE, FALSE, FALSE, 1, NoWait)
  IN  /\ Request /\ i \notin Existing /\ Free(alias)
      /\ profiles' = With(i, [p EXCEPT !.preset.launch.args = "bare"])
      /\ UNCHANGED <<snapshots, made, decided, changed, downloads, system>>

\* clone: the copy keeps the stored preset, and is neither enabled nor linked.
Clone(source, i, alias, byAssistant) ==
  /\ Request /\ source \in Existing /\ i \notin Existing /\ Free(alias)
  /\ profiles' = With(i,
       [profiles[source] EXCEPT !.alias = alias, !.enabled = FALSE,
                                !.waits = NoWait, !.baseline = NoWait])
  /\ made' = IF byAssistant THEN made \cup {i} ELSE made
  /\ UNCHANGED <<snapshots, decided, changed, downloads, system>>

\* _start: a new download starts, a paused one resumes, a finished one whose
\* files have gone missing is fetched again; a queued one is left as it is.
Started(j) ==
  CASE job[j] \in {"none", "paused"} -> "active"
    [] job[j] = "completed" /\ ~file[j] -> "active"
    [] OTHER -> job[j]

\* check_pending: the alias is free; files that are still to come are no error.
CheckPending(alias) == Free(alias)
\* create_pending: the record of a profile that is off until its download ends.
CreatePending(p, waits) == [p EXCEPT !.waits = waits, !.enabled = FALSE]

\* apply_recommendation: reuse or start the downloads, add the profile, and
\* let it wait on the first file that is not complete.
Apply(i, alias) ==
  LET ready == [j \in Jobs |-> job[j] = "completed" /\ file[j]]
      p == Stored(alias, Recommended(release), TRUE, TRUE, TRUE, release, Recommended(release))
      waits == IF ready["model"] THEN "draft" ELSE "model"
  IN  /\ Request /\ i \notin Existing /\ CheckPending(alias)
      /\ \A j \in Jobs : job[j] \in Reusable \cup {"none"}
      /\ ~\E q \in Existing : /\ \A j \in Jobs : job[j] # "none"
                              /\ Launch(profiles[q]) = Launch(p)
      /\ profiles' = With(i, IF \A j \in Jobs : ready[j] THEN p ELSE CreatePending(p, waits))
      /\ job' = [j \in Jobs |-> Started(j)]
      /\ UNCHANGED <<snapshots, made, decided, changed, file, hooking, moves, system>>

\* The second download is refused (no space): the first one has been created
\* and nothing starts it.
ApplyRefused ==
  /\ Request /\ job["model"] = "none" /\ job["draft"] = "none"
  /\ job' = [job EXCEPT !["model"] = "queued"]
  /\ UNCHANGED <<profiles, snapshots, made, decided, changed, file, hooking, moves,
                 system>>

----------------------------------------------------------------------------
(* Changing                                                                *)

\* update: settings, alias and the switch are saved together, the preset is
\* rendered again and a wait for a download is dropped.
Updated(p, alias, args, located, draft, on, version, baseline) ==
  WithPreset([p EXCEPT !.alias = alias, !.args = args, !.located = located,
                       !.draft = draft, !.enabled = on, !.waits = NoWait,
                       !.version = version, !.baseline = baseline])

\* next_profile_version: a recommended profile keeps its version.
NextVersion(p, args, located) ==
  IF p.baseline = NoWait /\ (args # p.args \/ located # p.located)
  THEN p.version + 1 ELSE p.version

\* A save under an alias no other profile has, with its wait for a download
\* dropped and the switch as requested.
Saves(i, p) ==
  /\ \A k \in Existing \ {i} : profiles[k].alias # p.alias
  /\ Validates(p) /\ p.version <= MaxVersion
  /\ profiles' = [profiles EXCEPT ![i] = p]

\* The operator saves the editor's form.
Edit(i, alias, args, on) ==
  /\ Request /\ i \in Existing /\ RouterStopped
  /\ LET p == profiles[i]
     IN  Saves(i, Updated(p, alias, args, TRUE, p.draft, on,
                          NextVersion(p, args, TRUE), p.baseline))
  /\ decided' = decided \cup {i}
  /\ UNCHANGED <<snapshots, made, changed, downloads, system>>

\* A variant: the choice leaves the wait for a download, which is then acted on.
SetEnabledStillWaiting(i, on) ==
  /\ Request /\ i \in Existing
  /\ on => Validates(profiles[i])
  /\ profiles' = [profiles EXCEPT ![i].enabled = on]
  /\ decided' = decided \cup {i}
  /\ UNCHANGED <<snapshots, made, changed, downloads, system>>

SetEnabled(i, on) ==
  /\ Request /\ i \in Existing
  /\ on => Validates(profiles[i])
  /\ profiles' = [profiles EXCEPT ![i].enabled = on, ![i].waits = NoWait]
  /\ decided' = decided \cup {i}
  /\ UNCHANGED <<snapshots, made, changed, downloads, system>>

Reset(i) ==
  /\ Request /\ i \in Existing /\ Validates(profiles[i])
  /\ LET p == [profiles[i] EXCEPT !.args = "bare", !.draft = FALSE]
     IN  profiles' = [profiles EXCEPT ![i] = WithPreset(p)]
  /\ UNCHANGED <<snapshots, made, decided, changed, downloads, system>>

RemoveProfile(i) ==
  /\ Request /\ i \in Existing
  /\ profiles' = [k \in Existing \ {i} |-> profiles[k]]
  /\ decided' = decided \ {i} /\ made' = made \ {i}
  /\ changed' = changed \ {i}
  /\ snapshots' = {s \in snapshots : s.of # i}
  /\ UNCHANGED <<downloads, system>>

\* upgrade_recommended_profile: only a profile that was not changed moves to
\* the bundled version; its files and its switch are kept.
Upgrade(i) ==
  /\ Request /\ i \in Existing
  /\ LET p == profiles[i]
         q == Updated(p, p.alias, Recommended(release), p.located, p.draft,
                      p.enabled, release, Recommended(release))
     IN  /\ p.baseline # NoWait /\ p.version < release /\ ~Modified(p)
         /\ Saves(i, q)
  /\ UNCHANGED <<snapshots, made, decided, changed, downloads, system>>

----------------------------------------------------------------------------
(* Snapshots                                                               *)

\* ProfileSnapshotRegistry.create.  clean is history: the conversation had
\* not updated the profile, since it was last counted, when this was taken.
Snapshot(i, byAssistant) ==
  [of |-> i, conversation |-> byAssistant, launch |-> Launch(profiles[i]),
   enabled |-> profiles[i].enabled, version |-> profiles[i].version,
   clean |-> i \notin changed]

\* The route and the assistant's create_snapshot.
TakeSnapshot(i, byAssistant) ==
  /\ Request /\ i \in Existing
  /\ snapshots' = snapshots \cup {Snapshot(i, byAssistant)}
  /\ UNCHANGED <<profiles, made, decided, changed, downloads, system>>

\* delete: the operator gives a way back up; the profile's changes, and the
\* snapshots from before them, are counted anew.
DeleteSnapshot(s) ==
  /\ Request
  /\ snapshots' = {[t EXCEPT !.clean = @ \/ t.of = s.of] : t \in snapshots \ {s}}
  /\ changed' = changed \ {s.of}
  /\ UNCHANGED <<profiles, made, decided, downloads, system>>

\* restore: everything but the alias and the recommendation it is linked to.
Restore(s) ==
  /\ Request
  /\ LET p == profiles[s.of]
         q == Updated(p, p.alias, s.launch.args, s.launch.located,
                      s.launch.draft, s.enabled, s.version, p.baseline)
     IN  Saves(s.of, q)
  /\ decided' = decided \cup {s.of}
  /\ UNCHANGED <<snapshots, made, changed, downloads, system>>

\* snapshot_once: before the conversation's first change of a profile it did
\* not make itself.
SnapshotOnce(i) ==
  IF i \in made \/ \E s \in snapshots : s.of = i /\ s.conversation
  THEN snapshots ELSE snapshots \cup {Snapshot(i, TRUE)}

\* The assistant's update_profile: a valid change, with the switch left as it
\* is or set.
AssistantUpdate(i, args, on) ==
  /\ Request /\ i \in Existing /\ RouterStopped
  /\ LET p == profiles[i]
         q == Updated(p, p.alias, args, p.located, p.draft, on,
                      NextVersion(p, args, p.located), p.baseline)
     IN  /\ args # p.args \/ on # p.enabled
         /\ Saves(i, q)
         /\ decided' = IF on # p.enabled THEN decided \cup {i} ELSE decided
  /\ snapshots' = SnapshotOnce(i)
  /\ changed' = changed \cup {i}
  /\ UNCHANGED <<made, downloads, system>>

----------------------------------------------------------------------------
(* Downloads, the router and restarts                                      *)

\* _unfinished_download: another download under way for the profile's files.
Unfinished(p) ==
  IF p.located /\ job["model"] \in ActiveDownload THEN "model"
  ELSE IF p.draft /\ job["draft"] \in ActiveDownload THEN "draft"
  ELSE NoWait

\* enable_ready for one profile that waits on a completed download: wait on
\* the next one, switch on, or give up when the model is not there.
Ready(p) ==
  CASE Unfinished(p) # NoWait -> [p EXCEPT !.waits = Unfinished(p)]
    [] Unfinished(p) = NoWait /\ Validates(p) ->
         WithPreset([p EXCEPT !.waits = NoWait, !.enabled = TRUE])
    [] OTHER -> [p EXCEPT !.waits = NoWait]
EnableReady(j) ==
  [i \in Existing |-> IF profiles[i].waits = j THEN Ready(profiles[i])
                      ELSE profiles[i]]

untouched == <<snapshots, made, decided, changed, edits, release, profileBoots>>

Completes(j) ==
  /\ serving /\ job[j] = "active"
  /\ job' = [job EXCEPT ![j] = "completed"] /\ file' = [file EXCEPT ![j] = TRUE]
  /\ hooking' = hooking \cup {j}
  /\ UNCHANGED <<profiles, moves, running, serving, untouched>>

\* _task_finished: the callback looks at the state the job has by then.
Hook(j) ==
  /\ serving /\ j \in hooking /\ hooking' = hooking \ {j}
  /\ profiles' = IF job[j] = "completed" THEN EnableReady(j) ELSE profiles
  /\ UNCHANGED <<job, file, moves, running, serving, untouched>>

Moved == serving /\ moves < MaxMoves /\ moves' = moves + 1
\* A job fails, is paused or cancelled, resumed, or downloaded again.
MoveJob(j, from, to) ==
  /\ Moved /\ job[j] \in from /\ job' = [job EXCEPT ![j] = to]
  /\ UNCHANGED <<profiles, file, hooking, running, serving, untouched>>
Fails(j) == MoveJob(j, {"active"}, "failed")
Pauses(j) == MoveJob(j, {"active"}, "paused")
Cancels(j) == MoveJob(j, ActiveDownload \cup {"failed"}, "cancelled")
Resumes(j) == MoveJob(j, {"paused", "failed"}, "active")
Downloaded(j) == MoveJob(j, {"none"}, "active")
Redownloads(j) == RouterStopped /\ MoveJob(j, {"completed"}, "active")

\* ModelArtifactRegistry.delete: the files go, the job stays completed.
DeletesFiles(j) ==
  /\ Moved /\ RouterStopped /\ job[j] = "completed" /\ file[j]
  /\ file' = [file EXCEPT ![j] = FALSE]
  /\ UNCHANGED <<profiles, job, hooking, running, serving, untouched>>

\* start_router_locked up to the probe of the port: the stored presets of the
\* enabled profiles, which combine_presets joins if their names differ.
Enabled == {i \in Existing : profiles[i].enabled}
StartRouter ==
  /\ serving /\ running = "stopped" /\ Enabled # {}
  /\ \A i \in Enabled : Validates(profiles[i])
  /\ \A i, k \in Enabled : profiles[i].preset.name = profiles[k].preset.name => i = k
  /\ running' = "starting"
  /\ UNCHANGED <<profiles, snapshots, made, decided, changed, edits, downloads,
                 release, serving, profileBoots>>

RouterMoves ==
  /\ serving
  /\ \/ running = "starting" /\ running' \in {"live", "stopped"}
     \/ running = "live" /\ running' = "stopped"
  /\ UNCHANGED <<profiles, downloads, serving, untouched>>

ApplicationEnds ==
  /\ serving /\ profileBoots < MaxProfileBoots
  /\ serving' = FALSE /\ hooking' = {} /\ running' = "stopped"
  /\ UNCHANGED <<profiles, job, file, moves, untouched>>

\* link_unchanged_profiles: a profile that has exactly the bundled settings.
Linked(p, r) ==
  IF /\ p.args = Recommended(r)
     /\ p.baseline = NoWait => p.alias = BundledAlias
     /\ p.baseline # NoWait => p.version < r
  THEN [p EXCEPT !.baseline = Recommended(r), !.version = r] ELSE p

\* A variant: no enable_ready for the downloads that finished unseen.
BootsWithoutCatchUp(interrupted, r) ==
  LET refreshed(p) == IF Validates(p) THEN WithPreset(p) ELSE p
  IN  /\ ~serving /\ serving' = TRUE /\ profileBoots' = profileBoots + 1
      /\ release <= r /\ release' = r
      /\ interrupted \subseteq {j \in Jobs : job[j] = "active"}
      /\ job' = [j \in Jobs |-> CASE j \in interrupted -> "paused"
                                  [] job[j] = "queued" -> "active"
                                  [] OTHER -> job[j]]
      /\ profiles' = [i \in Existing |-> Linked(refreshed(profiles[i]), r)]
      /\ UNCHANGED <<snapshots, made, decided, changed, edits, file, hooking,
                     moves, running>>

\* The lifespan of app.py: refresh_presets, start_pending, enable_ready for
\* the downloads that finished unseen, link_unchanged_profiles.
Boots(interrupted, r) ==
  LET refreshed(p) == IF Validates(p) THEN WithPreset(p) ELSE p
      caughtUp(p) == IF p.waits # NoWait /\ job[p.waits] = "completed"
                     THEN Ready(p) ELSE p
  IN  /\ ~serving /\ serving' = TRUE /\ profileBoots' = profileBoots + 1
      /\ release <= r /\ release' = r
      /\ interrupted \subseteq {j \in Jobs : job[j] = "active"}
      /\ job' = [j \in Jobs |-> CASE j \in interrupted -> "paused"
                                  [] job[j] = "queued" -> "active"
                                  [] OTHER -> job[j]]
      /\ profiles' = [i \in Existing |->
                       Linked(caughtUp(refreshed(profiles[i])), r)]
      /\ UNCHANGED <<snapshots, made, decided, changed, edits, file, hooking,
                     moves, running>>

----------------------------------------------------------------------------
(* Requests: the routes of app.py and the tools of the assistant           *)

PostProfile(i, alias, on) == CreateProfile(i, alias, on, FALSE)
\* An exported profile: without its model file it is kept for repair.
ImportFile(i, alias, on) == CreateProfile(i, alias, on, FALSE) \/ ImportUnresolved(i, alias)
ImportCommand(i, alias) == CreateProfile(i, alias, FALSE, FALSE)
ImportModel(i, alias) == CreateProfile(i, alias, FALSE, FALSE)
ToolCreate(i, alias, on) == CreateProfile(i, alias, on, TRUE)
CloneRoute(source, i, alias) == Clone(source, i, alias, FALSE)
ToolClone(source, i, alias) == Clone(source, i, alias, TRUE)
ApplyRoute(i, alias) == Apply(i, alias) \/ ApplyRefused
EnabledRoute(i, on) == RouterStopped /\ SetEnabled(i, on)
ResetRoute(i) == RouterStopped /\ Reset(i)
DeleteRoute(i) == RouterStopped /\ RemoveProfile(i)
ToolDelete(i) == RouterStopped /\ RemoveProfile(i)
UpgradeRoute(i) == RouterStopped /\ Upgrade(i)
SnapshotRoute(i) == TakeSnapshot(i, FALSE)
ToolSnapshot(i) == TakeSnapshot(i, TRUE)
RestoreRoute(s) == RouterStopped /\ Restore(s)
ToolRestore(s) == RouterStopped /\ Restore(s)

Creations(i, alias) ==
  \/ \E on \in BOOLEAN : PostProfile(i, alias, on)
  \/ ImportFile(i, alias, TRUE) \/ ImportCommand(i, alias) \/ ImportModel(i, alias)
  \/ ToolCreate(i, alias, TRUE) \/ ApplyRoute(i, alias)
  \/ \E source \in ProfileIds : CloneRoute(source, i, alias) \/ ToolClone(source, i, alias)

Changes(i) ==
  \/ \E alias \in Aliases, args \in {"own", "rec2"}, on \in BOOLEAN : Edit(i, alias, args, on)
  \/ \E on \in BOOLEAN : EnabledRoute(i, on)
  \/ ResetRoute(i) \/ DeleteRoute(i) \/ ToolDelete(i) \/ UpgradeRoute(i)
  \/ SnapshotRoute(i) \/ ToolSnapshot(i)
  \/ \E args \in {"own", "bare"}, on \in BOOLEAN : AssistantUpdate(i, args, on)

DownloadSteps ==
  \E j \in Jobs : \/ Completes(j) \/ Hook(j) \/ Fails(j) \/ Pauses(j) \/ Cancels(j)
                  \/ Resumes(j) \/ Downloaded(j) \/ Redownloads(j) \/ DeletesFiles(j)

ProfilesNext ==
  \/ \E i \in ProfileIds, alias \in Aliases : Creations(i, alias)
  \/ \E i \in ProfileIds : Changes(i)
  \/ \E s \in snapshots : DeleteSnapshot(s) \/ RestoreRoute(s) \/ ToolRestore(s)
  \/ DownloadSteps
  \/ StartRouter \/ RouterMoves \/ ApplicationEnds
  \/ \E interrupted \in SUBSET Jobs, r \in 1..2 : Boots(interrupted, r)

ProfilesSpec == ProfilesInit /\ [][ProfilesNext]_ProfileVars

----------------------------------------------------------------------------
(* Properties                                                              *)

ProfilesTypeOK ==
  /\ Existing \subseteq ProfileIds
  /\ \A i \in Existing :
       /\ profiles[i].alias \in Aliases /\ profiles[i].args \in Settings
       /\ profiles[i].waits \in Jobs \cup {NoWait}
       /\ profiles[i].version \in 1..MaxVersion
       /\ profiles[i].baseline \in Settings \cup {NoWait}
  /\ \A i, k \in Existing : profiles[i].alias = profiles[k].alias => i = k
  /\ job \in [Jobs -> States] /\ file \in [Jobs -> BOOLEAN] /\ hooking \subseteq Jobs
  /\ running \in {"stopped", "starting", "live"} /\ release \in 1..2

\* No profile waits on a download that has completed: its switch-on is on its
\* way or was decided, whatever crash came between the two.
WaitingIsSettled ==
  serving => \A i \in Existing, j \in Jobs :
    profiles[i].waits = j => job[j] # "completed" \/ j \in hooking

\* What the router is given for an enabled profile is what the profile shows.
PresetIsOwn ==
  \A i \in Enabled : profiles[i].preset.launch = Launch(profiles[i])

\* A profile that a conversation changed, and did not make, has a snapshot
\* from before that change, and from before any other since a snapshot of it
\* was last deleted.
UndoIsKept ==
  \A i \in changed \ made : \E s \in snapshots : s.of = i /\ s.clean

\* Stored profiles agree with the downloads they wait on, with the presets
\* the router is given and with the snapshots that undo the assistant's work.
ProfilesConsistent == ProfilesTypeOK /\ WaitingIsSettled /\ PresetIsOwn /\ UndoIsKept

\* What an operator chose is not undone behind their back: no download, hook
\* or restart changes a switch that was set by hand, and an upgrade never
\* replaces settings that are not a recommendation's.
ChoicesStand ==
  [][/\ edits' = edits => \A i \in decided : profiles'[i].enabled = profiles[i].enabled
     /\ \A i \in ProfileIds : Upgrade(i) => profiles[i].args # "own"]_ProfileVars
=============================================================================
