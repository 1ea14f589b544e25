------------------------------- MODULE Installs -------------------------------
(***************************************************************************)
(* What is installed on request: the benchmark tools (BenchmarkLinter:     *)
(* Node.js, ESLint, TypeScript and esbuild in one folder that is built in   *)
(* place) and llama.cpp runtimes (RuntimeInstaller: built in a staging     *)
(* folder and renamed).                                                    *)
(*                                                                         *)
(* The tool folder is the set of its parts that are there.  rmtree with    *)
(* ignore_errors may leave any of them (a file in use on Windows), and so  *)
(* may a crash while it runs.  An archive's content is "right" or "wrong". *)
(***************************************************************************)
EXTENDS Naturals

CONSTANTS
  Published,       \* assets of a release: [name, primary, backend, key, digest]
  Backends,        \* backends an install can ask for; "" is none
  MaxInstallCrashes \* bound: ends of the application

ASSUME InstallsAssumption ==
  /\ \A a \in Published : a.primary \in BOOLEAN /\ a.digest \in BOOLEAN
  /\ MaxInstallCrashes \in Nat

Parts == {"node", "eslint", "typescript", "config", "manifest"}

VARIABLES
  tools,     \* parts in the tool folder
  torn,      \* history: a removal of the folder left some of them
  toolTask,  \* the install task: "none", or where it is
  downloaded, \* its .download-eslint-* folder is there
  bench,     \* the active benchmark run, with the tools it was given
  overlap,   \* history: it began while an install was under way
  asked,     \* the runtime install: "none", "fetching", "probing" or "placed"
  group,     \* its assets
  extracted, \* [asset, content] in its staging folder
  staged,    \* that folder is there
  placed,    \* folders renamed into place, each the assets in it
  ends       \* crashes and restarts so far

InstallVars == <<tools, torn, toolTask, downloaded, bench, overlap, asked,
                 group, extracted, staged, placed, ends>>
toolVars == <<tools, torn, toolTask, downloaded, bench, overlap>>
runtimeVars == <<asked, group, extracted, staged, placed>>

NoBench == [on |-> FALSE, lint |-> FALSE, types |-> FALSE]

\* No tools, the tools of an earlier version (without TypeScript), or all.
InstallsInit ==
  /\ tools \in {{}, Parts \ {"typescript"}, Parts} /\ torn = FALSE
  /\ toolTask = "none" /\ downloaded = FALSE /\ bench = NoBench /\ overlap = FALSE
  /\ asked = "none" /\ group = {} /\ extracted = {} /\ staged = FALSE /\ placed = {}
  /\ ends = 0

----------------------------------------------------------------------------
(* Benchmark tools                                                         *)

Installed == {"manifest", "node", "eslint"} \subseteq tools
TypescriptInstalled == Installed /\ "typescript" \in tools
Outdated == Installed /\ ~TypescriptInstalled

\* rmtree(root, ignore_errors=True), and a remove that fails half-way.
Clears ==
  /\ tools' \in SUBSET tools
  /\ torn' = (tools' # {})

\* A variant: an outdated installation is replaced under a running benchmark.
InstallsToolsAnyTime ==
  /\ toolTask = "none" /\ ~(Installed /\ ~Outdated)
  /\ toolTask' = "scheduled"
  /\ UNCHANGED <<tools, torn, downloaded, bench, overlap, runtimeVars, ends>>

\* The install route: refused when it would replace tools a run may be using.
InstallsTools ==
  /\ ~(Installed /\ bench.on)
  /\ toolTask = "none" /\ ~(Installed /\ ~Outdated)
  /\ toolTask' = "scheduled"
  /\ UNCHANGED <<tools, torn, downloaded, bench, overlap, runtimeVars, ends>>

\* The task's first step, up to the download.
TaskBegins ==
  /\ toolTask = "scheduled" /\ Clears
  /\ downloaded' = TRUE /\ toolTask' = "fetching"
  /\ UNCHANGED <<bench, overlap, runtimeVars, ends>>

\* The archive is there and has its published checksum; root.mkdir refuses a
\* folder that could not be removed.
Extracts ==
  /\ toolTask = "fetching" /\ ~torn
  /\ tools' = {"node"} /\ toolTask' = "packages" /\ downloaded' = FALSE
  /\ UNCHANGED <<torn, bench, overlap, runtimeVars, ends>>

\* npm returns with every package there; then the configuration and, last, the
\* manifest are written.
InstallsPackages ==
  /\ toolTask = "packages"
  /\ tools' = tools \cup {"eslint", "typescript"} \cup {"config", "manifest"}
  /\ toolTask' = "none" /\ UNCHANGED <<torn, downloaded, bench, overlap, runtimeVars, ends>>

\* npm fails, or returns without one of the packages.
PackagesFail ==
  /\ toolTask = "packages"
  /\ \E some \in SUBSET {"eslint", "typescript"} :
       tools' \in SUBSET (tools \cup some) /\ torn' = (tools' # {})
  /\ toolTask' = "none" /\ UNCHANGED <<downloaded, bench, overlap, runtimeVars, ends>>

\* Anything before that fails: everything is removed again.
InstallFails ==
  /\ toolTask = "fetching" /\ Clears
  /\ toolTask' = "none" /\ downloaded' = FALSE
  /\ UNCHANGED <<bench, overlap, runtimeVars, ends>>

RemovesTools ==
  /\ ~bench.on /\ toolTask = "none" /\ Clears
  /\ UNCHANGED <<toolTask, downloaded, bench, overlap, runtimeVars, ends>>

\* start, with available_tools at that moment; the run's end.
BenchStarts ==
  /\ ~bench.on
  /\ bench' = [on |-> TRUE, lint |-> Installed, types |-> TypescriptInstalled]
  /\ overlap' = (toolTask # "none")
  /\ UNCHANGED <<tools, torn, toolTask, downloaded, runtimeVars, ends>>
BenchEnds ==
  /\ bench.on /\ bench' = NoBench /\ overlap' = FALSE
  /\ UNCHANGED <<tools, torn, toolTask, downloaded, runtimeVars, ends>>

----------------------------------------------------------------------------
(* Runtimes                                                                *)

\* group_runtime_assets: the archives of a backend, by primary archive.
Selected(backend) ==
  {a \in Published : a.backend = (IF backend = "cpu" THEN "" ELSE backend)}
AssetGroup(primary, backend) ==
  {primary} \cup {a \in Selected(backend) : /\ ~a.primary
                                            /\ a.key = primary.key \/ backend = "cuda"}

\* release: the assets that an install can be asked for.
Primaries(backend) == {a \in Selected(backend) : a.primary}

\* install, up to the first download: the group is found, the disk has room.
InstallRuntime(backend) ==
  /\ asked = "none"
  /\ \E primary \in Primaries(backend) : group' = AssetGroup(primary, backend)
  /\ asked' = "fetching" /\ extracted' = {} /\ staged' = TRUE
  /\ UNCHANGED <<placed, toolVars, ends>>

\* One asset has its published size and, if the release has one, its digest;
\* it is extracted into the payload.
FetchesAsset(asset, content) ==
  /\ asked = "fetching" /\ asset \in group /\ \A x \in extracted : x.asset # asset
  /\ asset.digest => content = "right"
  /\ extracted' = extracted \cup {[asset |-> asset, content |-> content]}
  /\ asked' = IF {x.asset : x \in extracted'} = group THEN "probing" ELSE "fetching"
  /\ UNCHANGED <<group, staged, placed, toolVars, ends>>

\* The probe found options: the payload gets a name of its own, the staging
\* folder goes.  Then the control plane registers it.
Places ==
  /\ asked = "probing" /\ placed' = placed \cup {extracted}
  /\ asked' = "placed" /\ staged' = FALSE /\ extracted' = {}
  /\ UNCHANGED <<group, toolVars, ends>>

\* A download, an extraction or the probe fails, or the turn that asked for the
\* install is stopped.
RuntimeFails ==
  /\ asked \in {"fetching", "probing"}
  /\ asked' = "none" /\ group' = {} /\ extracted' = {} /\ staged' = FALSE
  /\ UNCHANGED <<placed, toolVars, ends>>

\* register: the runtime gets its record, or its probe or its path is refused
\* and the folder stays without one.
Registers ==
  /\ asked = "placed" /\ asked' = "none" /\ group' = {}
  /\ UNCHANGED <<extracted, staged, placed, toolVars, ends>>

\* The application ends, also in the middle of a removal, and starts again.
InstallsCrash ==
  /\ ends < MaxInstallCrashes /\ ends' = ends + 1
  /\ IF toolTask = "scheduled" THEN Clears ELSE UNCHANGED <<tools, torn>>
  /\ toolTask' = "none" /\ bench' = NoBench /\ overlap' = FALSE
  /\ asked' = "none" /\ group' = {} /\ extracted' = {}
  /\ UNCHANGED <<downloaded, staged, placed>>

InstallsNext ==
  \/ InstallsTools \/ TaskBegins \/ Extracts \/ InstallsPackages \/ PackagesFail
  \/ InstallFails \/ RemovesTools \/ BenchStarts \/ BenchEnds
  \/ \E backend \in Backends : InstallRuntime(backend)
  \/ \E asset \in Published, content \in {"right", "wrong"} : FetchesAsset(asset, content)
  \/ Places \/ RuntimeFails \/ Registers \/ InstallsCrash

InstallsSpec == InstallsInit /\ [][InstallsNext]_InstallVars

----------------------------------------------------------------------------
(* Properties                                                              *)

InstallsTypeOK ==
  /\ tools \subseteq Parts /\ torn \in BOOLEAN /\ downloaded \in BOOLEAN
  /\ toolTask \in {"none", "scheduled", "fetching", "packages"}
  /\ bench \in [on : BOOLEAN, lint : BOOLEAN, types : BOOLEAN]
  /\ asked \in {"none", "fetching", "probing", "placed"} /\ group \subseteq Published
  /\ ends \in 0..MaxInstallCrashes

\* Tools that count as installed can be run: the manifest is only there with
\* the configuration, unless a removal was cut short.
InstalledIsComplete == Installed /\ ~torn => "config" \in tools

\* A running benchmark keeps the tools it was given, unless it began while an
\* install had yet to clear the folder, or had failed to.
RunKeepsTools ==
  bench.on /\ ~overlap => /\ bench.lint => Installed
                          /\ bench.types => TypescriptInstalled

\* A runtime folder that can be registered holds every asset of its group, each
\* with its published digest.
PlacedIsVerified ==
  \A folder \in placed :
    /\ \E primary \in Published, backend \in Backends :
         {x.asset : x \in folder} = AssetGroup(primary, backend)
    /\ \A x \in folder : x.asset.digest => x.content = "right"

\* Only a crash leaves a staging folder behind.
StagingIsRemoved ==
  ends = 0 => /\ staged => asked \in {"fetching", "probing"}
              /\ downloaded => toolTask = "fetching"

\* An install is complete, verified and not replaced under its user.
InstallsSound ==
  /\ InstallsTypeOK /\ InstalledIsComplete /\ RunKeepsTools
  /\ PlacedIsVerified /\ StagingIsRemoved
=============================================================================
