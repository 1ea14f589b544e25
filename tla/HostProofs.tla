------------------------------ MODULE HostProofs ------------------------------
(***************************************************************************)
(* Theorems about what the host holds: the installed runtimes and tools of *)
(* Installs, the model files of Library, what MemoryFit puts on the GPU,   *)
(* the login buckets of LoginThrottle and the texts and files of TextEdit  *)
(* and Workspace.  Each part has an inductive invariant of its own, and    *)
(* shares no variable with the others.                                     *)
(***************************************************************************)
EXTENDS Installs, Library, MemoryFit, Workspace, LoginThrottle,
        FiniteSetTheorems, WellFoundedInduction, TLAPS

(***************************************************************************)
(* Installs.  What was extracted so far belongs to the group that was      *)
(* asked for and was checked; a tool folder is written only while no run   *)
(* uses it.                                                                *)
(***************************************************************************)

\* A tool folder that counts as installed stays as it is while a run has tools
\* of it; and no install is under way then.
ToolsOK ==
  /\ InstalledIsComplete /\ RunKeepsTools
  /\ bench.on /\ ~overlap /\ (bench.lint \/ bench.types) => toolTask = "none"

\* What was extracted so far belongs to the install's group and was checked.
Checked(folder) == \A x \in folder : x.asset.digest => x.content = "right"
RuntimeOK ==
  /\ PlacedIsVerified /\ Checked(extracted)
  /\ asked \in {"fetching", "probing"} =>
       \E primary \in Published, backend \in Backends : group = AssetGroup(primary, backend)
  /\ asked = "probing" => {x.asset : x \in extracted} = group

InstallsIInv == InstallsTypeOK /\ ToolsOK /\ RuntimeOK /\ StagingIsRemoved

----------------------------------------------------------------------------

\* It holds at first.
LEMMA InstallsStart == InstallsInit => InstallsIInv
<1> SUFFICES ASSUME InstallsInit PROVE InstallsIInv
  OBVIOUS
<1>1. /\ tools \in {{}, Parts \ {"typescript"}, Parts} /\ torn = FALSE
      /\ toolTask = "none" /\ downloaded = FALSE /\ bench = NoBench /\ overlap = FALSE
      /\ asked = "none" /\ group = {} /\ extracted = {} /\ staged = FALSE /\ placed = {}
      /\ ends = 0
  BY DEF InstallsInit
<1>2. bench \in [on : BOOLEAN, lint : BOOLEAN, types : BOOLEAN] /\ ~bench.on
  BY <1>1 DEF NoBench
<1>3. tools \subseteq Parts /\ (Installed => "config" \in tools)
  BY <1>1 DEF Parts, Installed
<1>4. ends \in 0..MaxInstallCrashes /\ {} \subseteq Published
  BY <1>1, InstallsAssumption
<1>6. InstallsTypeOK
  BY <1>1, <1>2, <1>3, <1>4 DEF InstallsTypeOK
<1>5. ToolsOK /\ RuntimeOK /\ StagingIsRemoved
  BY <1>1, <1>2, <1>3
     DEF ToolsOK, RuntimeOK, StagingIsRemoved, InstalledIsComplete, RunKeepsTools,
         PlacedIsVerified, Checked
<1> QED BY <1>5, <1>6 DEF InstallsIInv

\* A step of the tools leaves the runtimes alone.
LEMMA RuntimeRest == ASSUME RuntimeOK, UNCHANGED runtimeVars PROVE RuntimeOK'
BY DEF RuntimeOK, runtimeVars, PlacedIsVerified, Checked

\* ... and the other way round.
LEMMA ToolsRest == ASSUME ToolsOK, UNCHANGED toolVars PROVE ToolsOK'
BY DEF ToolsOK, toolVars, InstalledIsComplete, RunKeepsTools, Installed, TypescriptInstalled

\* A folder that is cleared is empty or torn.
LEMMA ClearsTools ==
  ASSUME InstallsTypeOK, Clears
  PROVE  tools' \subseteq tools /\ torn' \in BOOLEAN /\ InstalledIsComplete'
BY DEF Clears, InstalledIsComplete, Installed, InstallsTypeOK

\* The steps of an install of the tools, up to its end.
LEMMA ToolInstalls ==
  ASSUME InstallsIInv,
         InstallsTools \/ TaskBegins \/ Extracts \/ InstallsPackages \/ PackagesFail \/ InstallFails
  PROVE  InstallsIInv'
<1> USE DEF InstallsIInv
<1>1. UNCHANGED <<bench, overlap, runtimeVars, ends>>
  BY DEF InstallsTools, TaskBegins, Extracts, InstallsPackages, PackagesFail, InstallFails
<1>2. RuntimeOK'
  BY <1>1, RuntimeRest
<1>3. tools' \subseteq Parts /\ torn' \in BOOLEAN /\ InstalledIsComplete'
  <2>1. CASE InstallsTools
    BY <2>1 DEF InstallsTools, InstallsTypeOK, ToolsOK, InstalledIsComplete, Installed
  <2>2. CASE TaskBegins \/ InstallFails
    BY <2>2, ClearsTools DEF TaskBegins, InstallFails, InstallsTypeOK
  <2>3. CASE Extracts
    BY <2>3 DEF Extracts, InstallsTypeOK, InstalledIsComplete, Installed, Parts
  <2>4. CASE InstallsPackages
    BY <2>4 DEF InstallsPackages, InstallsTypeOK, InstalledIsComplete, Installed, Parts
  <2>5. CASE PackagesFail
    <3>1. tools' \subseteq Parts
      BY <2>5 DEF PackagesFail, InstallsTypeOK, Parts
    <3>2. torn' = (tools' # {})
      BY <2>5 DEF PackagesFail
    <3> QED BY <3>1, <3>2 DEF InstalledIsComplete, Installed
  <2> QED BY <2>1, <2>2, <2>3, <2>4, <2>5
<1>4. bench.on /\ ~overlap => ~bench.lint /\ ~bench.types
  <2>1. CASE InstallsTools
    BY <2>1 DEF InstallsTools, ToolsOK, RunKeepsTools, TypescriptInstalled
  <2>2. CASE ~InstallsTools
    BY <2>2 DEF TaskBegins, Extracts, InstallsPackages, PackagesFail, InstallFails, ToolsOK
  <2> QED BY <2>1, <2>2
<1>5. ToolsOK'
  BY <1>1, <1>3, <1>4 DEF ToolsOK, RunKeepsTools
<1>6. /\ toolTask' \in {"none", "scheduled", "fetching", "packages"}
      /\ downloaded' \in BOOLEAN
      /\ (downloaded => toolTask = "fetching") => (downloaded' => toolTask' = "fetching")
  <2>1. CASE InstallsTools
    BY <2>1 DEF InstallsTypeOK, InstallsTools
  <2>2. CASE TaskBegins
    BY <2>2 DEF InstallsTypeOK, TaskBegins
  <2>3. CASE Extracts \/ InstallFails
    BY <2>3 DEF InstallsTypeOK, Extracts, InstallFails
  <2>4. CASE InstallsPackages \/ PackagesFail
    <3>1. toolTask = "packages" /\ toolTask' = "none" /\ downloaded' = downloaded
      BY <2>4 DEF InstallsPackages, PackagesFail
    <3> QED BY <3>1 DEF InstallsTypeOK
  <2> QED BY <2>1, <2>2, <2>3, <2>4
<1>7. InstallsTypeOK'
  BY <1>1, <1>3, <1>6 DEF InstallsTypeOK, runtimeVars
<1>8. StagingIsRemoved'
  BY <1>1, <1>6 DEF StagingIsRemoved, runtimeVars
<1> QED BY <1>2, <1>5, <1>7, <1>8

\* The tools are removed, a run begins or ends.
LEMMA ToolUses ==
  ASSUME InstallsIInv, RemovesTools \/ BenchStarts \/ BenchEnds
  PROVE  InstallsIInv'
<1> USE DEF InstallsIInv
<1>1. UNCHANGED <<toolTask, downloaded, runtimeVars, ends>>
  BY DEF RemovesTools, BenchStarts, BenchEnds
<1>2. RuntimeOK' /\ StagingIsRemoved'
  BY <1>1, RuntimeRest DEF StagingIsRemoved, runtimeVars
<1>3. CASE RemovesTools
  <2>1. tools' \subseteq tools /\ torn' \in BOOLEAN /\ InstalledIsComplete'
    BY <1>3, ClearsTools DEF RemovesTools
  <2>2. ~bench.on /\ UNCHANGED <<bench, overlap>>
    BY <1>3 DEF RemovesTools
  <2> QED BY <1>1, <1>2, <2>1, <2>2 DEF ToolsOK, RunKeepsTools, InstallsTypeOK, runtimeVars
<1>4. CASE BenchStarts
  <2>1. /\ bench' = [on |-> TRUE, lint |-> Installed, types |-> TypescriptInstalled]
        /\ overlap' = (toolTask # "none") /\ UNCHANGED <<tools, torn>>
    BY <1>4 DEF BenchStarts
  <2>2. Installed \in BOOLEAN /\ TypescriptInstalled \in BOOLEAN
    BY DEF Installed, TypescriptInstalled
  <2>3. bench' \in [on : BOOLEAN, lint : BOOLEAN, types : BOOLEAN]
    BY <2>1, <2>2
  <2>4. ToolsOK'
    BY <1>1, <2>1
       DEF ToolsOK, RunKeepsTools, InstalledIsComplete, Installed, TypescriptInstalled
  <2> QED BY <1>1, <1>2, <2>1, <2>3, <2>4 DEF InstallsTypeOK, runtimeVars
<1>5. CASE BenchEnds
  <2>1. /\ bench' = NoBench /\ UNCHANGED <<tools, torn>>
        /\ bench' \in [on : BOOLEAN, lint : BOOLEAN, types : BOOLEAN] /\ ~bench'.on
    BY <1>5 DEF BenchEnds, NoBench
  <2> QED BY <1>1, <1>2, <2>1
          DEF ToolsOK, RunKeepsTools, InstalledIsComplete, Installed, InstallsTypeOK, runtimeVars
<1> QED BY <1>3, <1>4, <1>5

\* A runtime is downloaded, checked and put into place.
LEMMA RuntimeInstalls ==
  ASSUME InstallsIInv,
         \/ \E backend \in Backends : InstallRuntime(backend)
         \/ \E asset \in Published, content \in {"right", "wrong"} : FetchesAsset(asset, content)
         \/ Places \/ RuntimeFails \/ Registers
  PROVE  InstallsIInv'
<1> USE DEF InstallsIInv
<1>1. UNCHANGED <<toolVars, ends>>
  BY DEF InstallRuntime, FetchesAsset, Places, RuntimeFails, Registers
<1>2. ToolsOK'
  BY <1>1, ToolsRest
<1>3. CASE \E backend \in Backends : InstallRuntime(backend)
  <2>1. PICK backend \in Backends : InstallRuntime(backend)
    BY <1>3
  <2>2. PICK primary \in Primaries(backend) : group' = AssetGroup(primary, backend)
    BY <2>1 DEF InstallRuntime
  <2>3. primary \in Published /\ group' \subseteq Published
    BY <2>2 DEF Primaries, Selected, AssetGroup
  <2>4. asked' = "fetching" /\ extracted' = {} /\ staged' = TRUE /\ placed' = placed
    BY <2>1 DEF InstallRuntime
  <2>5. RuntimeOK'
    BY <2>2, <2>3, <2>4 DEF RuntimeOK, PlacedIsVerified, Checked
  <2> QED BY <1>1, <1>2, <2>3, <2>4, <2>5 DEF InstallsTypeOK, StagingIsRemoved, toolVars
<1>4. CASE \E asset \in Published, content \in {"right", "wrong"} : FetchesAsset(asset, content)
  <2>1. PICK asset \in Published, content \in {"right", "wrong"} : FetchesAsset(asset, content)
    BY <1>4
  <2>2. /\ asked = "fetching" /\ (asset.digest => content = "right")
        /\ extracted' = extracted \cup {[asset |-> asset, content |-> content]}
        /\ asked' = (IF {x.asset : x \in extracted'} = group THEN "probing" ELSE "fetching")
        /\ UNCHANGED <<group, staged, placed>>
    BY <2>1 DEF FetchesAsset
  <2>3. Checked(extracted')
    BY <2>2 DEF RuntimeOK, Checked
  <2>4. RuntimeOK'
    BY <2>2, <2>3 DEF RuntimeOK, PlacedIsVerified, Checked
  <2> QED BY <1>1, <1>2, <2>2, <2>4 DEF InstallsTypeOK, StagingIsRemoved, toolVars
<1>5. CASE Places
  <2>1. /\ asked = "probing" /\ placed' = placed \cup {extracted}
        /\ asked' = "placed" /\ staged' = FALSE /\ extracted' = {} /\ group' = group
    BY <1>5 DEF Places
  <2>2. \A folder \in placed' :
          /\ \E primary \in Published, backend \in Backends :
               {x.asset : x \in folder} = AssetGroup(primary, backend)
          /\ Checked(folder)
    BY <2>1 DEF RuntimeOK, PlacedIsVerified, Checked
  <2>3. RuntimeOK'
    BY <2>1, <2>2 DEF RuntimeOK, PlacedIsVerified, Checked
  <2> QED BY <1>1, <1>2, <2>1, <2>3 DEF InstallsTypeOK, StagingIsRemoved, toolVars
<1>6. CASE RuntimeFails
  <2>1. asked' = "none" /\ group' = {} /\ extracted' = {} /\ staged' = FALSE /\ placed' = placed
    BY <1>6 DEF RuntimeFails
  <2>2. RuntimeOK'
    BY <2>1 DEF RuntimeOK, PlacedIsVerified, Checked
  <2> QED BY <1>1, <1>2, <2>1, <2>2 DEF InstallsTypeOK, StagingIsRemoved, toolVars
<1>7. CASE Registers
  <2>1. /\ asked = "placed" /\ asked' = "none" /\ group' = {}
        /\ UNCHANGED <<extracted, staged, placed>>
    BY <1>7 DEF Registers
  <2>2. RuntimeOK'
    BY <2>1 DEF RuntimeOK, PlacedIsVerified, Checked
  <2> QED BY <1>1, <1>2, <2>1, <2>2 DEF InstallsTypeOK, StagingIsRemoved, toolVars
<1> QED BY <1>3, <1>4, <1>5, <1>6, <1>7

\* The application ends and starts again.
LEMMA InstallsCrashKeeps ==
  ASSUME InstallsIInv, InstallsCrash
  PROVE  InstallsIInv'
<1> USE DEF InstallsIInv
<1>1. /\ ends < MaxInstallCrashes /\ ends' = ends + 1 /\ toolTask' = "none"
      /\ bench' = NoBench /\ overlap' = FALSE
      /\ asked' = "none" /\ group' = {} /\ extracted' = {} /\ UNCHANGED <<downloaded, staged, placed>>
      /\ (Clears \/ UNCHANGED <<tools, torn>>)
  BY DEF InstallsCrash
<1>2. tools' \subseteq Parts /\ torn' \in BOOLEAN /\ InstalledIsComplete'
  BY <1>1, ClearsTools DEF InstallsTypeOK, ToolsOK, InstalledIsComplete, Installed
<1>3. bench' \in [on : BOOLEAN, lint : BOOLEAN, types : BOOLEAN] /\ ~bench'.on
  BY <1>1 DEF NoBench
<1>4. ends' \in 0..MaxInstallCrashes /\ ends' # 0
  BY <1>1, InstallsAssumption DEF InstallsTypeOK
<1>5. RuntimeOK'
  BY <1>1 DEF RuntimeOK, PlacedIsVerified, Checked
<1>6. ToolsOK' /\ StagingIsRemoved'
  BY <1>2, <1>3, <1>4 DEF ToolsOK, RunKeepsTools, StagingIsRemoved
<1>7. InstallsTypeOK'
  BY <1>1, <1>2, <1>3, <1>4 DEF InstallsTypeOK
<1> QED BY <1>5, <1>6, <1>7

\* The installed tools are complete, unless a removal was cut short, and stay
\* under a run that has them, unless it began during an install; a runtime that
\* is in place holds its whole group, checked; and only an end of the
\* application leaves a staging folder: for any release, backends and crashes.
THEOREM InstallsAreSound == InstallsSpec => []InstallsSound
<1>1. InstallsIInv /\ [InstallsNext]_InstallVars => InstallsIInv'
  <2> SUFFICES ASSUME InstallsIInv, [InstallsNext]_InstallVars PROVE InstallsIInv'
    OBVIOUS
  <2>1. CASE UNCHANGED InstallVars
    <3>1. UNCHANGED toolVars /\ UNCHANGED runtimeVars /\ UNCHANGED ends
      BY <2>1 DEF InstallVars, toolVars, runtimeVars
    <3>2. ToolsOK' /\ RuntimeOK'
      BY <3>1, ToolsRest, RuntimeRest DEF InstallsIInv
    <3>3. InstallsTypeOK' /\ StagingIsRemoved'
      BY <3>1 DEF InstallsIInv, InstallsTypeOK, StagingIsRemoved, toolVars, runtimeVars
    <3> QED BY <3>2, <3>3 DEF InstallsIInv
  <2>2. CASE InstallsNext
    BY <2>2, ToolInstalls, ToolUses, RuntimeInstalls, InstallsCrashKeeps DEF InstallsNext
  <2> QED BY <2>1, <2>2
<1>2. InstallsIInv => InstallsSound
  BY DEF InstallsIInv, ToolsOK, RuntimeOK, InstallsSound
<1> QED BY <1>1, <1>2, InstallsStart, PTL DEF InstallsSpec

(***************************************************************************)
(* Library.  Staging folders and tombstones hold files of their own        *)
(* download only, so no step of one reaches a file of another it does not  *)
(* share.                                                                  *)
(***************************************************************************)

FileStates == {"absent", "whole", "damaged", "short"}
FoldersOK ==
  /\ partial \in [Parcels -> SUBSET ModelFiles] /\ tomb \in [Parcels -> SUBSET ModelFiles]
  /\ tombed \subseteq Parcels
LibraryInv == LibraryTypeOK /\ FoldersOK

\* Moving files in or out leaves every file in one of its states.
LEMMA FilesMove ==
  ASSUME LibraryTypeOK, NEW F
  PROVE  /\ MovesIn(F) => file' \in [ModelFiles -> FileStates]
         /\ TakesOut(F) => file' \in [ModelFiles -> FileStates]
BY DEF LibraryTypeOK, MovesIn, TakesOut, FileStates

\* The files of a download are files of the model folder, staged or set aside.
LEMMA Folders ==
  ASSUME LibraryInv
  PROVE  /\ file \in [ModelFiles -> FileStates]
         /\ job \in [Parcels -> {"queued", "downloading", "completed", "failed"}]
         /\ \A j \in Parcels : partial[j] \subseteq FilesOf[j] /\ tomb[j] \subseteq FilesOf[j]
         /\ \A j \in Parcels : FilesOf[j] \subseteq ModelFiles
BY LibraryAssumption DEF LibraryInv, LibraryTypeOK, LibraryAssumption, FileStates

\* A step of one download that leaves the records alone.
LEMMA ParcelTyped ==
  ASSUME LibraryInv, NEW j \in Parcels, file' \in [ModelFiles -> FileStates],
         \E s \in {"queued", "downloading", "completed", "failed"} : job' \in {job, [job EXCEPT ![j] = s]},
         \E F \in SUBSET FilesOf[j] : partial' \in {partial, [partial EXCEPT ![j] = F]},
         \E F \in SUBSET FilesOf[j] : tomb' \in {tomb, [tomb EXCEPT ![j] = F]},
         tombed' \in {tombed, tombed \cup {j}}, UNCHANGED logical, harm' \in 0..MaxHarm
  PROVE  LibraryInv'
<1>1. job' \in [Parcels -> {"queued", "downloading", "completed", "failed"}]
  BY DEF LibraryInv, LibraryTypeOK
<1>2. FilesOf[j] \subseteq ModelFiles
  BY Folders
<1>3. partial' \in [Parcels -> SUBSET ModelFiles] /\ \A k \in Parcels : partial'[k] \subseteq FilesOf[k]
  BY <1>2, Folders DEF LibraryInv, FoldersOK
<1>4. tomb' \in [Parcels -> SUBSET ModelFiles] /\ \A k \in Parcels : tomb'[k] \subseteq FilesOf[k]
  BY <1>2, Folders DEF LibraryInv, FoldersOK
<1> QED BY <1>1, <1>3, <1>4 DEF LibraryInv, FoldersOK, LibraryTypeOK, logical, FileStates

----------------------------------------------------------------------------
(* Steps                                                                   *)

\* Harm is counted within its bound.
LEMMA HarmTyped ==
  LibraryInv => harm \in 0..MaxHarm /\ (Harm => harm' \in 0..MaxHarm /\ harm' # harm)
BY LibraryAssumption DEF LibraryAssumption, LibraryInv, LibraryTypeOK, Harm

\* What a step of a download does to the folder, to the job and to the bound.
CompletesWhole(j) ==
  job[j] # "completed" /\ job'[j] = "completed" => \A f \in FilesOf[j] : file'[f] \in {"whole", "damaged"}
Kept == /\ LibraryInv'
        /\ \/ harm' # harm
           \/ \A f \in ModelFiles : file[f] # "absent" => file'[f] = file[f]
           \/ \E j \in Parcels :
                /\ job[j] = "completed"
                /\ \A f \in ModelFiles : file'[f] = IF f \in FilesOf[j] THEN "absent" ELSE file[f]
        /\ \A j \in Parcels : CompletesWhole(j)

\* The job of one download moves, and nothing else.
LEMMA JobMoves ==
  ASSUME LibraryInv, NEW j \in Parcels,
         NEW s \in {"queued", "downloading", "completed", "failed"}, Becomes(j, s),
         s = "completed" => DestinationIsWhole(j), UNCHANGED <<disk, logical, harm>>
  PROVE  Kept
<1>1. job' = [job EXCEPT ![j] = s] /\ UNCHANGED <<file, partial, tomb, tombed, harm>> /\ UNCHANGED logical
  BY DEF Becomes, disk
<1>2. LibraryInv'
  <2>1. file' \in [ModelFiles -> FileStates] /\ harm' \in 0..MaxHarm
        /\ partial[j] \subseteq FilesOf[j] /\ tomb[j] \subseteq FilesOf[j]
    BY <1>1, Folders, HarmTyped
  <2> QED BY <1>1, <2>1, ParcelTyped
<1>3. ASSUME NEW k \in Parcels PROVE CompletesWhole(k)
  BY <1>1, Folders DEF CompletesWhole, DestinationIsWhole, Valid
<1> QED BY <1>1, <1>2, <1>3 DEF Kept

\* A download whose job does not change completes nothing.
LEMMA JobsSame == ASSUME job' = job PROVE \A k \in Parcels : CompletesWhole(k)
BY DEF CompletesWhole

\* A transferred file goes to the staging folder.
LEMMA TransfersKeeps ==
  ASSUME LibraryInv, NEW j \in Parcels, NEW f, Transfers(j, f)
  PROVE  Kept
<1>1. /\ f \in FilesOf[j] /\ partial' = [partial EXCEPT ![j] = partial[j] \cup {f}]
      /\ UNCHANGED <<file, job, tomb, tombed, harm>> /\ UNCHANGED logical
  BY DEF Transfers, LibraryInv, FoldersOK
<1>2. LibraryInv'
  <2>1. file' \in [ModelFiles -> FileStates] /\ harm' \in 0..MaxHarm
        /\ partial[j] \cup {f} \in SUBSET FilesOf[j]
    BY <1>1, Folders, HarmTyped
  <2>2. tomb[j] \in SUBSET FilesOf[j]
    BY Folders
  <2> QED BY <1>1, <2>1, <2>2, ParcelTyped
<1> QED BY <1>1, <1>2, JobsSame DEF Kept

\* A download that is published has each of its files in the folder.
LEMMA PublishKeeps ==
  ASSUME LibraryInv, NEW j \in Parcels, PublishParcel(j)
  PROVE  Kept
<1>1. CASE Conflicts(j) # {}
  BY <1>1, JobMoves DEF PublishParcel
<1>2. CASE Conflicts(j) = {}
  <2>1. /\ MovesIn(Movable(j)) /\ partial' = [partial EXCEPT ![j] = {}]
        /\ job' = [job EXCEPT ![j] = "completed"] /\ FilesOf[j] \subseteq partial[j]
        /\ UNCHANGED <<tomb, tombed, harm>> /\ UNCHANGED logical
    BY <1>2 DEF PublishParcel, Becomes
  <2>2. LibraryInv'
    <3>1. file' \in [ModelFiles -> FileStates] /\ harm' \in 0..MaxHarm
      BY <2>1, FilesMove, HarmTyped DEF LibraryInv
    <3>2. {} \in SUBSET FilesOf[j] /\ tomb[j] \in SUBSET FilesOf[j]
      BY Folders
    <3> QED BY <2>1, <3>1, <3>2, ParcelTyped
  <2>3. ASSUME NEW k \in Parcels PROVE CompletesWhole(k)
    <3>1. CASE k # j
      BY <2>1, <3>1 DEF CompletesWhole
    <3>2. CASE k = j
      <4> SUFFICES ASSUME NEW f \in FilesOf[j] PROVE file'[f] \in {"whole", "damaged"}
        BY <3>2 DEF CompletesWhole
      <4>1. f \in ModelFiles /\ f \in partial[j] /\ f \notin Conflicts(j)
        BY <1>2, <2>1, Folders
      <4>2. file[f] \in FileStates /\ file[f] # "short"
        BY <4>1, Folders DEF Conflicts
      <4> QED BY <2>1, <4>1, <4>2 DEF MovesIn, Movable, FileStates
    <3> QED BY <3>1, <3>2
  <2> QED BY <2>1, <2>2, <2>3 DEF Kept, MovesIn, Movable
<1> QED BY <1>1, <1>2

\* A merge that is cut short moves only files that were absent.
LEMMA InterruptedKeeps ==
  ASSUME LibraryInv, NEW j \in Parcels, Interrupted(j)
  PROVE  Kept
<1>1. PICK F : /\ MovesIn(F) /\ partial' = [partial EXCEPT ![j] = partial[j] \ F]
               /\ job' = [job EXCEPT ![j] = "queued"] /\ Harm
               /\ UNCHANGED <<tomb, tombed>> /\ UNCHANGED logical
  BY DEF Interrupted, Becomes, LibraryInv, FoldersOK
<1>2. LibraryInv'
  <2>1. file' \in [ModelFiles -> FileStates] /\ harm' \in 0..MaxHarm
    BY <1>1, FilesMove, HarmTyped DEF LibraryInv
  <2>2. partial[j] \ F \in SUBSET FilesOf[j] /\ tomb[j] \in SUBSET FilesOf[j]
    BY Folders
  <2> QED BY <1>1, <2>1, <2>2, ParcelTyped
<1>3. \A k \in Parcels : CompletesWhole(k)
  BY <1>1, Folders DEF CompletesWhole
<1> QED BY <1>1, <1>2, <1>3, HarmTyped DEF Kept

\* A delete takes out all of the download's files and no other.
LEMMA DeleteKeeps ==
  ASSUME LibraryInv, NEW j \in Parcels, DeleteArtifact(j)
  PROVE  Kept
<1>1. PICK left \in {{}, Present(j)} :
        /\ job[j] = "completed" /\ TakesOut(Present(j)) /\ tomb' = [tomb EXCEPT ![j] = left]
        /\ tombed' = (IF left = {} THEN tombed ELSE tombed \cup {j})
        /\ UNCHANGED <<job, partial, harm>> /\ UNCHANGED logical
  BY DEF DeleteArtifact, Deletable
<1>2. LibraryInv'
  <2>1. file' \in [ModelFiles -> FileStates] /\ harm' \in 0..MaxHarm
    BY <1>1, FilesMove, HarmTyped DEF LibraryInv
  <2>2. partial[j] \in SUBSET FilesOf[j] /\ left \in SUBSET FilesOf[j]
    BY Folders DEF Present
  <2> QED BY <1>1, <2>1, <2>2, ParcelTyped
<1>3. \A f \in ModelFiles : file'[f] = IF f \in FilesOf[j] THEN "absent" ELSE file[f]
  BY <1>1 DEF TakesOut, Present
<1> QED BY <1>1, <1>2, <1>3, JobsSame DEF Kept

\* A delete that is cut short is counted as harm.
LEMMA DeleteInterruptedKeeps ==
  ASSUME LibraryInv, NEW j \in Parcels, DeleteInterrupted(j)
  PROVE  Kept
<1>1. PICK moved \in SUBSET Present(j) :
        /\ TakesOut(moved) /\ tomb' = [tomb EXCEPT ![j] = moved] /\ tombed' = tombed \cup {j}
        /\ Harm /\ UNCHANGED <<job, partial>> /\ UNCHANGED logical
  BY DEF DeleteInterrupted
<1>2. LibraryInv'
  <2>1. file' \in [ModelFiles -> FileStates] /\ harm' \in 0..MaxHarm
    BY <1>1, FilesMove, HarmTyped DEF LibraryInv
  <2>2. partial[j] \in SUBSET FilesOf[j] /\ moved \in SUBSET FilesOf[j]
    BY Folders DEF Present
  <2> QED BY <1>1, <2>1, <2>2, ParcelTyped
<1> QED BY <1>1, <1>2, JobsSame, HarmTyped DEF Kept

\* Everything that leaves the downloads alone: damage, scans, links.
LEMMA RecordsKeep ==
  ASSUME LibraryInv, UNCHANGED <<job, partial, tomb, tombed>>,
         (UNCHANGED <<file, harm>>) \/ (file' \in [ModelFiles -> FileStates] /\ Harm),
         recorded' \subseteq ModelFiles, missing' \subseteq recorded', linked' \subseteq recorded'
  PROVE  Kept
<1>1. file' \in [ModelFiles -> FileStates] /\ harm' \in 0..MaxHarm
      /\ (harm' # harm \/ file' = file)
  BY Folders, HarmTyped
<1>2. LibraryInv'
  BY <1>1 DEF LibraryInv, LibraryTypeOK, FoldersOK, FileStates
<1> QED BY <1>1, <1>2, JobsSame DEF Kept

\* Every step keeps the invariant and takes the folder where it may.
LEMMA LibraryStep ==
  ASSUME LibraryInv, [LibraryNext]_LibraryVars
  PROVE  Kept
<1> USE DEF LibraryInv, LibraryTypeOK
<1>1. ASSUME NEW f \in ModelFiles, NEW how \in {"damaged", "short", "absent"}, Damaged(f, how)
      PROVE  Kept
  <2>1. file' \in [ModelFiles -> FileStates]
    BY <1>1, Folders DEF Damaged, FileStates
  <2> QED BY <1>1, <2>1, RecordsKeep DEF Damaged, logical
<1>2. ASSUME NEW f \in ModelFiles, RemoveMissing(f) \/ ImportsModel(f)
      PROVE  Kept
  BY <1>2, RecordsKeep DEF RemoveMissing, ImportsModel, disk, logical
<1>3. CASE Scan
  <2>1. recorded' \subseteq ModelFiles
    BY <1>3 DEF Scan, ReconcileDiscovered, Discovered, Held
  <2>2. missing' \subseteq recorded' /\ linked' \subseteq recorded'
    BY <1>3 DEF Scan, ReconcileDiscovered, ReconcileProfileLinks
  <2> QED BY <1>3, <2>1, <2>2, RecordsKeep DEF Scan, disk
<1>4. CASE Forgets
  BY <1>4, RecordsKeep DEF Forgets, disk
<1>5. ASSUME NEW j \in Parcels,
             \/ RedownloadModel(j) \/ ResumeDownload(j) \/ BeginsTransfer(j) \/ TransferFails(j)
      PROVE  Kept
  BY <1>5, JobMoves DEF RedownloadModel, ResumeDownload, Requeues, BeginsTransfer, TransferFails
<1>6. ASSUME NEW j \in Parcels, DeleteRefused(j)
      PROVE  Kept
  <2>1. file' = file
    BY <1>6 DEF DeleteRefused, Restored
  <2> QED BY <1>6, <2>1, RecordsKeep DEF DeleteRefused, logical
<1>7. ASSUME NEW j \in Parcels,
             \/ PublishParcel(j) \/ Interrupted(j) \/ DeleteArtifact(j) \/ DeleteInterrupted(j)
             \/ \E f \in FilesOf[j] : Transfers(j, f)
      PROVE  Kept
  BY <1>7, PublishKeeps, InterruptedKeeps, DeleteKeeps, DeleteInterruptedKeeps, TransfersKeeps
<1>8. CASE UNCHANGED LibraryVars
  BY <1>8, RecordsKeep DEF LibraryVars
<1> QED BY <1>1, <1>2, <1>3, <1>4, <1>5, <1>6, <1>7, <1>8 DEF LibraryNext

\* It holds at first.
LEMMA LibraryStart == LibraryInit => LibraryInv
BY LibraryAssumption DEF LibraryAssumption, LibraryInit, LibraryInv, LibraryTypeOK, FoldersOK

\* The folder holds what its downloads were told, and nothing else is touched.
THEOREM LibraryIsKept == LibrarySpec => LibraryKept
<1> DEFINE Moves == /\ \/ harm' # harm
                       \/ \A f \in ModelFiles : file[f] # "absent" => file'[f] = file[f]
                       \/ \E j \in Parcels :
                            /\ job[j] = "completed"
                            /\ \A f \in ModelFiles :
                                 file'[f] = IF f \in FilesOf[j] THEN "absent" ELSE file[f]
                    /\ \A j \in Parcels : job[j] # "completed" /\ job'[j] = "completed"
                         => \A f \in FilesOf[j] : file'[f] \in {"whole", "damaged"}
<1>1. LibraryInv /\ [LibraryNext]_LibraryVars => LibraryInv'
  BY LibraryStep DEF Kept
<1>2. LibraryInv /\ [LibraryNext]_LibraryVars => [Moves]_LibraryVars
  BY LibraryStep DEF Kept, CompletesWhole
<1>3. LibraryInv => LibraryTypeOK
  BY DEF LibraryInv
<1> QED BY <1>1, <1>2, <1>3, LibraryStart, PTL DEF LibrarySpec, LibraryKept

(***************************************************************************)
(* LoginThrottle.  Each bucket is judged by itself, against the failures   *)
(* of its key and the time (Sound); what ties the buckets to the attempts  *)
(* is that an active one has exactly one attempt (Busy).                   *)
(***************************************************************************)

Bucket == [failures : 0..Threshold, retry : Nat, locked : Nat, retire : Nat, active : 0..1]
RecentOf(failed, t) == {f \in failed : t - f < Lockout}

\* A full bucket is not in use and expires with its lock; every recent failure
\* is counted, and still counted when the bucket is removed.
Sound(b, failed, t) ==
  /\ b \in Bucket /\ failed \subseteq 0..t
  /\ b.retry <= t + BackoffMax
  /\ b.active = 1 => b.failures < Threshold
  /\ b.failures = Threshold => b.retry <= t /\ b.retire <= b.locked
  /\ \A f \in RecentOf(failed, t) : f + Lockout <= b.retire
  /\ Cardinality(RecentOf(failed, t)) <= b.failures

Trying(k) == {p \in InProgress : k \in KeysOf(p)}
Busy(k) == \/ bucket[k].active = 0 /\ Trying(k) = {}
           \/ bucket[k].active = 1 /\ \E p \in Pairs : Trying(k) = {p}

ThrottleIInv ==
  /\ now \in 0..MaxTime
  /\ DOMAIN bucket = Keys /\ DOMAIN failedAt = Keys
  /\ attempt \in [Pairs -> [on : BOOLEAN, wakes : Nat]]
  /\ \A p \in InProgress : attempt[p].wakes <= now + BackoffMax
  /\ \A k \in Keys : Sound(bucket[k], failedAt[k], now)
  /\ \A k \in Keys : Busy(k)

----------------------------------------------------------------------------
(* One bucket                                                              *)

\* The failures that count are finitely many.
LEMMA RecentFinite ==
  ASSUME NEW t \in Nat, NEW failed, failed \subseteq 0..t
  PROVE  IsFiniteSet(RecentOf(failed, t))
<1>1. IsFiniteSet(0..t) BY FS_Interval
<1>2. RecentOf(failed, t) \subseteq 0..t BY DEF RecentOf
<1> QED BY <1>1, <1>2, FS_Subset

\* An empty bucket is right for a key without recent failures.
LEMMA EmptySound ==
  ASSUME NEW t \in Nat, NEW failed, failed \subseteq 0..t, RecentOf(failed, t) = {}
  PROVE  Sound(NoBucket, failed, t)
<1>1. Cardinality(RecentOf(failed, t)) = 0 BY FS_EmptySet
<1>2. NoBucket \in Bucket BY LoginThrottleAssumption DEF NoBucket, Bucket
<1> QED BY <1>1, <1>2, LoginThrottleAssumption DEF Sound, NoBucket

\* Time only lets failures grow old.
LEMMA TickSound ==
  ASSUME NEW t \in Nat, NEW b, NEW failed, Sound(b, failed, t)
  PROVE  Sound(b, failed, t + 1)
<1>0. failed \subseteq 0..t /\ failed \subseteq 0..(t + 1) BY DEF Sound
<1>1. RecentOf(failed, t + 1) \subseteq RecentOf(failed, t)
  <2> SUFFICES ASSUME NEW f \in failed, (t + 1) - f < Lockout PROVE t - f < Lockout
    BY DEF RecentOf
  <2> QED BY <1>0, LoginThrottleAssumption
<1>2. Cardinality(RecentOf(failed, t + 1)) <= Cardinality(RecentOf(failed, t))
  BY <1>1, RecentFinite, FS_Subset DEF Sound
<1>3. Cardinality(RecentOf(failed, t)) \in Nat /\ Cardinality(RecentOf(failed, t + 1)) \in Nat
  <2>1. t + 1 \in Nat OBVIOUS
  <2>2. IsFiniteSet(RecentOf(failed, t)) BY <1>0, RecentFinite
  <2>3. IsFiniteSet(RecentOf(failed, t + 1)) BY <1>0, <2>1, RecentFinite
  <2> QED BY <2>2, <2>3, FS_CardinalityType
<1>4. b \in Bucket BY DEF Sound
<1> QED BY <1>0, <1>1, <1>2, <1>3, <1>4, LoginThrottleAssumption DEF Sound, Bucket

\* _remove_expired drops only buckets whose failures no longer count.
LEMMA SweptSound ==
  ASSUME NEW b, NEW failed, now \in Nat, Sound(b, failed, now), Retired(b)
  PROVE  Sound(NoBucket, failed, now)
<1>1. RecentOf(failed, now) = {}
  <2> SUFFICES ASSUME NEW f \in RecentOf(failed, now) PROVE FALSE OBVIOUS
  <2>1. f \in Nat /\ now - f < Lockout /\ f + Lockout <= b.retire /\ b.retire <= now /\ b.retire \in Nat
    BY DEF RecentOf, Sound, Retired, Bucket
  <2> QED BY <2>1, LoginThrottleAssumption
<1> QED BY <1>1, EmptySound DEF Sound

\* begin takes a bucket that is neither full nor in use.
LEMMA TakenSound ==
  ASSUME NEW b, NEW failed, now \in Nat, Sound(b, failed, now),
         b.active = 0, b.locked <= now, ~Retired(b) \/ b = NoBucket
  PROVE  Sound([b EXCEPT !.active = @ + 1], failed, now)
<1> DEFINE c == [b EXCEPT !.active = @ + 1]
<1>1. b.failures < Threshold
  <2>1. CASE b = NoBucket BY <2>1, LoginThrottleAssumption DEF NoBucket
  <2>2. CASE ~Retired(b)
    BY <2>2, LoginThrottleAssumption DEF Retired, Sound, Bucket
  <2> QED BY <2>1, <2>2
<1>2. c \in Bucket /\ c.failures = b.failures /\ c.retry = b.retry /\ c.locked = b.locked
      /\ c.retire = b.retire /\ c.active = 1
  BY DEF Sound, Bucket
<1> HIDE DEF c
<1>3. Sound(c, failed, now) BY <1>1, <1>2 DEF Sound
<1> QED BY <1>3 DEF c

\* abort gives back a bucket as it was.
LEMMA ReleasedSound ==
  ASSUME NEW b, NEW failed, NEW t \in Nat, Sound(b, failed, t)
  PROVE  Sound(Released(b), failed, t) /\ (b.active \in 0..1 /\ Released(b).active = 0)
<1>1. /\ Released(b) \in Bucket /\ Released(b).failures = b.failures /\ Released(b).retry = b.retry
      /\ Released(b).locked = b.locked /\ Released(b).retire = b.retire /\ Released(b).active = 0
      /\ b.active \in 0..1
  BY DEF Sound, Bucket, Released
<1> QED BY <1>1 DEF Sound

\* The delay after a failure is a number within its maximum.
LEMMA BackoffBounded == ASSUME NEW n \in Nat PROVE Backoff(n) \in 0..BackoffMax
<1> DEFINE d == BackoffBase * 2 ^ (n - 1)
<1>1. d \in 0..BackoffMax \/ d \notin 0..BackoffMax OBVIOUS
<1> HIDE DEF d
<1>2. (IF d \in 0..BackoffMax THEN d ELSE BackoffMax) \in 0..BackoffMax BY <1>1, LoginThrottleAssumption
<1> QED BY <1>2 DEF d, Backoff

\* A counted failure is one more at most, and it locks a bucket that is full.
LEMMA FailedSound ==
  ASSUME NEW b, NEW failed, now \in Nat, Sound(b, failed, now), b.active = 1
  PROVE  /\ Sound(FailedOnce(b), failed \cup {now}, now)
         /\ FailedOnce(b).active = 0 /\ ~Retired(FailedOnce(b))
<1> DEFINE n == b.failures + 1
           c == FailedOnce(b)
           F == failed \cup {now}
<1>0. /\ b.failures \in Nat /\ b.failures < Threshold /\ n \in 1..Threshold /\ b.locked \in Nat
      /\ failed \subseteq 0..now /\ F \subseteq 0..now
  <2>1. b \in Bucket /\ b.failures < Threshold /\ failed \subseteq 0..now BY DEF Sound
  <2>2. b.failures \in Nat /\ b.locked \in Nat BY <2>1, LoginThrottleAssumption DEF Bucket
  <2> QED BY <2>1, <2>2, LoginThrottleAssumption
<1>1. Backoff(n) \in 0..BackoffMax BY <1>0, BackoffBounded
<1>2. /\ c.failures = n /\ c.active = 0 /\ c.retire = now + Lockout
      /\ c.locked = (IF n >= Threshold THEN now + Lockout ELSE b.locked)
      /\ c.retry = (IF n >= Threshold THEN 0 ELSE now + Backoff(n))
      /\ c = [failures |-> c.failures, retry |-> c.retry, locked |-> c.locked,
              retire |-> c.retire, active |-> c.active]
  <2>1. b \in Bucket BY DEF Sound
  <2> DEFINE r == Released(b)
  <2>2. /\ r \in Bucket /\ r.active = 0 /\ r.locked = b.locked
    BY <2>1 DEF Released, Bucket
  <2>3. c = [r EXCEPT !.failures = n, !.retire = now + Lockout,
              !.locked = IF n >= Threshold THEN now + Lockout ELSE @,
              !.retry = IF n >= Threshold THEN 0 ELSE now + Backoff(n)]
    BY DEF FailedOnce
  <2> HIDE DEF r
  <2> QED BY <2>2, <2>3 DEF Bucket
<1>3. c \in Bucket
  <2> HIDE DEF c
  <2>1. c.failures \in 0..Threshold /\ c.active \in 0..1 /\ c.retire \in Nat
    BY <1>0, <1>2, LoginThrottleAssumption
  <2>2. c.locked \in Nat /\ c.retry \in Nat BY <1>0, <1>1, <1>2, LoginThrottleAssumption
  <2> QED BY <1>2, <2>1, <2>2 DEF Bucket
<1>4. RecentOf(F, now) \subseteq RecentOf(failed, now) \cup {now} BY DEF RecentOf
<1>5. Cardinality(RecentOf(F, now)) <= n
  <2>1. IsFiniteSet(RecentOf(failed, now)) BY <1>0, RecentFinite
  <2>2. /\ IsFiniteSet(RecentOf(failed, now) \cup {now})
        /\ Cardinality(RecentOf(failed, now) \cup {now}) <= Cardinality(RecentOf(failed, now)) + 1
    <3> DEFINE R == RecentOf(failed, now)
    <3>1. Cardinality(R) \in Nat BY <2>1, FS_CardinalityType
    <3>2. /\ IsFiniteSet(R \cup {now})
          /\ Cardinality(R \cup {now}) = IF now \in R THEN Cardinality(R) ELSE Cardinality(R) + 1
      BY <2>1, FS_AddElement
    <3> HIDE DEF R
    <3>3. Cardinality(R \cup {now}) <= Cardinality(R) + 1 BY <3>1, <3>2
    <3> QED BY <3>2, <3>3 DEF R
  <2>3. Cardinality(RecentOf(F, now)) <= Cardinality(RecentOf(failed, now) \cup {now})
    BY <1>4, <2>2, FS_Subset
  <2>4. /\ Cardinality(RecentOf(F, now)) \in Nat /\ Cardinality(RecentOf(failed, now)) \in Nat
        /\ Cardinality(RecentOf(failed, now) \cup {now}) \in Nat
    BY <2>1, <2>2, <1>0, RecentFinite, FS_CardinalityType
  <2>5. Cardinality(RecentOf(failed, now)) <= b.failures BY DEF Sound
  <2> HIDE DEF F
  <2> QED BY <2>2, <2>3, <2>4, <2>5, <1>0
<1>6. \A f \in RecentOf(F, now) : f + Lockout <= now + Lockout
  BY <1>0, LoginThrottleAssumption DEF RecentOf
<1>7. /\ c.retry <= now + BackoffMax
      /\ c.failures = Threshold => c.retry <= now /\ c.retire <= c.locked
  <2> HIDE DEF c
  <2> QED BY <1>0, <1>1, <1>2, LoginThrottleAssumption
<1>8. ~Retired(c)
  <2> HIDE DEF c
  <2> QED BY <1>2, LoginThrottleAssumption DEF Retired
<1> HIDE DEF c, F
<1>9. Sound(c, F, now) BY <1>0, <1>2, <1>3, <1>5, <1>6, <1>7 DEF Sound
<1> QED BY <1>2, <1>8, <1>9 DEF c, F

----------------------------------------------------------------------------
(* The attempts                                                            *)

\* The sleep of an attempt is the longer of the two back-offs.
LEMMA LatestIsOne ==
  ASSUME NEW a \in Nat, NEW b \in Nat, NEW c \in Nat
  PROVE  Latest({a, b, c}) \in {a, b, c}
<1>1. \E x \in {a, b, c} : \A y \in {a, b, c} : y <= x
  <2>1. CASE a >= b /\ a >= c BY <2>1
  <2>2. CASE b >= a /\ b >= c BY <2>2
  <2>3. CASE c >= a /\ c >= b BY <2>3
  <2> QED BY <2>1, <2>2, <2>3
<1> QED BY <1>1 DEF Latest

\* The keys of an attempt in progress are busy with that attempt alone.
LEMMA OwnKeys ==
  ASSUME ThrottleIInv, NEW p \in Pairs, attempt[p].on, NEW k \in KeysOf(p)
  PROVE  k \in Keys /\ bucket[k].active = 1 /\ Trying(k) = {p}
<1>1. k \in Keys BY DEF Pairs, KeysOf, Keys
<1>2. p \in Trying(k) BY DEF Trying, InProgress
<1> QED BY <1>1, <1>2 DEF ThrottleIInv, Busy

\* Ending an attempt frees its two keys and touches no other key.
LEMMA Ended ==
  ASSUME ThrottleIInv, NEW p \in Pairs, attempt[p].on, attempt' = [attempt EXCEPT ![p] = NotTrying],
         \A k \in KeysOf(p) : bucket'[k].active = 0,
         \A k \in Keys \ KeysOf(p) : bucket'[k].active = bucket[k].active,
         UNCHANGED now
  PROVE  /\ attempt' \in [Pairs -> [on : BOOLEAN, wakes : Nat]]
         /\ \A q \in InProgress' : attempt'[q].wakes <= now' + BackoffMax
         /\ \A k \in Keys : Busy(k)'
<1>1. attempt' \in [Pairs -> [on : BOOLEAN, wakes : Nat]] BY DEF ThrottleIInv, NotTrying
<1>2. InProgress' = InProgress \ {p} BY DEF ThrottleIInv, InProgress, NotTrying
<1>3. \A q \in InProgress' : attempt'[q] = attempt[q]
  BY <1>2 DEF ThrottleIInv, InProgress, NotTrying
<1>4. \A q \in InProgress' : attempt'[q].wakes <= now' + BackoffMax
  BY <1>2, <1>3 DEF ThrottleIInv
<1>5. ASSUME NEW k \in Keys PROVE Busy(k)'
  <2>1. Trying(k)' = Trying(k) \ {p} BY <1>2 DEF Trying
  <2>2. CASE k \in KeysOf(p)
    <3>1. Trying(k) = {p} BY <2>2, OwnKeys
    <3> QED BY <2>1, <2>2, <3>1 DEF Busy
  <2>3. CASE k \notin KeysOf(p)
    <3>1. Trying(k)' = Trying(k) BY <2>1, <2>3 DEF Trying
    <3>2. bucket'[k].active = bucket[k].active BY <2>3
    <3>3. Busy(k) BY DEF ThrottleIInv
    <3> QED BY <3>1, <3>2, <3>3 DEF Busy
  <2> QED BY <2>2, <2>3
<1> QED BY <1>1, <1>4, <1>5

\* begin
LEMMA BeginKeeps == ASSUME ThrottleIInv, NEW p \in Pairs, Begin(p) PROVE ThrottleIInv'
<1> DEFINE swept == Swept(bucket)
<1>1. now \in Nat /\ now' = now /\ failedAt' = failedAt BY DEF Begin, ThrottleIInv
<1>2. \A k \in Keys : swept[k] = IF Retired(bucket[k]) THEN NoBucket ELSE bucket[k] BY DEF Swept
<1>3. DOMAIN swept = Keys BY DEF Swept
<1>4. \A k \in Keys : Sound(swept[k], failedAt[k], now)
  BY <1>1, <1>2, SweptSound DEF ThrottleIInv
<1>5. \A k \in Keys : swept[k].active = bucket[k].active BY <1>2 DEF Retired, NoBucket
<1>6. CASE \E k \in KeysOf(p) : swept[k].locked > now \/ swept[k].active > 0
  <2>1. bucket' = swept /\ attempt' = attempt BY <1>6 DEF Begin
  <2> HIDE DEF swept
  <2>2. \A k \in Keys : Busy(k)'
    BY <1>5, <2>1 DEF ThrottleIInv, Busy, Trying, InProgress
  <2>3. \A k \in Keys : Sound(bucket'[k], failedAt'[k], now') BY <1>1, <1>4, <2>1
  <2> QED BY <1>1, <1>3, <2>1, <2>2, <2>3 DEF ThrottleIInv, InProgress
<1>7. CASE \A k \in KeysOf(p) : ~(swept[k].locked > now \/ swept[k].active > 0)
  <2> DEFINE wakes == Latest({now} \cup {swept[k].retry : k \in KeysOf(p)})
  <2>1. /\ bucket' = [k \in Keys |-> IF k \in KeysOf(p)
                                     THEN [swept[k] EXCEPT !.active = @ + 1] ELSE swept[k]]
        /\ attempt' = [attempt EXCEPT ![p] = [on |-> TRUE, wakes |-> wakes]]
    BY <1>7 DEF Begin
  <2> HIDE DEF swept
  <2>2. KeysOf(p) \subseteq Keys /\ KeysOf(p) = {p[1], p[2]} BY DEF Pairs, KeysOf, Keys
  <2>3. \A k \in Keys : swept[k] \in Bucket /\ swept[k].retry \in Nat /\ swept[k].retry <= now + BackoffMax
                        /\ swept[k].active \in 0..1 /\ swept[k].locked \in Nat
    BY <1>4 DEF Sound, Bucket
  <2>4. wakes \in Nat /\ wakes <= now + BackoffMax
    <3>1. {now} \cup {swept[k].retry : k \in KeysOf(p)} = {now, swept[p[1]].retry, swept[p[2]].retry}
      BY <2>2
    <3>2. p[1] \in Keys /\ p[2] \in Keys BY <2>2
    <3>3. wakes \in {now, swept[p[1]].retry, swept[p[2]].retry}
      BY <1>1, <2>3, <3>1, <3>2, LatestIsOne
    <3> HIDE DEF wakes
    <3> QED BY <1>1, <2>3, <3>2, <3>3, LoginThrottleAssumption
  <2> HIDE DEF wakes
  <2>5. \A k \in KeysOf(p) : swept[k].active = 0 /\ swept[k].locked <= now
    BY <1>1, <1>7, <2>2, <2>3
  <2>6. ASSUME NEW k \in Keys PROVE Sound(bucket'[k], failedAt'[k], now')
    <3>1. CASE k \notin KeysOf(p) BY <1>1, <1>4, <2>1, <3>1
    <3>2. CASE k \in KeysOf(p)
      <4>1. ~Retired(swept[k]) \/ swept[k] = NoBucket BY <1>2
      <4>2. Sound([swept[k] EXCEPT !.active = @ + 1], failedAt[k], now)
        BY <1>1, <1>4, <2>5, <3>2, <4>1, TakenSound
      <4> QED BY <1>1, <2>1, <3>2, <4>2
    <3> QED BY <3>1, <3>2
  <2>7. attempt' \in [Pairs -> [on : BOOLEAN, wakes : Nat]] BY <2>1, <2>4 DEF ThrottleIInv
  <2>8. attempt'[p].on /\ attempt'[p].wakes = wakes /\ \A q \in Pairs \ {p} : attempt'[q] = attempt[q]
    BY <2>1 DEF ThrottleIInv
  <2>9. InProgress' = InProgress \cup {p} BY <2>8 DEF InProgress
  <2>10. \A q \in InProgress' : attempt'[q].wakes <= now' + BackoffMax
    BY <1>1, <2>4, <2>8, <2>9 DEF ThrottleIInv, InProgress
  <2>11. ASSUME NEW k \in Keys PROVE Busy(k)'
    <3>1. CASE k \in KeysOf(p)
      <4>1. Trying(k) = {} BY <1>5, <2>5, <3>1 DEF ThrottleIInv, Busy
      <4>2. Trying(k)' = {p} BY <2>9, <3>1, <4>1 DEF Trying
      <4>3. bucket'[k].active = 1 BY <2>1, <2>3, <2>5, <3>1 DEF Bucket
      <4> QED BY <4>2, <4>3 DEF Busy
    <3>2. CASE k \notin KeysOf(p)
      <4>1. Trying(k)' = Trying(k) BY <2>9, <3>2 DEF Trying
      <4>2. bucket'[k].active = bucket[k].active BY <1>5, <2>1, <3>2
      <4> QED BY <4>1, <4>2 DEF ThrottleIInv, Busy
    <3> QED BY <3>1, <3>2
  <2>12. DOMAIN bucket' = Keys BY <2>1
  <2> QED BY <1>1, <2>6, <2>7, <2>10, <2>11, <2>12 DEF ThrottleIInv
<1> QED BY <1>6, <1>7

\* A login that succeeds empties its two buckets and forgets their failures.
LEMMA SuccessKeeps == ASSUME ThrottleIInv, NEW p \in Pairs, Success(p) PROVE ThrottleIInv'
<1>1. /\ attempt[p].on /\ attempt' = [attempt EXCEPT ![p] = NotTrying] /\ now' = now /\ now \in Nat
      /\ \A k \in Keys : bucket'[k] = IF k \in KeysOf(p) THEN NoBucket ELSE bucket[k]
      /\ \A k \in Keys : failedAt'[k] = IF k \in KeysOf(p) THEN {} ELSE failedAt[k]
      /\ DOMAIN bucket' = Keys /\ DOMAIN failedAt' = Keys
  BY DEF Success, Awake, ThrottleIInv
<1>2. KeysOf(p) \subseteq Keys BY DEF Pairs, KeysOf, Keys
<1>3. \A k \in KeysOf(p) : bucket'[k].active = 0 BY <1>1, <1>2 DEF NoBucket
<1>4. \A k \in Keys \ KeysOf(p) : bucket'[k].active = bucket[k].active BY <1>1
<1>5. /\ attempt' \in [Pairs -> [on : BOOLEAN, wakes : Nat]]
      /\ \A q \in InProgress' : attempt'[q].wakes <= now' + BackoffMax
      /\ \A k \in Keys : Busy(k)'
  BY <1>1, <1>3, <1>4, Ended
<1>6. Sound(NoBucket, {}, now)
  <2>1. RecentOf({}, now) = {} BY DEF RecentOf
  <2> QED BY <1>1, <2>1, EmptySound
<1>7. \A k \in Keys : Sound(bucket'[k], failedAt'[k], now') BY <1>1, <1>6 DEF ThrottleIInv
<1> QED BY <1>1, <1>5, <1>7 DEF ThrottleIInv

\* A login that fails counts once in each of its buckets; the sweep after it
\* removes only other buckets.
LEMMA FailureKeeps == ASSUME ThrottleIInv, NEW p \in Pairs, Failure(p) PROVE ThrottleIInv'
<1> DEFINE counted == [k \in Keys |-> IF k \in KeysOf(p) THEN FailedOnce(bucket[k]) ELSE bucket[k]]
<1>1. /\ attempt[p].on /\ attempt' = [attempt EXCEPT ![p] = NotTrying] /\ now' = now /\ now \in Nat
      /\ bucket' = Swept(counted)
      /\ \A k \in Keys : failedAt'[k] = IF k \in KeysOf(p) THEN failedAt[k] \cup {now} ELSE failedAt[k]
      /\ DOMAIN failedAt' = Keys
  BY DEF Failure, Awake, ThrottleIInv
<1>2. KeysOf(p) \subseteq Keys BY DEF Pairs, KeysOf, Keys
<1>3. /\ DOMAIN bucket' = Keys
      /\ \A k \in Keys : bucket'[k] = IF Retired(counted[k]) THEN NoBucket ELSE counted[k]
  BY <1>1 DEF Swept
<1>4. ASSUME NEW k \in KeysOf(p)
      PROVE  bucket'[k] = FailedOnce(bucket[k]) /\ bucket'[k].active = 0
             /\ Sound(bucket'[k], failedAt[k] \cup {now}, now)
  <2>1. bucket[k].active = 1 BY <1>1, OwnKeys
  <2>2. Sound(bucket[k], failedAt[k], now) BY <1>2 DEF ThrottleIInv
  <2>3. /\ Sound(FailedOnce(bucket[k]), failedAt[k] \cup {now}, now)
        /\ FailedOnce(bucket[k]).active = 0 /\ ~Retired(FailedOnce(bucket[k]))
    BY <1>1, <2>1, <2>2, FailedSound
  <2>4. bucket'[k] = FailedOnce(bucket[k]) BY <1>2, <1>3, <2>3
  <2> QED BY <2>3, <2>4
<1>5. ASSUME NEW k \in Keys \ KeysOf(p)
      PROVE  bucket'[k].active = bucket[k].active /\ Sound(bucket'[k], failedAt[k], now)
  <2>1. bucket'[k] = IF Retired(bucket[k]) THEN NoBucket ELSE bucket[k] BY <1>3
  <2>2. Sound(bucket[k], failedAt[k], now) BY DEF ThrottleIInv
  <2>3. Sound(bucket'[k], failedAt[k], now) BY <1>1, <2>1, <2>2, SweptSound
  <2> QED BY <2>1, <2>3 DEF Retired, NoBucket
<1>6. /\ attempt' \in [Pairs -> [on : BOOLEAN, wakes : Nat]]
      /\ \A q \in InProgress' : attempt'[q].wakes <= now' + BackoffMax
      /\ \A k \in Keys : Busy(k)'
  BY <1>1, <1>4, <1>5, Ended
<1>7. \A k \in Keys : Sound(bucket'[k], failedAt'[k], now') BY <1>1, <1>4, <1>5
<1> QED BY <1>1, <1>3, <1>6, <1>7 DEF ThrottleIInv

\* abort
LEMMA AbortKeeps == ASSUME ThrottleIInv, NEW p \in Pairs, Abort(p) PROVE ThrottleIInv'
<1>1. /\ attempt[p].on /\ attempt' = [attempt EXCEPT ![p] = NotTrying]
      /\ now' = now /\ now \in Nat /\ failedAt' = failedAt /\ DOMAIN bucket' = Keys
      /\ \A k \in Keys : bucket'[k] =
           IF k \notin KeysOf(p) THEN bucket[k]
           ELSE IF bucket[k].active <= 1 /\ bucket[k].failures = 0 THEN NoBucket
           ELSE Released(bucket[k])
  BY DEF Abort, ThrottleIInv
<1>2. KeysOf(p) \subseteq Keys BY DEF Pairs, KeysOf, Keys
<1>3. ASSUME NEW k \in KeysOf(p)
      PROVE  bucket'[k].active = 0 /\ Sound(bucket'[k], failedAt[k], now)
  <2>1. Sound(bucket[k], failedAt[k], now) BY <1>2 DEF ThrottleIInv
  <2>2. CASE bucket[k].active <= 1 /\ bucket[k].failures = 0
    <3>1. IsFiniteSet(RecentOf(failedAt[k], now)) BY <1>1, <2>1, RecentFinite DEF Sound
    <3>2. RecentOf(failedAt[k], now) = {}
      <4>1. Cardinality(RecentOf(failedAt[k], now)) <= 0 BY <2>1, <2>2 DEF Sound
      <4>2. Cardinality(RecentOf(failedAt[k], now)) = 0 BY <3>1, <4>1, FS_CardinalityType
      <4> QED BY <3>1, <4>2, FS_EmptySet
    <3>3. Sound(NoBucket, failedAt[k], now) BY <1>1, <2>1, <3>2, EmptySound DEF Sound
    <3> QED BY <1>1, <1>2, <2>2, <3>3 DEF NoBucket
  <2>3. CASE ~(bucket[k].active <= 1 /\ bucket[k].failures = 0)
    <3>1. bucket'[k] = Released(bucket[k]) BY <1>1, <1>2, <2>3
    <3> QED BY <1>1, <2>1, <3>1, ReleasedSound
  <2> QED BY <2>2, <2>3
<1>4. \A k \in Keys \ KeysOf(p) : bucket'[k] = bucket[k] BY <1>1
<1>5. /\ attempt' \in [Pairs -> [on : BOOLEAN, wakes : Nat]]
      /\ \A q \in InProgress' : attempt'[q].wakes <= now' + BackoffMax
      /\ \A k \in Keys : Busy(k)'
  BY <1>1, <1>3, <1>4, Ended
<1>6. \A k \in Keys : Sound(bucket'[k], failedAt'[k], now')
  BY <1>1, <1>3, <1>4 DEF ThrottleIInv
<1> QED BY <1>1, <1>5, <1>6 DEF ThrottleIInv

\* The clock
LEMMA TickKeeps == ASSUME ThrottleIInv, Tick PROVE ThrottleIInv'
<1>1. /\ now \in Nat /\ now' = now + 1 /\ now' \in 0..MaxTime
      /\ bucket' = bucket /\ attempt' = attempt /\ failedAt' = failedAt
  BY LoginThrottleAssumption DEF Tick, ThrottleIInv
<1>2. \A k \in Keys : Sound(bucket'[k], failedAt'[k], now') BY <1>1, TickSound DEF ThrottleIInv
<1>3. \A p \in InProgress' : attempt'[p].wakes <= now' + BackoffMax
  <2> SUFFICES ASSUME NEW p \in InProgress PROVE attempt[p].wakes <= (now + 1) + BackoffMax
    BY <1>1 DEF InProgress
  <2>1. attempt[p].wakes \in Nat BY DEF ThrottleIInv, InProgress
  <2> QED BY <1>1, <2>1, LoginThrottleAssumption DEF ThrottleIInv
<1>4. \A k \in Keys : Busy(k)' BY <1>1 DEF ThrottleIInv, Busy, Trying, InProgress
<1> QED BY <1>1, <1>2, <1>3, <1>4 DEF ThrottleIInv

----------------------------------------------------------------------------
(* Theorems                                                                *)

\* A started program has empty buckets and no attempt.
LEMMA ThrottleStarts == ThrottleInit => ThrottleIInv
<1> SUFFICES ASSUME ThrottleInit PROVE ThrottleIInv OBVIOUS
<1>1. RecentOf({}, 0) = {} BY DEF RecentOf
<1>2. Sound(NoBucket, {}, 0) BY <1>1, EmptySound
<1>3. InProgress = {} BY DEF ThrottleInit, InProgress, NotTrying
<1>4. \A k \in Keys : Busy(k) BY <1>3 DEF ThrottleInit, Busy, Trying, NoBucket
<1> QED BY <1>2, <1>3, <1>4, LoginThrottleAssumption DEF ThrottleInit, ThrottleIInv, NotTrying

\* The invariant is the property: an active bucket counts its one attempt, and
\* what a bucket counts bounds the failures of the last lockout period.
LEMMA SoundThrottleHolds == ThrottleIInv => ThrottleHolds
<1> SUFFICES ASSUME ThrottleIInv PROVE ThrottleHolds OBVIOUS
<1>1. \A k \in Keys : bucket[k] \in Bucket BY DEF ThrottleIInv, Sound
<1>2. ThrottleTypeOK BY <1>1 DEF ThrottleIInv, ThrottleTypeOK, Bucket
<1>3. BusyWhileTrying
  <2> SUFFICES ASSUME NEW k \in Keys PROVE bucket[k].active = Cardinality(Trying(k))
    BY DEF BusyWhileTrying, Trying
  <2>1. CASE bucket[k].active = 0 /\ Trying(k) = {} BY <2>1, FS_EmptySet
  <2>2. CASE bucket[k].active = 1 /\ \E p \in Pairs : Trying(k) = {p} BY <2>2, FS_Singleton
  <2> QED BY <2>1, <2>2 DEF ThrottleIInv, Busy
<1>4. FailuresLimited
  <2> SUFFICES ASSUME NEW k \in Names PROVE Cardinality(RecentOf(failedAt[k], now)) <= Threshold
    BY DEF FailuresLimited, RecentOf
  <2>1. Sound(bucket[k], failedAt[k], now) /\ now \in Nat BY DEF ThrottleIInv, Keys
  <2>2. Cardinality(RecentOf(failedAt[k], now)) \in Nat
    BY <2>1, RecentFinite, FS_CardinalityType DEF Sound
  <2> QED BY <2>1, <2>2, LoginThrottleAssumption DEF Sound, Bucket
<1> QED BY <1>2, <1>3, <1>4 DEF ThrottleHolds

\* For all accounts, addresses, thresholds and delays: an account or address is
\* busy exactly while one attempt with it is in progress, and no lockout period
\* sees more failures of an account than the threshold.
THEOREM ThrottleNeverGivesWay == ThrottleSpec => []ThrottleHolds
<1>1. ThrottleIInv /\ [ThrottleNext]_ThrottleVars => ThrottleIInv'
  <2> SUFFICES ASSUME ThrottleIInv, [ThrottleNext]_ThrottleVars PROVE ThrottleIInv' OBVIOUS
  <2>1. CASE Tick BY <2>1, TickKeeps
  <2>2. CASE \E p \in Pairs : Begin(p) BY <2>2, BeginKeeps
  <2>3. CASE \E p \in Pairs : Success(p) BY <2>3, SuccessKeeps
  <2>4. CASE \E p \in Pairs : Failure(p) BY <2>4, FailureKeeps
  <2>5. CASE \E p \in Pairs : Abort(p) BY <2>5, AbortKeeps
  <2>6. CASE UNCHANGED ThrottleVars
    BY <2>6 DEF ThrottleVars, ThrottleIInv, Busy, Trying, InProgress
  <2> QED BY <2>1, <2>2, <2>3, <2>4, <2>5, <2>6 DEF ThrottleNext
<1> QED BY <1>1, ThrottleStarts, SoundThrottleHolds, PTL DEF ThrottleSpec

(***************************************************************************)
(* MemoryFit.  Of two placements one is under the other when it puts no    *)
(* more on the GPU of any kind of thing (Under); its estimate is smaller   *)
(* then, although the largest layer copied for a prompt may grow: what it  *)
(* grows by is a layer that no longer stays on the GPU.  So a placement    *)
(* that does not fit is not worth looking above, and the searches are      *)
(* right to halve.                                                         *)
(***************************************************************************)

----------------------------------------------------------------------------
(* Sums                                                                    *)

\* A set of natural numbers has a first one.
LEMMA FirstNumber ==
  ASSUME NEW S \in SUBSET Nat, S # {}
  PROVE  \E i \in S : \A k \in S : i <= k
<1> DEFINE R == OpToRel(<, Nat)
<1>1. \A i, k \in Nat : <<k, i>> \in R <=> k < i
  BY DEF OpToRel
<1>2. IsWellFoundedOn(R, Nat)
  BY NatLessThanWellFounded
<1> HIDE DEF R
<1>3. PICK i \in S : \A k \in S : ~(<<k, i>> \in R)
  BY <1>2, WFMin
<1>4. ASSUME NEW k \in S PROVE i <= k
  <2>1. k \in Nat /\ i \in Nat /\ ~(<<k, i>> \in R)
    BY <1>3
  <2>2. ~(k < i)
    BY <1>1, <2>1
  <2> QED BY <2>1, <2>2
<1> QED BY <1>4

\* The element of a set that a sum adds next, and the sums of some sets.
NextOf(s) == CHOOSE x \in s : TRUE
Adds(g, f, D) ==
  g = [s \in D |-> IF s = {} THEN 0 ELSE f[NextOf(s)] + g[s \ {NextOf(s)}]]
SubsetsTo(S, n) == {s \in SUBSET S : Cardinality(s) <= n}

\* A sum over finite sets is defined: the sums of larger sets follow from those
\* of smaller ones.
LEMMA SumsExist ==
  ASSUME NEW f, NEW S, IsFiniteSet(S)
  PROVE  \E g : Adds(g, f, SUBSET S)
<1> DEFINE Bad == {n \in Nat : ~\E g : Adds(g, f, SubsetsTo(S, n))}
<1>0. \A s \in SUBSET S : IsFiniteSet(s) /\ Cardinality(s) \in Nat /\ Cardinality(s) <= Cardinality(S)
  BY FS_Subset, FS_CardinalityType
<1>1. ASSUME NEW n \in Bad, \A k \in Bad : n <= k PROVE FALSE
  <2>1. n # 0
    <3> DEFINE g == [s \in SubsetsTo(S, 0) |-> 0]
    <3>1. \A s \in SubsetsTo(S, 0) : s = {}
      BY <1>0, FS_EmptySet DEF SubsetsTo
    <3>2. Adds(g, f, SubsetsTo(S, 0))
      BY <3>1 DEF Adds
    <3> QED BY <3>2, <1>1
  <2>2. n - 1 \in Nat /\ n - 1 \notin Bad
    BY <2>1, <1>1
  <2>3. PICK h : Adds(h, f, SubsetsTo(S, n - 1))
    BY <2>2
  <2> DEFINE g == [s \in SubsetsTo(S, n) |->
                     IF s = {} THEN 0 ELSE f[NextOf(s)] + h[s \ {NextOf(s)}]]
  <2>4. ASSUME NEW s \in SubsetsTo(S, n), s # {}
        PROVE  /\ s \ {NextOf(s)} \in SubsetsTo(S, n - 1)
               /\ s \ {NextOf(s)} \in SubsetsTo(S, n)
    <3>1. NextOf(s) \in s
      BY <2>4 DEF NextOf
    <3>2. IsFiniteSet(s) /\ Cardinality(s) \in Nat /\ Cardinality(s) <= n /\ s \in SUBSET S
      BY <1>0 DEF SubsetsTo
    <3>3. Cardinality(s \ {NextOf(s)}) = Cardinality(s) - 1
      BY <3>1, <3>2, FS_RemoveElement
    <3> QED BY <3>2, <3>3, <1>1 DEF SubsetsTo
  <2>5. ASSUME NEW s \in SubsetsTo(S, n - 1) PROVE h[s] = g[s]
    <3>1. s \in SubsetsTo(S, n)
      BY <1>0, <1>1 DEF SubsetsTo
    <3>2. h[s] = IF s = {} THEN 0 ELSE f[NextOf(s)] + h[s \ {NextOf(s)}]
      BY <2>3 DEF Adds
    <3> QED BY <3>1, <3>2
  <2> HIDE DEF g
  <2>6. g = [s \in SubsetsTo(S, n) |->
                     IF s = {} THEN 0 ELSE f[NextOf(s)] + h[s \ {NextOf(s)}]]
    BY DEF g
  <2>7. Adds(g, f, SubsetsTo(S, n))
    BY <2>4, <2>5, <2>6 DEF Adds
  <2> QED BY <2>7, <1>1
<1>2. Bad = {}
  <2> SUFFICES ASSUME Bad # {} PROVE FALSE
    OBVIOUS
  <2>1. PICK n \in Bad : \A k \in Bad : n <= k
    BY FirstNumber
  <2> QED BY <2>1, <1>1
<1>3. SubsetsTo(S, Cardinality(S)) = SUBSET S
  BY <1>0 DEF SubsetsTo
<1>4. Cardinality(S) \in Nat
  BY FS_CardinalityType
<1>5. \E g : Adds(g, f, SubsetsTo(S, Cardinality(S)))
  BY <1>2, <1>4
<1> QED BY <1>3, <1>5

\* Sums over the subsets of two sets are the same where both are defined, and
\* so are those of two functions that are the same on the smaller set.
LEMMA SumsAgree ==
  ASSUME NEW f, NEW g, NEW e, NEW h, NEW S, NEW T \in SUBSET S, IsFiniteSet(S),
         Adds(g, f, SUBSET S), Adds(h, e, SUBSET T), \A x \in T : f[x] = e[x]
  PROVE  \A s \in SUBSET T : g[s] = h[s]
<1> DEFINE Bad == {Cardinality(s) : s \in {t \in SUBSET T : g[t] # h[t]}}
<1>0. \A s \in SUBSET T : IsFiniteSet(s) /\ Cardinality(s) \in Nat
  BY FS_Subset, FS_CardinalityType
<1> SUFFICES ASSUME Bad # {} PROVE FALSE
  OBVIOUS
<1>1. PICK n \in Bad : \A k \in Bad : n <= k
  BY <1>0, FirstNumber
<1>2. PICK s \in SUBSET T : g[s] # h[s] /\ Cardinality(s) = n
  BY <1>1
<1>3. /\ g[s] = IF s = {} THEN 0 ELSE f[NextOf(s)] + g[s \ {NextOf(s)}]
      /\ h[s] = IF s = {} THEN 0 ELSE e[NextOf(s)] + h[s \ {NextOf(s)}]
  BY DEF Adds
<1>4. s # {}
  BY <1>2, <1>3
<1>5. NextOf(s) \in s
  BY <1>4 DEF NextOf
<1>6. Cardinality(s \ {NextOf(s)}) = n - 1 /\ n \in Nat
  BY <1>0, <1>2, <1>5, FS_RemoveElement
<1>7. s \ {NextOf(s)} \in SUBSET T /\ n - 1 \notin Bad
  BY <1>6, <1>1
<1>8. g[s \ {NextOf(s)}] = h[s \ {NextOf(s)}]
  BY <1>6, <1>7
<1> QED BY <1>2, <1>3, <1>5, <1>8

\* What SumFunctionOnSet computes: the sums over the subsets of its set.
LEMMA SumIsOne ==
  ASSUME NEW f, NEW S, IsFiniteSet(S)
  PROVE  \E g : Adds(g, f, SUBSET S) /\ SumFunctionOnSet(f, S) = g[S]
<1> DEFINE g == CHOOSE g : Adds(g, f, SUBSET S)
<1>1. Adds(g, f, SUBSET S)
  BY SumsExist
<1>2. SumFunctionOnSet(f, S) = g[S]
  BY DEF SumFunctionOnSet, FoldFunctionOnSet, MapThenFoldSet, Adds, NextOf
<1> QED BY <1>1, <1>2

\* Sums of functions that are the same on a set.
LEMMA SumSame ==
  ASSUME NEW f, NEW e, NEW S, IsFiniteSet(S), \A x \in S : f[x] = e[x]
  PROVE  SumFunctionOnSet(f, S) = SumFunctionOnSet(e, S)
<1>1. PICK g : Adds(g, f, SUBSET S) /\ SumFunctionOnSet(f, S) = g[S]
  BY SumIsOne
<1>2. PICK h : Adds(h, e, SUBSET S) /\ SumFunctionOnSet(e, S) = h[S]
  BY SumIsOne
<1>3. \A s \in SUBSET S : g[s] = h[s]
  BY <1>1, <1>2, SumsAgree
<1> QED BY <1>1, <1>2, <1>3

\* A sum is that of the next element and of the others.
LEMMA SumNext ==
  ASSUME NEW f, NEW S, IsFiniteSet(S)
  PROVE  SumFunctionOnSet(f, S) =
           IF S = {} THEN 0 ELSE f[NextOf(S)] + SumFunctionOnSet(f, S \ {NextOf(S)})
<1> DEFINE T == S \ {NextOf(S)}
<1>1. IsFiniteSet(T)
  BY FS_Subset
<1>2. PICK g : Adds(g, f, SUBSET S) /\ SumFunctionOnSet(f, S) = g[S]
  BY SumIsOne
<1>3. PICK h : Adds(h, f, SUBSET T) /\ SumFunctionOnSet(f, T) = h[T]
  BY <1>1, SumIsOne
<1>4. T \in SUBSET S /\ \A x \in T : f[x] = f[x]
  OBVIOUS
<1> HIDE DEF T
<1>6. \A s \in SUBSET T : g[s] = h[s]
  BY <1>2, <1>3, <1>4, SumsAgree
<1>5. g[S] = IF S = {} THEN 0 ELSE f[NextOf(S)] + g[T]
  BY <1>2 DEF Adds, T
<1> QED BY <1>2, <1>3, <1>5, <1>6 DEF T

\* A sum of numbers is one, and each element of its set can be taken out.
LEMMA SumTakesOut ==
  ASSUME NEW f, NEW S, IsFiniteSet(S), \A x \in S : f[x] \in Int
  PROVE  /\ SumFunctionOnSet(f, S) \in Int
         /\ \A x \in S : SumFunctionOnSet(f, S) = f[x] + SumFunctionOnSet(f, S \ {x})
<1> DEFINE Good(s) == /\ SumFunctionOnSet(f, s) \in Int
                      /\ \A x \in s : SumFunctionOnSet(f, s) = f[x] + SumFunctionOnSet(f, s \ {x})
           Bad == {Cardinality(s) : s \in {t \in SUBSET S : ~Good(t)}}
<1>0. \A s \in SUBSET S : IsFiniteSet(s) /\ Cardinality(s) \in Nat
  BY FS_Subset, FS_CardinalityType
<1>1. ASSUME Bad # {} PROVE FALSE
  <2>0. Bad \subseteq Nat
    BY <1>0
  <2>1. PICK n \in Bad : \A k \in Bad : n <= k
    <3> HIDE DEF Bad
    <3> QED BY <1>1, <2>0, FirstNumber
  <2>2. PICK s \in SUBSET S : ~Good(s) /\ Cardinality(s) = n
    BY <2>1
  <2>3. ASSUME NEW x \in s
        PROVE  /\ s \ {x} \in SUBSET S /\ IsFiniteSet(s \ {x}) /\ f[x] \in Int
               /\ Cardinality(s \ {x}) < n /\ Good(s \ {x})
    <3>1. Cardinality(s \ {x}) = n - 1 /\ n \in Nat
      BY <1>0, <2>2, FS_RemoveElement
    <3>2. s \ {x} \in SUBSET S /\ f[x] \in Int
      OBVIOUS
    <3>3. n - 1 \notin Bad
      BY <3>1, <2>1
    <3>4. Good(s \ {x})
      BY <3>1, <3>2, <3>3
    <3>5. IsFiniteSet(s \ {x}) /\ Cardinality(s \ {x}) < n
      BY <1>0, <3>1, <3>2
    <3> QED BY <3>2, <3>4, <3>5
  <2>4. s # {}
    <3> SUFFICES ASSUME s = {} PROVE FALSE
      OBVIOUS
    <3>1. SumFunctionOnSet(f, s) = 0
      BY <1>0, SumNext
    <3> QED BY <3>1, <2>2
  <2> DEFINE c == NextOf(s)
  <2>5. c \in s
    BY <2>4 DEF NextOf
  <2>6. SumFunctionOnSet(f, s) = f[c] + SumFunctionOnSet(f, s \ {c})
    BY <1>0, <2>4, SumNext
  <2> HIDE DEF c
  <2>7. SumFunctionOnSet(f, s) \in Int
    <3>1. f[c] \in Int /\ SumFunctionOnSet(f, s \ {c}) \in Int
      BY <2>3, <2>5
    <3> QED BY <3>1, <2>6
  <2>8. ASSUME NEW x \in s
        PROVE  SumFunctionOnSet(f, s) = f[x] + SumFunctionOnSet(f, s \ {x})
    <3>1. CASE x = c
      BY <3>1, <2>6
    <3>2. CASE x # c
      <4>1. /\ SumFunctionOnSet(f, s \ {c}) = f[x] + SumFunctionOnSet(f, (s \ {c}) \ {x})
            /\ SumFunctionOnSet(f, s \ {x}) = f[c] + SumFunctionOnSet(f, (s \ {x}) \ {c})
        BY <3>2, <2>3, <2>5
      <4>2. (s \ {c}) \ {x} = (s \ {x}) \ {c}
        OBVIOUS
      <4>3. f[x] \in Int /\ f[c] \in Int /\ SumFunctionOnSet(f, s \ {x}) \in Int
            /\ SumFunctionOnSet(f, s \ {c}) \in Int
        BY <2>3, <2>5
      <4>4. SumFunctionOnSet(f, (s \ {x}) \ {c}) \in Int
        <5>1. c \in s \ {x} /\ (s \ {x}) \ {c} \in SUBSET S
          BY <2>5, <3>2
        <5>2. IsFiniteSet((s \ {x}) \ {c}) /\ Cardinality((s \ {x}) \ {c}) = Cardinality(s \ {x}) - 1
          BY <5>1, <2>3, FS_RemoveElement
        <5>3. Cardinality((s \ {x}) \ {c}) < n /\ Cardinality((s \ {x}) \ {c}) \in Nat /\ n \in Nat
          <6>1. Cardinality((s \ {x}) \ {c}) \in Nat /\ n \in Nat
            BY <5>1, <1>0, <2>0
          <6>2. Cardinality(s \ {x}) < n /\ Cardinality(s \ {x}) \in Nat
            BY <2>3, <1>0
          <6> QED BY <5>2, <6>1, <6>2
        <5>4. Cardinality((s \ {x}) \ {c}) \notin Bad
          BY <5>3, <2>1
        <5> QED BY <5>1, <5>4
      <4> DEFINE rest == SumFunctionOnSet(f, (s \ {x}) \ {c})
                 one == SumFunctionOnSet(f, s \ {c})
                 other == SumFunctionOnSet(f, s \ {x})
      <4>5. one = f[x] + rest /\ other = f[c] + rest /\ rest \in Int
        BY <4>1, <4>2, <4>4
      <4>6. SumFunctionOnSet(f, s) = f[c] + one
        BY <2>6
      <4> HIDE DEF rest, one
      <4> QED BY <4>3, <4>5, <4>6
    <3> QED BY <3>1, <3>2
  <2> QED BY <2>2, <2>7, <2>8
<1> QED BY <1>1

\* Sums of natural numbers are larger for larger sets.
LEMMA SumMonotone ==
  ASSUME NEW f, NEW S, IsFiniteSet(S), NEW T \in SUBSET S, \A x \in S : f[x] \in Nat
  PROVE  /\ SumFunctionOnSet(f, T) \in Nat /\ SumFunctionOnSet(f, S) \in Nat
         /\ SumFunctionOnSet(f, T) <= SumFunctionOnSet(f, S)
         /\ SumFunctionOnSet(f, S) = SumFunctionOnSet(f, T) + SumFunctionOnSet(f, S \ T)
<1> DEFINE sum(s) == SumFunctionOnSet(f, s)
           Good(s) == \A t \in SUBSET s : /\ sum(t) \in Nat /\ sum(s) \in Nat
                                          /\ sum(s) = sum(t) + sum(s \ t)
           Bad == {Cardinality(s) : s \in {t \in SUBSET S : ~Good(t)}}
<1>0. \A s \in SUBSET S : /\ IsFiniteSet(s) /\ Cardinality(s) \in Nat /\ sum(s) \in Int
                           /\ \A x \in s : sum(s) = f[x] + sum(s \ {x})
  <2> SUFFICES ASSUME NEW s \in SUBSET S
               PROVE  /\ IsFiniteSet(s) /\ Cardinality(s) \in Nat /\ sum(s) \in Int
                      /\ \A x \in s : sum(s) = f[x] + sum(s \ {x})
    OBVIOUS
  <2>1. IsFiniteSet(s) /\ Cardinality(s) \in Nat
    BY FS_Subset, FS_CardinalityType
  <2>2. \A x \in s : f[x] \in Int
    OBVIOUS
  <2> QED BY <2>1, <2>2, SumTakesOut
<1>1. ASSUME Bad # {} PROVE FALSE
  <2>0. Bad \subseteq Nat
    BY <1>0
  <2>1. PICK n \in Bad : \A k \in Bad : n <= k
    <3> HIDE DEF Bad
    <3> QED BY <1>1, <2>0, FirstNumber
  <2>2. PICK s \in SUBSET S : ~Good(s) /\ Cardinality(s) = n
    BY <2>1
  <2> HIDE DEF sum
  <2>3. ASSUME NEW x \in s PROVE s \ {x} \in SUBSET S /\ f[x] \in Nat /\ Good(s \ {x})
    <3>1. Cardinality(s \ {x}) = n - 1 /\ n \in Nat
      BY <1>0, <2>2, FS_RemoveElement
    <3>2. s \ {x} \in SUBSET S /\ f[x] \in Nat
      OBVIOUS
    <3>3. n - 1 \notin Bad
      BY <3>1, <2>1
    <3>4. Good(s \ {x})
      BY <3>1, <3>2, <3>3
    <3> QED BY <1>0, <3>1, <3>2, <3>4
  <2>4. CASE s = {}
    <3>1. sum(s) = 0
      BY <1>0, <2>4, SumNext DEF sum
    <3>2. \A t \in SUBSET s : t = s /\ s \ t = s
      BY <2>4
    <3> QED BY <3>1, <3>2, <2>2
  <2>5. ASSUME NEW x \in s PROVE FALSE
    <3>1. sum(s) = f[x] + sum(s \ {x}) /\ f[x] \in Nat /\ Good(s \ {x})
      BY <1>0, <2>3
    <3>2. sum(s \ {x}) \in Nat
      BY <3>1
    <3>3. ASSUME NEW t \in SUBSET s
          PROVE  sum(t) \in Nat /\ sum(s) \in Nat /\ sum(s) = sum(t) + sum(s \ t)
      <4>1. CASE x \in t
        <5>1. t \ {x} \in SUBSET (s \ {x}) /\ (s \ {x}) \ (t \ {x}) = s \ t
              /\ t \in SUBSET S /\ s \ t \in SUBSET S
          BY <4>1
        <5>2. sum(t) = f[x] + sum(t \ {x})
          BY <4>1, <5>1, <1>0
        <5>3. sum(t \ {x}) \in Nat /\ sum(s \ {x}) = sum(t \ {x}) + sum(s \ t)
          BY <5>1, <3>1
        <5>4. sum(s \ t) \in Int
          BY <5>1, <1>0
        <5>5. sum(s) = f[x] + sum(s \ {x}) /\ f[x] \in Nat
          BY <3>1
        <5> HIDE DEF Good, Bad
        <5> QED BY ONLY <5>5, <3>2, <5>2, <5>3, <5>4
      <4>2. CASE x \notin t
        <5>1. /\ t \in SUBSET (s \ {x}) /\ (s \ t) \ {x} = (s \ {x}) \ t /\ x \in s \ t
              /\ s \ t \in SUBSET S /\ (s \ {x}) \ t \in SUBSET S
          BY <4>2
        <5>2. sum(s \ t) = f[x] + sum((s \ t) \ {x})
          BY <5>1, <1>0
        <5>3. sum(t) \in Nat /\ sum(s \ {x}) = sum(t) + sum((s \ {x}) \ t)
          BY <5>1, <3>1
        <5>4. sum((s \ {x}) \ t) \in Int
          BY <5>1, <1>0
        <5>5. sum(s \ t) = f[x] + sum((s \ {x}) \ t)
          BY <5>1, <5>2
        <5>6. sum(s) = f[x] + sum(s \ {x}) /\ f[x] \in Nat
          BY <3>1
        <5> HIDE DEF Good, Bad
        <5> QED BY ONLY <5>6, <3>2, <5>3, <5>4, <5>5
      <4> QED BY <4>1, <4>2
    <3> QED BY <3>3, <2>2
  <2> QED BY <2>4, <2>5
<1>2. Good(S)
  BY <1>1
<1>3. sum(T) \in Nat /\ sum(S) \in Nat /\ sum(S) = sum(T) + sum(S \ T)
  BY <1>2
<1>4. Good(S \ T)
  BY <1>1
<1>5. sum(S \ T) \in Nat
  BY <1>4
<1> QED BY <1>3, <1>5

----------------------------------------------------------------------------
(* What is on the GPU, and how much that is                                *)

Input == /\ model \in Ggufs /\ draft \in Ggufs \cup {NoDraft} /\ values \in Settings
         /\ devices \in Machines

\* q keeps what p keeps on the GPU: fewer tensors moved, more layers offloaded.
Under(p, q) ==
  /\ p.experts = q.experts /\ p.overrides = q.overrides /\ q.toRam \subseteq p.toRam
  /\ p.layers \in Int /\ q.layers \in Int
  /\ q.layers < 0 \/ (0 <= p.layers /\ p.layers <= q.layers)

\* What a model's file says.
LEMMA GgufCounts ==
  ASSUME NEW m \in Ggufs
  PROVE  /\ m.layers \in Nat \ {0} /\ {m.window, m.state, m.vocabulary, m.width} \subseteq Nat
         /\ \A k \in 0..(m.layers - 1) : m.heads[k + 1] \in Nat
         /\ Len(m.tensors) \in Nat /\ DOMAIN m.tensors = 1..Len(m.tensors)
         /\ IsFiniteSet(DOMAIN m.tensors) /\ IsFiniteSet(0..(m.layers - 1))
         /\ \A i \in DOMAIN m.tensors : m.tensors[i].layer \in Int /\ m.tensors[i].size \in Nat
<1>1. /\ m.layers \in Nat \ {0} /\ m.heads \in [1..m.layers -> Nat]
      /\ m.tensors \in Seq([layer : Int, expert : BOOLEAN, size : Nat])
      /\ {m.window, m.state, m.vocabulary, m.width} \subseteq Nat
  BY GgufAssumption
<1>2. Len(m.tensors) \in Nat /\ DOMAIN m.tensors = 1..Len(m.tensors)
  BY <1>1
<1>3. IsFiniteSet(1..Len(m.tensors)) /\ IsFiniteSet(0..(m.layers - 1))
  <2>1. Len(m.tensors) \in Int /\ m.layers - 1 \in Int
    BY <1>1, <1>2
  <2>2. IsFiniteSet(1..Len(m.tensors))
    BY <2>1, FS_Interval
  <2>3. IsFiniteSet(0..(m.layers - 1))
    BY <2>1, FS_Interval
  <2> QED BY <2>2, <2>3
<1>4. ASSUME NEW i \in DOMAIN m.tensors
      PROVE  m.tensors[i].layer \in Int /\ m.tensors[i].size \in Nat
  <2> DEFINE R == [layer : Int, expert : BOOLEAN, size : Nat]
             ts == m.tensors
  <2>1. ts[i] \in R
    <3>1. ts \in Seq(R) /\ i \in DOMAIN ts
      BY <1>1
    <3> HIDE DEF R, ts
    <3> QED BY <3>1
  <2> QED BY <2>1
<1>5. ASSUME NEW k \in 0..(m.layers - 1) PROVE m.heads[k + 1] \in Nat
  <2>1. k + 1 \in 1..m.layers
    BY <1>1
  <2> QED BY <1>1, <2>1
<1> QED BY <1>1, <1>2, <1>3, <1>4, <1>5

\* The layers, and the tensors, that stay on the GPU.
LEMMA UnderKeeps ==
  ASSUME NEW m \in Ggufs, NEW p, NEW q, Under(p, q)
  PROVE  /\ \A k \in Int : LayerOnGpu(m, p, k) => LayerOnGpu(m, q, k)
         /\ OnGpu(m, p) \subseteq OnGpu(m, q)
<1>1. ASSUME NEW k \in Int, LayerOnGpu(m, p, k) PROVE LayerOnGpu(m, q, k)
  <2>1. m.layers \in Nat
    BY GgufAssumption
  <2> QED BY <1>1, <2>1 DEF Under, LayerOnGpu, Larger
<1>2. ASSUME NEW i \in DOMAIN m.tensors, TensorOnGpu(m, p, i) PROVE TensorOnGpu(m, q, i)
  <2> DEFINE t == m.tensors[i]
             rules == {r \in DOMAIN p.overrides : Matches(p.overrides[r], t)}
  <2>1. t.layer \in Int
    BY GgufCounts
  <2>2. p.overrides = q.overrides /\ p.experts = q.experts /\ q.toRam \subseteq p.toRam
    BY DEF Under
  <2>3. rules = {r \in DOMAIN q.overrides : Matches(q.overrides[r], t)}
    BY <2>2
  <2> DEFINE ruled == p.overrides[Min(rules)].gpu
             layer(x) == LayerOnGpu(m, x, t.layer)
             kept(x) == /\ i \notin x.toRam /\ t.layer # Outside
                        /\ ~(t.expert /\ x.experts # Unset /\ t.layer < x.experts)
  <2>4. TensorOnGpu(m, p, i) = CASE ~Gpu -> FALSE
                                [] Gpu /\ rules # {} -> ruled
                                [] Gpu /\ rules = {} -> kept(p) /\ layer(p)
    BY DEF TensorOnGpu
  <2>5. TensorOnGpu(m, q, i) = CASE ~Gpu -> FALSE
                                [] Gpu /\ rules # {} -> ruled
                                [] Gpu /\ rules = {} -> kept(q) /\ layer(q)
    BY <2>2, <2>3 DEF TensorOnGpu
  <2>6. kept(p) => kept(q)
    BY <2>2
  <2>7. layer(p) => layer(q)
    BY <1>1, <2>1
  <2> HIDE DEF rules, ruled, layer, kept
  <2>8. CASE ~Gpu
    BY <2>4, <2>8, <1>2
  <2>9. CASE Gpu /\ rules # {}
    BY <2>4, <2>5, <2>9, <1>2
  <2>10. CASE Gpu /\ rules = {}
    BY <2>4, <2>5, <2>6, <2>7, <2>10, <1>2
  <2> QED BY <2>8, <2>9, <2>10
<1> QED BY <1>1, <1>2 DEF OnGpu

\* Settings are counts.
LEMMA SettingsCount ==
  ASSUME Input
  PROVE  Context \in Nat /\ Slots \in Nat /\ Ubatch \in Nat /\ Padded(Context) \in Nat
<1>1. /\ {values.context, values.batch, values.ubatch} \subseteq Nat /\ values.parallel \in Int
      /\ model.trained \in Nat /\ Pad \in Nat \ {0}
  BY SettingsAssumption, GgufAssumption, MemoryFitAssumption DEF Input
<1>2. Context \in Nat /\ Slots \in Nat
  BY <1>1 DEF Context, Slots
<1>3. Ubatch \in Nat
  BY <1>1, <1>2 DEF Ubatch, Smaller
<1>4. \A n \in Nat : n \div Pad \in Nat
  BY <1>1
<1>5. (Context + Pad - 1) \in Nat
  BY <1>1, <1>2
<1>6. \A n \in Nat : n * Pad \in Nat
  BY <1>1
<1> QED BY <1>2, <1>3, <1>4, <1>5, <1>6 DEF Padded

\* A layer's cache takes some room.
LEMMA CacheCounts ==
  ASSUME Input, NEW m \in Ggufs, NEW k \in 0..(m.layers - 1),
         NEW typeK \in DOMAIN CacheSize, NEW typeV \in DOMAIN CacheSize
  PROVE  CacheOf(m, k, typeK, typeV) \in Nat
<1>1. /\ m.heads[k + 1] \in Nat /\ m.window \in Nat /\ Pad \in Nat \ {0}
      /\ CacheSize[typeK] + CacheSize[typeV] \in Nat
  BY GgufCounts, MemoryFitAssumption
<1>2. Context \in Nat /\ Slots \in Nat /\ Ubatch \in Nat /\ Padded(Context) \in Nat
  BY SettingsCount
<1>3. \A a, b \in Nat : a * b \in Nat
  OBVIOUS
<1>4. m.window * Slots + Ubatch \in Nat
  BY <1>1, <1>2, <1>3
<1>5. Padded(m.window * Slots + Ubatch) \in Nat
  <2>1. \A n \in Nat : (n + Pad - 1) \div Pad \in Nat
    BY <1>1
  <2> QED BY <1>1, <1>3, <1>4, <2>1 DEF Padded
<1> DEFINE full == Padded(Context)
           windowed == IF values.swaFull THEN full
                       ELSE Smaller(full, Padded(m.window * Slots + Ubatch))
           tokens == IF Slides(m, k) THEN windowed ELSE full
           each == CacheSize[typeK] + CacheSize[typeV]
<1>6. tokens \in Nat
  BY <1>2, <1>5 DEF Smaller
<1>7. CacheOf(m, k, typeK, typeV) = IF ~Attends(m, k) THEN 0 ELSE tokens * m.heads[k + 1] * each
  BY DEF CacheOf
<1>8. each \in Nat
  BY <1>1
<1> HIDE DEF tokens, each
<1>9. tokens * m.heads[k + 1] \in Nat
  BY <1>1, <1>3, <1>6
<1>10. tokens * m.heads[k + 1] * each \in Nat
  BY <1>3, <1>8, <1>9
<1> QED BY <1>7, <1>10

\* A set of numbers up to a limit has a largest one, and Max is it.
LEMMA MaxIsLargest ==
  ASSUME NEW S \in SUBSET Nat, NEW b \in Nat, \A x \in S : x <= b, S # {}
  PROVE  Max(S) \in S /\ \A x \in S : x <= Max(S)
<1> DEFINE up == {n \in Nat : \A x \in S : x <= n}
<1>5. up # {} /\ up \subseteq Nat
  OBVIOUS
<1> HIDE DEF up
<1>2. PICK n \in up : \A k \in up : n <= k
  BY <1>5, FirstNumber
<1> USE DEF up
<1>3. n \in S
  <2> SUFFICES ASSUME n \notin S PROVE FALSE
    OBVIOUS
  <2>1. \A x \in S : x < n
    BY <1>2
  <2>2. n - 1 \in Nat
    <3>1. PICK x \in S : TRUE
      OBVIOUS
    <3>2. x < n /\ x \in Nat /\ n \in Nat
      BY <2>1, <1>2
    <3> QED BY <3>2
  <2>3. n - 1 \in up
    BY <2>1, <2>2
  <2> QED BY <1>2, <2>3
<1>4. \A x \in S : n >= x
  BY <1>2
<1> QED BY <1>3, <1>4 DEF Max

\* The weights on the GPU and the layer that is copied to it, together.
LEMMA WeightsGrow ==
  ASSUME NEW m \in Ggufs, NEW p, NEW q, OnGpu(m, p) \subseteq OnGpu(m, q)
  PROVE  /\ SizeOf(m, OnGpu(m, p)) \in Nat /\ SizeOf(m, OnGpu(m, q)) \in Nat
         /\ LargestCpuLayer(m, p) \in Nat /\ LargestCpuLayer(m, q) \in Nat
         /\ SizeOf(m, OnGpu(m, p)) <= SizeOf(m, OnGpu(m, q))
         /\ SizeOf(m, OnGpu(m, p)) + LargestCpuLayer(m, p)
              <= SizeOf(m, OnGpu(m, q)) + LargestCpuLayer(m, q)
<1> DEFINE D == DOMAIN m.tensors
           f == [i \in D |-> m.tensors[i].size]
           sum(T) == SumFunctionOnSet(f, T)
           A == OnGpu(m, p)
           B == OnGpu(m, q)
           Layer(x, k) == {i \in D \ OnGpu(m, x) : m.tensors[i].layer = k}
           Ks == 0..(m.layers - 1)
           Sizes(x) == {0} \cup {sum(Layer(x, k)) : k \in Ks}
<1>1. IsFiniteSet(D) /\ IsFiniteSet(Ks) /\ \A i \in D : f[i] \in Nat
  BY GgufCounts
<1>2. A \subseteq B /\ B \subseteq D
  BY DEF OnGpu
<1>3. \A T \in SUBSET D : IsFiniteSet(T) /\ \A i \in T : f[i] \in Nat
  BY <1>1, FS_Subset
<1> HIDE DEF f
<1>4. \A T \in SUBSET D : sum(T) \in Nat
  BY <1>3, SumMonotone
<1>5. ASSUME NEW T \in SUBSET D, NEW S \in SUBSET T PROVE sum(T) = sum(S) + sum(T \ S)
  BY <1>3, SumMonotone
<1>6. ASSUME NEW T \in SUBSET D, NEW S \in SUBSET T PROVE sum(S) <= sum(T)
  BY <1>3, SumMonotone
<1>7. \A x : LargestCpuLayer(m, x) = Max(Sizes(x))
  BY DEF LargestCpuLayer, SizeOf, f
<1> HIDE DEF sum
<1>8. ASSUME NEW x PROVE /\ Max(Sizes(x)) \in Sizes(x) /\ Max(Sizes(x)) \in Nat
                         /\ \A s \in Sizes(x) : s <= Max(Sizes(x))
  <2>1. \A k \in Ks : Layer(x, k) \in SUBSET D
    OBVIOUS
  <2>2. Sizes(x) \subseteq Nat /\ Sizes(x) # {}
    <3>1. \A k \in Ks : sum(Layer(x, k)) \in Nat
      BY <1>4, <2>1
    <3> HIDE DEF Ks, Layer
    <3> QED BY <3>1
  <2>3. sum(D) \in Nat /\ \A z \in Sizes(x) : z <= sum(D)
    <3>1. sum(D) \in Nat /\ \A k \in Ks : sum(Layer(x, k)) <= sum(D)
      BY <1>4, <1>6, <2>1
    <3> HIDE DEF Ks, Layer
    <3> QED BY <3>1
  <2> HIDE DEF Sizes
  <2>5. Max(Sizes(x)) \in Sizes(x) /\ \A s \in Sizes(x) : s <= Max(Sizes(x))
    BY <2>2, <2>3, MaxIsLargest
  <2> QED BY <2>2, <2>5
<1>9. sum(B) = sum(A) + sum(B \ A)
  BY <1>2, <1>5
<1>10. sum(A) \in Nat /\ sum(B) \in Nat /\ sum(B \ A) \in Nat
  BY <1>2, <1>4
<1>11. Max(Sizes(p)) <= Max(Sizes(q)) + sum(B \ A)
  <2>1. CASE Max(Sizes(p)) = 0
    <3>1. Max(Sizes(q)) \in Nat
      BY <1>8
    <3>2. sum(B \ A) \in Nat
      BY <1>10
    <3> QED BY ONLY <2>1, <3>1, <3>2
  <2>2. ASSUME NEW k \in Ks, Max(Sizes(p)) = sum(Layer(p, k))
        PROVE  Max(Sizes(p)) <= Max(Sizes(q)) + sum(B \ A)
    <3>1. Layer(q, k) \subseteq Layer(p, k) /\ Layer(p, k) \subseteq D
          /\ Layer(p, k) \ Layer(q, k) \subseteq B \ A
      BY <1>2
    <3>2. sum(Layer(p, k)) = sum(Layer(q, k)) + sum(Layer(p, k) \ Layer(q, k))
      BY <3>1, <1>5
    <3>3. sum(Layer(p, k) \ Layer(q, k)) <= sum(B \ A)
      BY <3>1, <1>2, <1>6
    <3>4. sum(Layer(q, k)) \in Nat /\ sum(Layer(p, k) \ Layer(q, k)) \in Nat
      BY <3>1, <1>4
    <3>5. sum(Layer(q, k)) \in Sizes(q)
      OBVIOUS
    <3>6. sum(Layer(q, k)) <= Max(Sizes(q)) /\ Max(Sizes(q)) \in Nat
      BY <3>5, <1>8
    <3> QED BY <2>2, <3>2, <3>3, <3>4, <3>6, <1>10
  <2> QED BY <2>1, <2>2, <1>8
<1>12. SizeOf(m, A) = sum(A) /\ SizeOf(m, B) = sum(B)
  BY DEF SizeOf, sum, f
<1>13. /\ LargestCpuLayer(m, p) = Max(Sizes(p)) /\ Max(Sizes(p)) \in Nat
       /\ LargestCpuLayer(m, q) = Max(Sizes(q)) /\ Max(Sizes(q)) \in Nat
  BY <1>7, <1>8
<1> HIDE DEF A, B, Sizes
<1>14. /\ sum(A) <= sum(B) /\ sum(A) + Max(Sizes(p)) <= sum(B) + Max(Sizes(q))
  BY <1>9, <1>10, <1>11, <1>13
<1> QED BY <1>10, <1>12, <1>13, <1>14 DEF A, B

\* The cache and the state of more layers are larger.
LEMMA CacheGrows ==
  ASSUME Input, NEW m \in Ggufs, NEW p, NEW q, Under(p, q),
         NEW typeK \in DOMAIN CacheSize, NEW typeV \in DOMAIN CacheSize
  PROVE  /\ CacheOnGpu(m, p, typeK, typeV) \in Nat /\ CacheOnGpu(m, q, typeK, typeV) \in Nat
         /\ CacheOnGpu(m, p, typeK, typeV) <= CacheOnGpu(m, q, typeK, typeV)
<1> DEFINE Ks == 0..(m.layers - 1)
           f == [k \in Ks |-> CacheOf(m, k, typeK, typeV)]
           On(x) == {k \in Ks : values.kvOffload /\ LayerOnGpu(m, x, k)}
<1>1. IsFiniteSet(On(q)) /\ On(p) \subseteq On(q) /\ \A k \in On(q) : k \in Ks
  <2>1. \A k \in Ks : LayerOnGpu(m, p, k) => LayerOnGpu(m, q, k)
    BY UnderKeeps
  <2>2. IsFiniteSet(Ks)
    BY GgufCounts
  <2> QED BY <2>1, <2>2, FS_Subset
<1>2. \A k \in Ks : f[k] \in Nat
  BY CacheCounts
<1>3. \A x : CacheOnGpu(m, x, typeK, typeV) = SumFunctionOnSet(f, On(x))
  BY DEF CacheOnGpu
<1> HIDE DEF f, On, Ks
<1>4. \A k \in On(q) : f[k] \in Nat
  BY <1>1, <1>2
<1>5. /\ SumFunctionOnSet(f, On(p)) \in Nat /\ SumFunctionOnSet(f, On(q)) \in Nat
      /\ SumFunctionOnSet(f, On(p)) <= SumFunctionOnSet(f, On(q))
  BY <1>1, <1>4, SumMonotone
<1> QED BY <1>3, <1>5

\* So is what recurrent layers keep.
LEMMA StateGrows ==
  ASSUME Input, NEW m \in Ggufs, NEW p, NEW q, Under(p, q)
  PROVE  StateOnGpu(m, p) \in Nat /\ StateOnGpu(m, q) \in Nat /\ StateOnGpu(m, p) <= StateOnGpu(m, q)
<1> DEFINE Ks == 0..(m.layers - 1)
           On(x) == {k \in Ks : m.recurrent /\ ~Attends(m, k) /\ LayerOnGpu(m, x, k)}
           a == Cardinality(On(p))
           b == Cardinality(On(q))
           each == m.state * Slots
<1>1. IsFiniteSet(Ks) /\ On(p) \subseteq On(q) /\ On(q) \subseteq Ks
  <2>1. \A k \in Ks : LayerOnGpu(m, p, k) => LayerOnGpu(m, q, k)
    BY UnderKeeps
  <2>2. IsFiniteSet(Ks)
    BY GgufCounts
  <2> QED BY <2>1, <2>2
<1>2. a \in Nat /\ b \in Nat /\ a <= b
  <2> HIDE DEF On, Ks
  <2>1. IsFiniteSet(On(q))
    BY <1>1, FS_Subset
  <2>2. IsFiniteSet(On(p)) /\ a <= b
    BY <1>1, <2>1, FS_Subset
  <2> QED BY <2>1, <2>2, FS_CardinalityType
<1>3. each \in Nat
  <2>1. m.state \in Nat /\ Slots \in Nat
    BY GgufCounts, SettingsCount
  <2>2. \A x, y \in Nat : x * y \in Nat
    OBVIOUS
  <2> QED BY <2>1, <2>2
<1>4. StateOnGpu(m, p) = each * a /\ StateOnGpu(m, q) = each * b
  BY DEF StateOnGpu
<1> HIDE DEF each, a, b
<1>5. \A x, y, z \in Nat : y <= z => x * y \in Nat /\ x * z \in Nat /\ x * y <= x * z
  OBVIOUS
<1> QED BY <1>2, <1>3, <1>4, <1>5

\* So the whole of the model is: what is copied to the GPU for large batches is
\* made up for by what stays there.
LEMMA SizeGrows ==
  ASSUME Input, NEW m \in Ggufs, NEW p, NEW q, Under(p, q),
         NEW typeK \in DOMAIN CacheSize, NEW typeV \in DOMAIN CacheSize
  PROVE  /\ GpuSize(m, p, typeK, typeV) \in Nat /\ GpuSize(m, q, typeK, typeV) \in Nat
         /\ GpuSize(m, p, typeK, typeV) <= GpuSize(m, q, typeK, typeV)
<1> DEFINE logits == m.vocabulary * Ubatch
           activations == m.width * Ubatch
           attention == IF values.flash THEN 0 ELSE Padded(Context) * Ubatch
           output(x) == LayerOnGpu(m, x, m.layers)
           none(x) == \A k \in 0..(m.layers - 1) : ~LayerOnGpu(m, x, k)
           large == Ubatch >= CopiedFrom
           copied(x) == LargestCpuLayer(m, x)
           weights(x) == SizeOf(m, OnGpu(m, x))
<1>1. logits \in Nat /\ activations \in Nat /\ attention \in Nat
  <2>1. /\ m.vocabulary \in Nat /\ m.width \in Nat /\ Ubatch \in Nat /\ Padded(Context) \in Nat
    BY GgufCounts, SettingsCount
  <2>2. \A x, y \in Nat : x * y \in Nat
    OBVIOUS
  <2> QED BY <2>1, <2>2
<1>2. (none(q) => none(p)) /\ (output(p) => output(q))
  <2>1. m.layers \in Int /\ \A k \in 0..(m.layers - 1) : k \in Int
    BY GgufCounts
  <2> QED BY <2>1, UnderKeeps
<1>3. /\ weights(p) \in Nat /\ weights(q) \in Nat /\ copied(p) \in Nat /\ copied(q) \in Nat
      /\ weights(p) <= weights(q) /\ weights(p) + copied(p) <= weights(q) + copied(q)
  <2>1. OnGpu(m, p) \subseteq OnGpu(m, q)
    BY UnderKeeps
  <2> QED BY <2>1, WeightsGrow
<1>4. \A x : ComputeOnGpu(m, x) =
        IF none(x) THEN 0
        ELSE Larger(activations, IF output(x) THEN logits ELSE 0) + attention
             + (IF large THEN copied(x) ELSE 0)
  BY DEF ComputeOnGpu
<1> HIDE DEF logits, activations, attention, output, none, large, copied, weights
<1>5. /\ ComputeOnGpu(m, p) \in Nat /\ ComputeOnGpu(m, q) \in Nat
      /\ weights(p) + ComputeOnGpu(m, p) <= weights(q) + ComputeOnGpu(m, q)
  BY <1>1, <1>2, <1>3, <1>4 DEF Larger
<1>6. /\ CacheOnGpu(m, p, typeK, typeV) \in Nat /\ CacheOnGpu(m, q, typeK, typeV) \in Nat
      /\ CacheOnGpu(m, p, typeK, typeV) <= CacheOnGpu(m, q, typeK, typeV)
      /\ StateOnGpu(m, p) \in Nat /\ StateOnGpu(m, q) \in Nat /\ StateOnGpu(m, p) <= StateOnGpu(m, q)
  BY CacheGrows, StateGrows
<1>7. \A x : GpuSize(m, x, typeK, typeV) =
              weights(x) + CacheOnGpu(m, x, typeK, typeV) + StateOnGpu(m, x) + ComputeOnGpu(m, x)
  BY DEF GpuSize, weights
<1> QED BY <1>3, <1>5, <1>6, <1>7

\* The budget, and what the main model is compared with.
LEMMA FitsIsComparison ==
  ASSUME Input, NEW p, NEW q, Under(p, q)
  PROVE  /\ MainSize(p) \in Nat /\ MainSize(q) \in Nat /\ FitBudget \in Int /\ Extra \in Int
         /\ Fits(q) => Fits(p)
<1>1. /\ values.typeK \in DOMAIN CacheSize /\ values.typeV \in DOMAIN CacheSize /\ model \in Ggufs
      /\ values.draftK \in DOMAIN CacheSize /\ values.draftV \in DOMAIN CacheSize
      /\ values.fitTarget \in Int /\ values.projector \in Nat /\ values.draftLayers \in Int
      /\ devices.free \in Int /\ devices.capacity \in Int
  BY SettingsAssumption, MemoryFitAssumption DEF Input
<1>2. /\ MainSize(p) \in Nat /\ MainSize(q) \in Nat /\ MainSize(p) <= MainSize(q)
  BY <1>1, SizeGrows DEF MainSize
<1>3. FitBudget \in Int
  BY <1>1 DEF FitBudget, Free
<1>4. draft # NoDraft => GpuSize(draft, DraftPlacement, values.draftK, values.draftV) \in Nat
  <2> SUFFICES ASSUME draft # NoDraft
               PROVE  GpuSize(draft, DraftPlacement, values.draftK, values.draftV) \in Nat
    OBVIOUS
  <2>1. draft \in Ggufs
    BY DEF Input
  <2>2. Under(DraftPlacement, [DraftPlacement EXCEPT !.layers = Unset])
    BY <1>1 DEF Under, DraftPlacement, Unset
  <2> QED BY <1>1, <2>1, <2>2, SizeGrows
<1>5. Extra \in Int
  BY <1>1, <1>4 DEF Extra
<1> QED BY <1>2, <1>3, <1>5 DEF Fits

----------------------------------------------------------------------------
(* The searches                                                            *)

\* No step changes what is estimated, so sizes stay as they are.
LEMMA InputStays ==
  ASSUME UNCHANGED input
  PROVE  /\ Input' <=> Input
         /\ Gpu' = Gpu /\ Free' = Free /\ FitBudget' = FitBudget /\ Extra' = Extra
         /\ MainPlacement' = MainPlacement /\ ExpertTensors' = ExpertTensors
         /\ ExpertsMayMove' = ExpertsMayMove /\ LayersMayMove' = LayersMayMove
         /\ \A p : MainSize(p)' = MainSize(p) /\ Fits(p)' = Fits(p)
         /\ \A m, p : OnGpu(m, p)' = OnGpu(m, p)
         /\ \A n : FirstExperts(n)' = FirstExperts(n)
<1>1. model' = model /\ draft' = draft /\ values' = values /\ devices' = devices
  BY DEF input
<1>2. Gpu' = Gpu /\ Context' = Context /\ Slots' = Slots
  BY <1>1 DEF Gpu, Context, Slots
<1>3. Ubatch' = Ubatch
  BY <1>1, <1>2 DEF Ubatch
<1>4. \A m, p, k : LayerOnGpu(m, p, k)' = LayerOnGpu(m, p, k)
  BY <1>2 DEF LayerOnGpu
<1>5. \A m, p, i : TensorOnGpu(m, p, i)' = TensorOnGpu(m, p, i)
  BY <1>2, <1>4 DEF TensorOnGpu
<1>6. \A m, p : OnGpu(m, p)' = OnGpu(m, p)
  BY <1>5 DEF OnGpu
<1>7. \A m, k, a, b : CacheOf(m, k, a, b)' = CacheOf(m, k, a, b)
  BY <1>1, <1>2, <1>3 DEF CacheOf
<1>8. ASSUME NEW m, NEW p, NEW a, NEW b PROVE CacheOnGpu(m, p, a, b)' = CacheOnGpu(m, p, a, b)
  <2>1. [k \in 0..(m.layers - 1) |-> CacheOf(m, k, a, b)]' = [k \in 0..(m.layers - 1) |-> CacheOf(m, k, a, b)]
    BY <1>7
  <2>2. {k \in 0..(m.layers - 1) : values.kvOffload /\ LayerOnGpu(m, p, k)}'
          = {k \in 0..(m.layers - 1) : values.kvOffload /\ LayerOnGpu(m, p, k)}
    BY <1>1, <1>4
  <2> QED BY <2>1, <2>2 DEF CacheOnGpu
<1>9. ASSUME NEW m, NEW p PROVE StateOnGpu(m, p)' = StateOnGpu(m, p)
  <2>1. {k \in 0..(m.layers - 1) : m.recurrent /\ ~Attends(m, k) /\ LayerOnGpu(m, p, k)}'
          = {k \in 0..(m.layers - 1) : m.recurrent /\ ~Attends(m, k) /\ LayerOnGpu(m, p, k)}
    BY <1>4
  <2> QED BY <1>2, <2>1 DEF StateOnGpu
<1>10. ASSUME NEW m, NEW p PROVE LargestCpuLayer(m, p)' = LargestCpuLayer(m, p)
  BY <1>6 DEF LargestCpuLayer
<1>11. ASSUME NEW m, NEW p PROVE ComputeOnGpu(m, p)' = ComputeOnGpu(m, p)
  BY <1>1, <1>2, <1>3, <1>4, <1>10 DEF ComputeOnGpu
<1>12. \A m, p, a, b : GpuSize(m, p, a, b)' = GpuSize(m, p, a, b)
  BY <1>6, <1>8, <1>9, <1>11 DEF GpuSize
<1>13. MainPlacement' = MainPlacement /\ DraftPlacement' = DraftPlacement
  BY <1>1 DEF MainPlacement, DraftPlacement
<1>14. Extra' = Extra
  BY <1>1, <1>2, <1>12, <1>13 DEF Extra
<1>15. \A p : MainSize(p)' = MainSize(p)
  BY <1>1, <1>12 DEF MainSize
<1>16. Free' = Free /\ FitBudget' = FitBudget
  BY <1>1 DEF Free, FitBudget
<1>17. \A p : Fits(p)' = Fits(p)
  BY <1>14, <1>15, <1>16 DEF Fits
<1>18. ExpertTensors' = ExpertTensors
  BY <1>1 DEF ExpertTensors
<1>19. \A n : FirstExperts(n)' = FirstExperts(n)
  BY <1>1, <1>18 DEF FirstExperts, Before
<1>20. ExpertsMayMove' = ExpertsMayMove /\ LayersMayMove' = LayersMayMove
  BY <1>1, <1>18 DEF ExpertsMayMove, LayersMayMove, MovableExperts
<1>21. Input' <=> Input
  BY <1>1 DEF Input
<1> QED BY <1>2, <1>6, <1>13, <1>14, <1>15, <1>16, <1>17, <1>18, <1>19, <1>20, <1>21

\* The placements that --fit looks at, by what is moved or offloaded.
Tried == Gpu /\ values.fit /\ Free # Unset
MovedTo(n) == [MainPlacement EXCEPT !.toRam = FirstExperts(n)]
Base == IF ExpertsMayMove THEN MovedTo(MovableExperts) ELSE MainPlacement
OffloadedTo(n) == [Base EXCEPT !.layers = n]

\* The best one, of those that are permitted.
Best(p) ==
  /\ Fits(p) <=> \E q \in Permitted : Fits(q)
  /\ Fits(p) => \A q \in Permitted : Fits(q) => Keeps(p, q)

\* What a search has found out so far, of its state and placement.
Search(a, p, l, h, f) ==
  /\ Input /\ l \in Nat /\ h \in Nat /\ l <= h /\ p \in Permitted
  /\ a \in {"estimate", "experts", "smallest", "layers", "largest", "done"}
  /\ h <= Larger(Len(model.tensors), model.layers + 1)
  /\ a = "estimate" => p = MainPlacement
  /\ a \in {"experts", "smallest", "layers", "largest"} => Tried /\ ~Fits(MainPlacement)
  /\ a \in {"experts", "smallest"} => ExpertsMayMove /\ p = MainPlacement
  /\ a = "smallest" => /\ h <= MovableExperts /\ Fits(MovedTo(h))
                       /\ \A n \in Nat : n < l => ~Fits(MovedTo(n))
  /\ a \in {"layers", "largest"} => p = Base /\ ~Fits(Base)
  /\ a = "largest" => /\ LayersMayMove /\ h <= model.layers + 1 /\ Fits(OffloadedTo(l))
                      /\ \A n \in 0..(model.layers + 1) : n > h => ~Fits(OffloadedTo(n))
  /\ a = "done" /\ Tried => Best(p)

SearchInv == Search(at, placement, low, high, fitted)

\* How many experts there are, and which come first.
LEMMA ExpertsCount ==
  ASSUME Input
  PROVE  /\ MovableExperts \in Nat /\ MovableExperts <= Len(model.tensors)
         /\ \A n : FirstExperts(n) \subseteq DOMAIN model.tensors
         /\ \A n, k \in Nat : n <= k => FirstExperts(n) \subseteq FirstExperts(k)
<1>1. /\ ExpertTensors \subseteq DOMAIN model.tensors /\ IsFiniteSet(DOMAIN model.tensors)
      /\ DOMAIN model.tensors = 1..Len(model.tensors) /\ Len(model.tensors) \in Nat
  BY GgufCounts DEF Input, ExpertTensors
<1>2. Cardinality(DOMAIN model.tensors) = Len(model.tensors)
  <2>1. Cardinality(1..Len(model.tensors)) = IF 1 > Len(model.tensors) THEN 0 ELSE Len(model.tensors) - 1 + 1
    BY <1>1, FS_Interval
  <2> QED BY <1>1, <2>1
<1>3. /\ IsFiniteSet(ExpertTensors) /\ Cardinality(ExpertTensors) <= Len(model.tensors)
  BY <1>1, <1>2, FS_Subset
<1>4. ASSUME NEW n \in Nat, NEW k \in Nat, n <= k PROVE FirstExperts(n) \subseteq FirstExperts(k)
  <2> SUFFICES ASSUME NEW j \in FirstExperts(n) PROVE j \in FirstExperts(k)
    OBVIOUS
  <2> DEFINE before == {i \in ExpertTensors : Before(i, j)}
  <2>1. Cardinality(before) \in Nat
    BY <1>3, FS_Subset, FS_CardinalityType
  <2>2. j \in ExpertTensors /\ Cardinality(before) < n
    BY DEF FirstExperts
  <2> HIDE DEF before
  <2>3. Cardinality(before) < k
    BY <1>4, <2>1, <2>2
  <2> QED BY <2>2, <2>3 DEF FirstExperts, before
<1>5. \A n : FirstExperts(n) \subseteq DOMAIN model.tensors
  BY <1>1 DEF FirstExperts
<1> QED BY <1>3, <1>4, <1>5, FS_CardinalityType DEF MovableExperts

\* The placements are ordered.
LEMMA PlacementsOrdered ==
  ASSUME Input
  PROVE  /\ Under(MainPlacement, MainPlacement)
         /\ \A n, k \in Nat : n <= k => Under(MovedTo(k), MovedTo(n))
         /\ \A n \in Nat : Under(MovedTo(n), MainPlacement)
         /\ Under(Base, MainPlacement)
         /\ ExpertsMayMove => \A n \in 0..MovableExperts : Under(Base, MovedTo(n))
         /\ \A n, k \in Nat : n <= k => Under(OffloadedTo(n), OffloadedTo(k))
         /\ LayersMayMove => \A n \in Nat : /\ Under(OffloadedTo(n), MainPlacement)
                                            /\ Under(OffloadedTo(n), Base)
<1>1. values.gpuLayers \in Int
  BY SettingsAssumption DEF Input
<1>2. \A n : MovedTo(n) = [layers |-> values.gpuLayers, experts |-> values.moe,
                           overrides |-> values.overrides, toRam |-> FirstExperts(n)]
  BY DEF MovedTo, MainPlacement
<1>3. MovableExperts \in Nat /\ \A n, k \in Nat : n <= k => FirstExperts(n) \subseteq FirstExperts(k)
  BY ExpertsCount
<1>4. PICK R : /\ Base = [layers |-> values.gpuLayers, experts |-> values.moe,
                         overrides |-> values.overrides, toRam |-> R]
               /\ ExpertsMayMove => R = FirstExperts(MovableExperts)
  BY <1>2 DEF Base, MainPlacement
<1>5. \A n : OffloadedTo(n) = [layers |-> n, experts |-> values.moe,
                               overrides |-> values.overrides, toRam |-> R]
  BY <1>4 DEF OffloadedTo
<1>6. ASSUME NEW n \in Nat, NEW k \in Nat, n <= k PROVE Under(MovedTo(k), MovedTo(n))
  <2>1. FirstExperts(n) \subseteq FirstExperts(k)
    BY <1>3, <1>6
  <2> QED BY <1>1, <1>2, <2>1 DEF Under
<1>7. ASSUME NEW n \in Nat PROVE Under(MovedTo(n), MainPlacement)
  BY <1>1, <1>2 DEF Under, MainPlacement
<1>8. Under(Base, MainPlacement) /\ Under(MainPlacement, MainPlacement)
  BY <1>1, <1>4 DEF Under, MainPlacement
<1>9. ASSUME ExpertsMayMove, NEW n \in 0..MovableExperts PROVE Under(Base, MovedTo(n))
  BY <1>3, <1>6, <1>9 DEF Base
<1>10. ASSUME NEW n \in Nat, NEW k \in Nat, n <= k PROVE Under(OffloadedTo(n), OffloadedTo(k))
  BY <1>5, <1>10 DEF Under
<1>11. ASSUME LayersMayMove, NEW n \in Nat
       PROVE  Under(OffloadedTo(n), MainPlacement) /\ Under(OffloadedTo(n), Base)
  <2>1. values.gpuLayers < 0 /\ values.gpuLayers \in Int
    BY <1>1, <1>11 DEF LayersMayMove, AutoLayers
  <2> QED BY <1>4, <1>5, <2>1 DEF Under, MainPlacement
<1> QED BY <1>6, <1>7, <1>8, <1>9, <1>10, <1>11

\* What --fit may choose.
LEMMA PermittedIs ==
  ASSUME Input
  PROVE  /\ Permitted = {MainPlacement}
              \cup (IF ExpertsMayMove THEN {MovedTo(n) : n \in 0..MovableExperts} ELSE {})
              \cup (IF LayersMayMove THEN {OffloadedTo(n) : n \in 0..(model.layers + 1)} ELSE {})
         /\ Base \in Permitted /\ model.layers \in Nat /\ model \in Ggufs
<1>1. Permitted = {MainPlacement}
              \cup (IF ExpertsMayMove THEN {MovedTo(n) : n \in 0..MovableExperts} ELSE {})
              \cup (IF LayersMayMove THEN {OffloadedTo(n) : n \in 0..(model.layers + 1)} ELSE {})
  BY DEF Permitted, MovedTo, Base, OffloadedTo
<1>2. MovableExperts \in 0..MovableExperts
  BY ExpertsCount
<1>3. Base \in Permitted
  BY <1>1, <1>2 DEF Base
<1> QED BY <1>1, <1>3, GgufCounts DEF Input

\* A choice that keeps more fits only if the other does.
LEMMA FitsBelow ==
  ASSUME Input, NEW p, NEW q, Under(p, q)
  PROVE  (Fits(q) => Fits(p)) /\ Keeps(q, p)
BY FitsIsComparison, UnderKeeps DEF Keeps, Input

\* As set, when that fits.
LEMMA BestAsSet ==
  ASSUME Input, Fits(MainPlacement)
  PROVE  Best(MainPlacement)
<1>1. ASSUME NEW q \in Permitted PROVE Under(q, MainPlacement)
  BY PermittedIs, PlacementsOrdered
<1>2. MainPlacement \in Permitted
  BY PermittedIs
<1> QED BY <1>1, <1>2, FitsBelow DEF Best

\* The fewest experts that have to move.
LEMMA BestMoved ==
  ASSUME Input, ExpertsMayMove, ~Fits(MainPlacement), NEW n \in 0..MovableExperts,
         Fits(MovedTo(n)), \A k \in Nat : k < n => ~Fits(MovedTo(k))
  PROVE  Best(MovedTo(n))
<1>1. MovableExperts \in Nat /\ n \in Nat
  BY ExpertsCount
<1>2. MovedTo(n) \in Permitted
  BY PermittedIs
<1>3. ASSUME NEW q \in Permitted, Fits(q) PROVE Keeps(MovedTo(n), q)
  <2>1. CASE q = MainPlacement
    BY <1>3, <2>1
  <2>2. ASSUME NEW k \in 0..MovableExperts, q = MovedTo(k) PROVE Keeps(MovedTo(n), q)
    <3>1. k \in Nat /\ ~(k < n)
      BY <1>1, <1>3, <2>2
    <3>2. Under(MovedTo(k), MovedTo(n))
      BY <1>1, <3>1, PlacementsOrdered
    <3> QED BY <2>2, <3>2, FitsBelow
  <2>3. ASSUME LayersMayMove, NEW k \in 0..(model.layers + 1), q = OffloadedTo(k)
        PROVE  Keeps(MovedTo(n), q)
    <3>1. k \in Nat
      BY PermittedIs
    <3>2. Under(OffloadedTo(k), Base) /\ Under(Base, MovedTo(n))
      BY <2>3, <3>1, PlacementsOrdered
    <3>3. Keeps(Base, OffloadedTo(k)) /\ Keeps(MovedTo(n), Base)
      BY <3>2, FitsBelow
    <3> QED BY <2>3, <3>3 DEF Keeps
  <2> QED BY <2>1, <2>2, <2>3, PermittedIs
<1> QED BY <1>2, <1>3 DEF Best

\* When the experts, all moved, are too few.
LEMMA NothingElseFits ==
  ASSUME Input, ~Fits(MainPlacement), ~Fits(Base), NEW q \in Permitted, Fits(q)
  PROVE  LayersMayMove /\ \E k \in 0..(model.layers + 1) : q = OffloadedTo(k)
<1>1. CASE q = MainPlacement
  BY <1>1
<1>2. ASSUME ExpertsMayMove, NEW k \in 0..MovableExperts, q = MovedTo(k) PROVE FALSE
  <2>1. Under(Base, MovedTo(k))
    BY <1>2, PlacementsOrdered
  <2> QED BY <1>2, <2>1, FitsBelow
<1> QED BY <1>1, <1>2, PermittedIs

\* The most layers that stay.
LEMMA BestOffloaded ==
  ASSUME Input, LayersMayMove, ~Fits(MainPlacement), ~Fits(Base),
         NEW n \in 0..(model.layers + 1), n = 0 \/ Fits(OffloadedTo(n)),
         \A k \in 0..(model.layers + 1) : k > n => ~Fits(OffloadedTo(k))
  PROVE  Best(OffloadedTo(n))
<1>1. OffloadedTo(n) \in Permitted /\ n \in Nat
  BY PermittedIs
<1>2. ASSUME NEW q \in Permitted, Fits(q) PROVE Fits(OffloadedTo(n)) /\ Keeps(OffloadedTo(n), q)
  <2>1. PICK k \in 0..(model.layers + 1) : q = OffloadedTo(k)
    BY <1>2, NothingElseFits
  <2>2. k \in Nat /\ k <= n
    BY <1>1, <1>2, <2>1, PermittedIs
  <2>3. Under(OffloadedTo(k), OffloadedTo(n))
    BY <1>1, <2>2, PlacementsOrdered
  <2>4. Keeps(OffloadedTo(n), q)
    BY <2>1, <2>3, FitsBelow
  <2>5. CASE n = 0
    BY <1>2, <2>1, <2>2, <2>4, <2>5
  <2> QED BY <2>4, <2>5
<1> QED BY <1>1, <1>2 DEF Best

----------------------------------------------------------------------------
(* The steps                                                               *)

\* What a search knows does not depend on the step: only the search does.
LEMMA SearchStays ==
  ASSUME UNCHANGED input
  PROVE  SearchInv' <=> Search(at', placement', low', high', fitted')
<1>1. /\ Input' <=> Input
      /\ Gpu' = Gpu /\ Free' = Free /\ MainPlacement' = MainPlacement
      /\ ExpertTensors' = ExpertTensors
      /\ ExpertsMayMove' = ExpertsMayMove /\ LayersMayMove' = LayersMayMove
      /\ \A p : Fits(p)' = Fits(p)
      /\ \A m, p : OnGpu(m, p)' = OnGpu(m, p)
      /\ \A n : FirstExperts(n)' = FirstExperts(n)
  BY InputStays
<1>2. model' = model /\ values' = values
  BY DEF input
<1>3. MovableExperts' = MovableExperts
  BY <1>1 DEF MovableExperts
<1>4. \A n : MovedTo(n)' = MovedTo(n)
  BY <1>1 DEF MovedTo
<1>5. Base' = Base
  BY <1>1, <1>3, <1>4 DEF Base
<1>6. \A n : OffloadedTo(n)' = OffloadedTo(n)
  BY <1>5 DEF OffloadedTo
<1>7. Tried' <=> Tried
  BY <1>1, <1>2 DEF Tried
<1>8. \A p, q : Keeps(p, q)' = Keeps(p, q)
  BY <1>1, <1>2 DEF Keeps
<1>9. Permitted' = Permitted
  BY <1>1, <1>2, <1>3 DEF Permitted
<1>10. \A p : Best(p)' <=> Best(p)
  BY <1>1, <1>8, <1>9 DEF Best
<1> QED BY <1>1, <1>2, <1>3, <1>4, <1>5, <1>6, <1>7, <1>9, <1>10 DEF SearchInv, Search

\* It holds at first.
LEMMA SearchStarts == MemoryFitInit => SearchInv
<1> SUFFICES ASSUME MemoryFitInit PROVE SearchInv
  OBVIOUS
<1>1. /\ Input /\ at = "estimate" /\ placement = MainPlacement /\ low = 0 /\ high = 0
  BY DEF MemoryFitInit, Input
<1>2. /\ MainPlacement \in Permitted /\ model.layers \in Nat /\ Len(model.tensors) \in Nat
  BY <1>1, PermittedIs, GgufCounts
<1>3. 0 <= Larger(Len(model.tensors), model.layers + 1)
  BY <1>2 DEF Larger
<1> QED BY <1>1, <1>2, <1>3 DEF SearchInv, Search

\* The limits of the searches.
LEMMA Limits ==
  ASSUME Input
  PROVE  /\ MovableExperts \in Nat /\ MovableExperts <= Larger(Len(model.tensors), model.layers + 1)
         /\ model.layers + 1 \in Nat /\ model.layers + 1 <= Larger(Len(model.tensors), model.layers + 1)
         /\ Larger(Len(model.tensors), model.layers + 1) \in Nat
<1>1. model.layers \in Nat /\ Len(model.tensors) \in Nat
  BY PermittedIs, GgufCounts
<1>2. MovableExperts \in Nat /\ MovableExperts <= Len(model.tensors)
  BY ExpertsCount
<1> QED BY <1>1, <1>2 DEF Larger

\* What is moved or offloaded from the placement that a search began with.
LEMMA StepsFrom ==
  /\ placement = MainPlacement => \A n : Moved(n) = MovedTo(n)
  /\ placement = Base => \A n : Offloaded(n) = OffloadedTo(n)
BY DEF Moved, MovedTo, Offloaded, OffloadedTo

\* The first look.
LEMMA EstimatesStep == ASSUME SearchInv, Estimates PROVE SearchInv'
<1>1. UNCHANGED input
  BY DEF Estimates
<1>2. /\ Input /\ placement = MainPlacement /\ at = "estimate"
      /\ placement' = placement /\ low' = low /\ high' = high /\ fitted' = fitted
  BY DEF Estimates, SearchInv, Search
<1>3. CASE Tried /\ ~Fits(placement)
  <2>1. at' = IF ExpertsMayMove THEN "experts" ELSE "layers"
    BY <1>3 DEF Estimates, Goes, Tried
  <2>2. ~ExpertsMayMove => placement = Base
    BY <1>2 DEF Base
  <2>3. Search(at', placement, low, high, fitted)
    BY <1>2, <1>3, <2>1, <2>2 DEF SearchInv, Search
  <2> QED BY <1>1, <1>2, <2>3, SearchStays
<1>4. CASE ~(Tried /\ ~Fits(placement))
  <2>1. at' = "done"
    BY <1>4 DEF Estimates, Goes, Tried
  <2>2. Tried => Best(placement)
    BY <1>2, <1>4, BestAsSet
  <2>3. Search("done", placement, low, high, fitted)
    BY <1>2, <2>2 DEF SearchInv, Search
  <2> QED BY <1>1, <1>2, <2>1, <2>3, SearchStays
<1> QED BY <1>3, <1>4

\* All experts.
LEMMA MovesExpertsStep == ASSUME SearchInv, MovesExperts PROVE SearchInv'
<1>1. UNCHANGED input /\ at = "experts"
  BY DEF MovesExperts
<1>2. /\ Input /\ placement = MainPlacement /\ Tried /\ ~Fits(MainPlacement) /\ ExpertsMayMove
      /\ Base = MovedTo(MovableExperts)
  BY <1>1 DEF SearchInv, Search, Base
<1>3. \A n : Moved(n) = MovedTo(n)
  BY <1>2, StepsFrom
<1>4. CASE Fits(Moved(MovableExperts))
  <2>1. at' = "smallest" /\ low' = 0 /\ high' = MovableExperts /\ placement' = placement
    BY <1>4 DEF MovesExperts, Searches, Goes
  <2>2. Fits(MovedTo(MovableExperts)) /\ \A n \in Nat : ~(n < 0)
    BY <1>3, <1>4
  <2>3. /\ MovableExperts \in Nat /\ MovableExperts <= Larger(Len(model.tensors), model.layers + 1)
    BY <1>2, Limits
  <2>4. Search("smallest", placement, 0, MovableExperts, fitted')
    BY <1>2, <2>2, <2>3 DEF SearchInv, Search
  <2> QED BY <1>1, <2>1, <2>4, SearchStays
<1>5. CASE ~Fits(Moved(MovableExperts))
  <2>1. at' = "layers" /\ low' = low /\ high' = high /\ placement' = Base
    BY <1>2, <1>3, <1>5 DEF MovesExperts, Goes
  <2>2. ~Fits(Base) /\ Base \in Permitted
    BY <1>2, <1>3, <1>5, PermittedIs
  <2>3. Search("layers", Base, low, high, fitted')
    BY <1>2, <2>2 DEF SearchInv, Search
  <2> QED BY <1>1, <2>1, <2>3, SearchStays
<1> QED BY <1>4, <1>5

\* A round of _smallest: when the middle does not fit, neither do fewer.
LEMMA SmallestStep == ASSUME SearchInv, Smallest PROVE SearchInv'
<1>1. UNCHANGED input /\ at = "smallest" /\ low < high
  BY DEF Smallest
<1>2. /\ Input /\ placement = MainPlacement /\ Tried /\ ~Fits(MainPlacement) /\ ExpertsMayMove
      /\ low \in Nat /\ high \in Nat /\ high <= MovableExperts /\ Fits(MovedTo(high))
      /\ \A n \in Nat : n < low => ~Fits(MovedTo(n))
  BY <1>1 DEF SearchInv, Search
<1>3. \A n : Moved(n) = MovedTo(n)
  BY <1>2, StepsFrom
<1>4. Middle \in Nat /\ low <= Middle /\ Middle < high /\ MovableExperts \in Nat
  <2>1. MovableExperts \in Nat
    BY <1>2, Limits
  <2> QED BY <1>1, <1>2, <2>1 DEF Middle
<1>5. high <= Larger(Len(model.tensors), model.layers + 1) /\ Larger(Len(model.tensors), model.layers + 1) \in Nat
  BY <1>2, Limits DEF SearchInv, Search
<1>6. CASE Fits(Moved(Middle))
  <2>1. at' = at /\ low' = low /\ high' = Middle /\ placement' = placement /\ fitted' = fitted
    BY <1>6 DEF Smallest, Halves
  <2>2. Search("smallest", placement, low, Middle, fitted)
    BY <1>1, <1>2, <1>3, <1>4, <1>5, <1>6 DEF SearchInv, Search
  <2> QED BY <1>1, <2>1, <2>2, SearchStays
<1>7. CASE ~Fits(Moved(Middle))
  <2>1. at' = at /\ low' = Middle + 1 /\ high' = high /\ placement' = placement /\ fitted' = fitted
    BY <1>7 DEF Smallest, Halves
  <2>2. ASSUME NEW n \in Nat, n < Middle + 1 PROVE ~Fits(MovedTo(n))
    <3>1. n <= Middle
      BY <1>4, <2>2
    <3>2. Under(MovedTo(Middle), MovedTo(n))
      BY <1>2, <1>4, <3>1, PlacementsOrdered
    <3> QED BY <1>2, <1>3, <1>7, <3>2, FitsBelow
  <2>3. Middle + 1 \in Nat /\ Middle + 1 <= high
    BY <1>2, <1>4
  <2>4. Search("smallest", placement, Middle + 1, high, fitted)
    BY <1>1, <1>2, <2>2, <2>3 DEF SearchInv, Search
  <2> QED BY <1>1, <2>1, <2>4, SearchStays
<1> QED BY <1>6, <1>7

\* Its end.
LEMMA ExpertsPlacedStep == ASSUME SearchInv, ExpertsPlaced PROVE SearchInv'
<1>1. /\ UNCHANGED input /\ at = "smallest" /\ low = high /\ at' = "done"
      /\ low' = low /\ high' = high /\ placement' = Moved(low) /\ fitted' = fitted
  BY DEF ExpertsPlaced, Goes
<1>2. /\ Input /\ placement = MainPlacement /\ ~Fits(MainPlacement) /\ ExpertsMayMove
      /\ low \in Nat /\ low <= MovableExperts /\ Fits(MovedTo(low))
      /\ \A n \in Nat : n < low => ~Fits(MovedTo(n))
  BY <1>1 DEF SearchInv, Search
<1>3. placement' = MovedTo(low) /\ low \in 0..MovableExperts
  BY <1>1, <1>2, StepsFrom, Limits
<1>4. Best(MovedTo(low)) /\ MovedTo(low) \in Permitted
  BY <1>2, <1>3, BestMoved, PermittedIs
<1>5. Search("done", MovedTo(low), low, high, fitted)
  BY <1>1, <1>2, <1>4 DEF SearchInv, Search
<1> QED BY <1>1, <1>3, <1>5, SearchStays

\* No layer, or none to offload.
LEMMA MovesLayersStep == ASSUME SearchInv, MovesLayers PROVE SearchInv'
<1>1. UNCHANGED input /\ at = "layers"
  BY DEF MovesLayers
<1>2. /\ Input /\ placement = Base /\ Tried /\ ~Fits(MainPlacement) /\ ~Fits(Base)
  BY <1>1 DEF SearchInv, Search
<1>3. \A n : Offloaded(n) = OffloadedTo(n)
  BY <1>2, StepsFrom
<1>4. CASE ~LayersMayMove
  <2>1. at' = "done" /\ low' = low /\ high' = high /\ placement' = placement
    BY <1>4 DEF MovesLayers, Goes
  <2>2. \A q \in Permitted : ~Fits(q)
    BY <1>2, <1>4, NothingElseFits
  <2>3. Best(Base)
    BY <1>2, <2>2, PermittedIs DEF Best
  <2>4. Search("done", Base, low, high, fitted')
    BY <1>2, <2>3 DEF SearchInv, Search
  <2> QED BY <1>1, <1>2, <2>1, <2>4, SearchStays
<1>5. CASE LayersMayMove /\ Fits(Offloaded(0))
  <2>1. at' = "largest" /\ low' = 0 /\ high' = model.layers + 1 /\ placement' = placement
    BY <1>5 DEF MovesLayers, Searches, Goes
  <2>2. /\ model.layers + 1 \in Nat /\ model.layers + 1 <= Larger(Len(model.tensors), model.layers + 1)
    BY <1>2, Limits
  <2>3. \A n \in 0..(model.layers + 1) : ~(n > model.layers + 1)
    BY <2>2
  <2>4. Search("largest", placement, 0, model.layers + 1, fitted')
    BY <1>2, <1>3, <1>5, <2>2, <2>3 DEF SearchInv, Search
  <2> QED BY <1>1, <2>1, <2>4, SearchStays
<1>6. CASE LayersMayMove /\ ~Fits(Offloaded(0))
  <2>1. at' = "done" /\ low' = low /\ high' = high /\ placement' = OffloadedTo(0)
    BY <1>3, <1>6 DEF MovesLayers, Goes
  <2>2. 0 \in 0..(model.layers + 1)
    BY <1>2, Limits
  <2>3. ASSUME NEW k \in 0..(model.layers + 1), k > 0 PROVE ~Fits(OffloadedTo(k))
    <3>1. k \in Nat
      OBVIOUS
    <3>2. Under(OffloadedTo(0), OffloadedTo(k))
      BY <1>2, <3>1, PlacementsOrdered
    <3> QED BY <1>2, <1>3, <1>6, <3>2, FitsBelow
  <2>4. Best(OffloadedTo(0)) /\ OffloadedTo(0) \in Permitted
    BY <1>2, <1>6, <2>2, <2>3, BestOffloaded, PermittedIs
  <2>5. Search("done", OffloadedTo(0), low, high, fitted')
    BY <1>2, <2>4 DEF SearchInv, Search
  <2> QED BY <1>1, <2>1, <2>5, SearchStays
<1> QED BY <1>4, <1>5, <1>6

\* A round of _largest: when the middle does not fit, neither do more.
LEMMA LargestStep == ASSUME SearchInv, Largest PROVE SearchInv'
<1>1. UNCHANGED input /\ at = "largest" /\ low < high
  BY DEF Largest
<1>2. /\ Input /\ placement = Base /\ Tried /\ ~Fits(MainPlacement) /\ ~Fits(Base) /\ LayersMayMove
      /\ low \in Nat /\ high \in Nat /\ high <= model.layers + 1 /\ Fits(OffloadedTo(low))
      /\ \A n \in 0..(model.layers + 1) : n > high => ~Fits(OffloadedTo(n))
      /\ high <= Larger(Len(model.tensors), model.layers + 1)
  BY <1>1 DEF SearchInv, Search
<1>3. \A n : Offloaded(n) = OffloadedTo(n)
  BY <1>2, StepsFrom
<1>4. /\ UpperMiddle \in Nat /\ low < UpperMiddle /\ UpperMiddle <= high
      /\ model.layers + 1 \in Nat /\ Larger(Len(model.tensors), model.layers + 1) \in Nat
  <2>1. model.layers + 1 \in Nat /\ Larger(Len(model.tensors), model.layers + 1) \in Nat
    BY <1>2, Limits
  <2> QED BY <1>1, <1>2, <2>1 DEF UpperMiddle
<1>5. CASE Fits(Offloaded(UpperMiddle))
  <2>1. at' = at /\ low' = UpperMiddle /\ high' = high /\ placement' = placement /\ fitted' = fitted
    BY <1>5 DEF Largest, Halves
  <2>2. Search("largest", placement, UpperMiddle, high, fitted)
    BY <1>1, <1>2, <1>3, <1>4, <1>5 DEF SearchInv, Search
  <2> QED BY <1>1, <2>1, <2>2, SearchStays
<1>6. CASE ~Fits(Offloaded(UpperMiddle))
  <2>1. at' = at /\ low' = low /\ high' = UpperMiddle - 1 /\ placement' = placement /\ fitted' = fitted
    BY <1>6 DEF Largest, Halves
  <2>2. ASSUME NEW n \in 0..(model.layers + 1), n > UpperMiddle - 1 PROVE ~Fits(OffloadedTo(n))
    <3>1. n \in Nat /\ UpperMiddle <= n
      BY <1>4, <2>2
    <3>2. Under(OffloadedTo(UpperMiddle), OffloadedTo(n))
      BY <1>2, <1>4, <3>1, PlacementsOrdered
    <3> QED BY <1>2, <1>3, <1>6, <3>2, FitsBelow
  <2>3. UpperMiddle - 1 \in Nat /\ low <= UpperMiddle - 1 /\ UpperMiddle - 1 <= model.layers + 1
        /\ UpperMiddle - 1 <= Larger(Len(model.tensors), model.layers + 1)
    BY <1>2, <1>4
  <2>4. Search("largest", placement, low, UpperMiddle - 1, fitted)
    BY <1>1, <1>2, <2>2, <2>3 DEF SearchInv, Search
  <2> QED BY <1>1, <2>1, <2>4, SearchStays
<1> QED BY <1>5, <1>6

\* Its end.
LEMMA LayersPlacedStep == ASSUME SearchInv, LayersPlaced PROVE SearchInv'
<1>1. /\ UNCHANGED input /\ at = "largest" /\ low = high /\ at' = "done"
      /\ low' = low /\ high' = high /\ placement' = Offloaded(low) /\ fitted' = fitted
  BY DEF LayersPlaced, Goes
<1>2. /\ Input /\ placement = Base /\ ~Fits(MainPlacement) /\ ~Fits(Base) /\ LayersMayMove
      /\ low \in Nat /\ low <= model.layers + 1 /\ Fits(OffloadedTo(low))
      /\ \A n \in 0..(model.layers + 1) : n > low => ~Fits(OffloadedTo(n))
  BY <1>1 DEF SearchInv, Search
<1>3. placement' = OffloadedTo(low) /\ low \in 0..(model.layers + 1)
  BY <1>1, <1>2, StepsFrom, Limits
<1>4. Best(OffloadedTo(low)) /\ OffloadedTo(low) \in Permitted
  BY <1>2, <1>3, BestOffloaded, PermittedIs
<1>5. Search("done", OffloadedTo(low), low, high, fitted)
  BY <1>1, <1>2, <1>4 DEF SearchInv, Search
<1> QED BY <1>1, <1>3, <1>5, SearchStays

\* What the searches know is what the property needs.
LEMMA SearchSuffices == SearchInv => FitIsBest
<1> SUFFICES ASSUME SearchInv PROVE FitIsBest
  OBVIOUS
<1>1. /\ Input /\ low \in Nat /\ high \in Nat /\ low <= high /\ placement \in Permitted
      /\ at \in {"estimate", "experts", "smallest", "layers", "largest", "done"}
      /\ high <= Larger(Len(model.tensors), model.layers + 1)
      /\ at = "done" /\ Tried => Best(placement)
  BY DEF SearchInv, Search
<1>2. ASSUME NEW p \in Permitted
      PROVE  /\ p.toRam \subseteq DOMAIN model.tensors
             /\ p.layers \in {Unset, AutoLayers} \cup 0..(model.layers + 1) \cup {values.gpuLayers}
  <2>1. \A n : FirstExperts(n) \subseteq DOMAIN model.tensors
    BY <1>1, ExpertsCount
  <2>2. MainPlacement.toRam = {} /\ MainPlacement.layers = values.gpuLayers
    BY DEF MainPlacement
  <2>3. \A n : MovedTo(n).toRam = FirstExperts(n) /\ MovedTo(n).layers = values.gpuLayers
    BY DEF MovedTo, MainPlacement
  <2>4. Base.toRam \subseteq DOMAIN model.tensors
    BY <2>1, <2>2, <2>3 DEF Base
  <2>5. \A n : OffloadedTo(n).toRam = Base.toRam /\ OffloadedTo(n).layers = n
    BY DEF OffloadedTo, Base, MovedTo, MainPlacement
  <2> QED BY <1>1, <2>1, <2>2, <2>3, <2>4, <2>5, PermittedIs
<1>3. MemoryFitTypeOK
  BY <1>1, <1>2 DEF MemoryFitTypeOK
<1>4. ASSUME at = "done", Gpu, values.fit, Free # Unset
      PROVE  "may not load" \in Notes <=> ~Fits(placement)
  <2>1. /\ MainSize(placement) \in Int /\ FitBudget \in Int /\ Extra \in Int
    <3>1. \E p, q : placement \in {p, q} /\ Under(p, q)
      BY <1>1, PermittedIs, PlacementsOrdered
    <3> QED BY <1>1, <3>1, FitsIsComparison
  <2>2. "may not load" \in Notes <=> MainSize(placement) + Extra > FitBudget
    BY <1>4 DEF Notes
  <2>3. MainSize(placement) + Extra > FitBudget <=> ~(MainSize(placement) <= FitBudget - Extra)
    <3> DEFINE size == MainSize(placement)
    <3> HIDE DEF size
    <3>1. size \in Int
      BY <2>1 DEF size
    <3> QED BY <2>1, <3>1 DEF size
  <2> QED BY <2>2, <2>3 DEF Fits
<1>5. BestWhenDone
  BY <1>1, <1>4 DEF BestWhenDone, Best, Tried
<1> QED BY <1>3, <1>5 DEF FitIsBest

\* The invariant of the estimate, and its searches.
THEOREM EstimateInvariant == MemoryFitSpec => []SearchInv
<1>1. ASSUME SearchInv, [MemoryFitNext]_FitVars PROVE SearchInv'
  <2>1. CASE MemoryFitNext
    BY <1>1, <2>1, EstimatesStep, MovesExpertsStep, SmallestStep, ExpertsPlacedStep,
       MovesLayersStep, LargestStep, LayersPlacedStep DEF MemoryFitNext
  <2>2. CASE UNCHANGED FitVars
    <3>1. UNCHANGED input /\ UNCHANGED <<at, placement, low, high, fitted>>
      BY <2>2 DEF FitVars, input
    <3>2. Search(at', placement', low', high', fitted')
      BY <1>1, <3>1 DEF SearchInv
    <3> QED BY <3>1, <3>2, SearchStays
  <2> QED BY <1>1, <2>1, <2>2
<1> QED BY <1>1, SearchStarts, PTL DEF MemoryFitSpec

\* The placement that --fit is said to choose is the best one: for any model,
\* settings and machine, the two searches find one that fits whenever any does,
\* and no choice that fits keeps more on the GPU.
THEOREM FoundIsBest == MemoryFitSpec => []FitIsBest
BY EstimateInvariant, SearchSuffices, PTL

(***************************************************************************)
(* TextEdit.  The places that _occurrences and _line_occurrences keep are  *)
(* apart, and cover every place where the search text is (SpacedCovers),   *)
(* so that one place left means that there was one.  The lines of a text   *)
(* depend on its line ends alone (SameRows): a block of lines that is      *)
(* alike, cut out, has the rows of the search text.  A recursive function  *)
(* over a text is reasoned about at the least number where it would fail   *)
(* (UpTo).                                                                 *)
(***************************************************************************)

\* Some numbers from 0 to n are all of them.
LEMMA UpTo ==
  ASSUME NEW n \in Nat, NEW P, 0 \in P, \A i \in 1..n : i - 1 \in P => i \in P
  PROVE  \A i \in 0..n : i \in P
<1> DEFINE Bad == {i \in 0..n : i \notin P}
<1>1. CASE Bad = {}
  BY <1>1
<1>2. CASE Bad # {}
  <2>1. PICK i \in Bad : \A k \in Bad : i <= k
    <3>1. Bad \in SUBSET Nat
      OBVIOUS
    <3> HIDE DEF Bad
    <3> QED BY <3>1, <1>2, FirstNumber
  <2>2. i # 0 /\ i \in 0..n
    BY <2>1
  <2>3. i \in 1..n /\ i - 1 \in 0..n /\ i - 1 \notin Bad
    BY <2>1, <2>2
  <2>4. i - 1 \in P
    BY <2>3
  <2> QED BY <2>1, <2>3, <2>4
<1> QED BY <1>1, <1>2

\* g is defined from 0 on, each value from the one before; step is a function
\* of both the number and that value.
Recurs(g, n, base, step) ==
  g = [i \in 0..n |-> IF i = 0 THEN base ELSE step[<<i, g[i - 1]>>]]

\* Such a function exists: it is built one value at a time.
LEMMA RecursExists ==
  ASSUME NEW n \in Nat, NEW base, NEW step
  PROVE  \E g : Recurs(g, n, base, step)
<1> DEFINE P == {m \in 0..n : \E g : Recurs(g, m, base, step)}
<1>1. 0 \in P
  <2>1. Recurs([i \in 0..0 |-> base], 0, base, step)
    BY DEF Recurs
  <2> QED BY <2>1
<1>2. ASSUME NEW m \in 1..n, m - 1 \in P PROVE m \in P
  <2>1. PICK g : Recurs(g, m - 1, base, step)
    BY <1>2
  <2>2. PICK h : h = [i \in 0..m |-> IF i = 0 THEN base ELSE step[<<i, g[i - 1]>>]]
    OBVIOUS
  <2>3. \A i \in 0..(m - 1) : h[i] = g[i]
    BY <2>1, <2>2 DEF Recurs
  <2>4. h = [i \in 0..m |-> IF i = 0 THEN base ELSE step[<<i, h[i - 1]>>]]
    BY <2>2, <2>3
  <2> QED BY <2>4 DEF Recurs
<1> HIDE DEF P
<1>3. \A i \in 0..n : i \in P
  BY <1>1, <1>2, UpTo
<1> QED BY <1>3 DEF P

\* A step that stays in a set keeps every value in it.
LEMMA RecursTyped ==
  ASSUME NEW n \in Nat, NEW S, NEW base \in S, NEW step \in [(1..n) \X S -> S],
         NEW g, Recurs(g, n, base, step)
  PROVE  \A i \in 0..n : g[i] \in S
<1> DEFINE P == {i \in 0..n : g[i] \in S}
<1>0. g = [i \in 0..n |-> IF i = 0 THEN base ELSE step[<<i, g[i - 1]>>]]
  BY DEF Recurs
<1>1. 0 \in P
  BY <1>0
<1>2. ASSUME NEW i \in 1..n, i - 1 \in P PROVE i \in P
  <2>1. g[i - 1] \in S /\ g[i] = step[<<i, g[i - 1]>>]
    BY <1>0, <1>2
  <2>2. <<i, g[i - 1]>> \in (1..n) \X S
    BY <2>1
  <2> QED BY <2>1, <2>2
<1> HIDE DEF P
<1>3. \A i \in 0..n : i \in P
  BY <1>1, <1>2, UpTo
<1> QED BY <1>3 DEF P

----------------------------------------------------------------------------
(* What the recursive functions compute                                    *)

Flattens(g, seqs) ==
  g = [i \in 1..Len(seqs) |-> IF i = 1 THEN seqs[i] ELSE g[i - 1] \o seqs[i]]

\* FlattenSeq stays within a set that is closed under what it appends.
LEMMA FlattenIn ==
  ASSUME NEW S, NEW seqs \in Seq(Seq(S)), NEW Q \in SUBSET Seq(S), <<>> \in Q,
         \A i \in DOMAIN seqs : seqs[i] \in Q /\ \A q \in Q : q \o seqs[i] \in Q
  PROVE  FlattenSeq(seqs) \in Q
<1> DEFINE n == Len(seqs)
<1>0. n \in Nat /\ DOMAIN seqs = 1..n
  OBVIOUS
<1>1. CASE n = 0
  <2>1. seqs = <<>>
    BY <1>1
  <2> QED BY <2>1, <1>1 DEF FlattenSeq
<1>2. CASE n # 0
  <2> DEFINE step == [x \in (1..n) \X Q |-> IF x[1] = 1 THEN seqs[1] ELSE x[2] \o seqs[x[1]]]
  <2>1. step \in [(1..n) \X Q -> Q]
    BY <1>0
  <2>2. PICK h : Recurs(h, n, <<>>, step)
    BY <1>0, RecursExists
  <2>3. \A i \in 0..n : h[i] \in Q
    BY <1>0, <2>1, <2>2, RecursTyped
  <2>4. PICK g : g = [i \in 1..n |-> h[i]]
    OBVIOUS
  <2>5. ASSUME NEW i \in 1..n
        PROVE  g[i] = IF i = 1 THEN seqs[i] ELSE g[i - 1] \o seqs[i]
    <3>1. h[i] = step[<<i, h[i - 1]>>]
      <4>1. i \in 0..n /\ i # 0
        BY <1>0
      <4> HIDE DEF step, n
      <4> QED BY <4>1, <2>2 DEF Recurs
    <3>2. <<i, h[i - 1]>> \in (1..n) \X Q
      BY <1>0, <2>3
    <3>3. h[i] = IF i = 1 THEN seqs[1] ELSE h[i - 1] \o seqs[i]
      BY <3>1, <3>2
    <3>4. i # 1 => i - 1 \in 1..n
      BY <1>0
    <3> QED BY <2>4, <3>3, <3>4
  <2> HIDE DEF step
  <2>6. Flattens(g, seqs)
    <3>1. g = [i \in 1..n |-> g[i]]
      BY <2>4
    <3>2. [i \in 1..n |-> g[i]] = [i \in 1..n |-> IF i = 1 THEN seqs[i] ELSE g[i - 1] \o seqs[i]]
      BY <2>5
    <3> QED BY <3>1, <3>2 DEF Flattens
  <2> DEFINE f == CHOOSE f : Flattens(f, seqs)
  <2>7. Flattens(f, seqs)
    BY <2>6
  <2>8. FlattenSeq(seqs) = f[n]
    BY <1>2 DEF FlattenSeq, Flattens
  <2> HIDE DEF f
  <2>9. f = [i \in 1..n |-> IF i = 1 THEN seqs[i] ELSE f[i - 1] \o seqs[i]]
    BY <2>7 DEF Flattens
  <2> DEFINE P == {i \in 0..n : i = 0 \/ f[i] \in Q}
  <2>10. 0 \in P
    BY <1>0
  <2>11. ASSUME NEW i \in 1..n, i - 1 \in P PROVE i \in P
    <3>1. f[i] = IF i = 1 THEN seqs[i] ELSE f[i - 1] \o seqs[i]
      BY <2>9
    <3>2. i = 1 \/ f[i - 1] \in Q
      BY <2>11
    <3>3. seqs[i] \in Q /\ \A q \in Q : q \o seqs[i] \in Q
      BY <1>0
    <3>4. f[i] \in Q
      BY <3>1, <3>2, <3>3
    <3> QED BY <1>0, <3>4
  <2> HIDE DEF P
  <2>12. \A i \in 0..n : i \in P
    BY <1>0, <2>10, <2>11, UpTo
  <2>13. n \in 0..n
    BY <1>0
  <2> QED BY <1>2, <2>8, <2>12, <2>13 DEF P
<1> QED BY <1>1, <1>2

Spots == Nat \X Nat
Takes(g, places) ==
  g = [k \in 0..Len(places) |-> IF k = 0 THEN <<>> ELSE Joined(g[k - 1], places[k])]

\* Taking one more place keeps the list one of places.
LEMMA JoinedTyped ==
  ASSUME NEW taken \in Seq(Spots), NEW place \in Spots \cup {Nowhere}
  PROVE  Joined(taken, place) \in Seq(Spots)
BY DEF Joined

\* What holds of the places taken so far, at each of the places, holds of them all.
LEMMA SpacedIn ==
  ASSUME NEW places \in Seq(Spots \cup {Nowhere}), NEW Q, <<0, <<>>>> \in Q,
         \A k \in 1..Len(places) : \A t \in Seq(Spots) :
           <<k - 1, t>> \in Q => <<k, Joined(t, places[k])>> \in Q
  PROVE  Spaced(places) \in Seq(Spots) /\ <<Len(places), Spaced(places)>> \in Q
<1> DEFINE n == Len(places)
           step == [x \in (1..n) \X Seq(Spots) |-> Joined(x[2], places[x[1]])]
<1>0. n \in Nat /\ DOMAIN places = 1..n
  OBVIOUS
<1>1. step \in [(1..n) \X Seq(Spots) -> Seq(Spots)]
  <2> SUFFICES ASSUME NEW x \in (1..n) \X Seq(Spots)
               PROVE  Joined(x[2], places[x[1]]) \in Seq(Spots)
    OBVIOUS
  <2>1. x[2] \in Seq(Spots) /\ x[1] \in 1..n
    OBVIOUS
  <2>2. places[x[1]] \in Spots \cup {Nowhere}
    BY <2>1
  <2> QED BY <2>1, <2>2, JoinedTyped
<1>2. \A k \in 1..n, t \in Seq(Spots) : step[<<k, t>>] = Joined(t, places[k])
  OBVIOUS
<1> HIDE DEF step
<1>3. <<>> \in Seq(Spots)
  OBVIOUS
<1>4. PICK g : Recurs(g, n, <<>>, step)
  BY <1>0, RecursExists
<1>5. \A k \in 0..n : g[k] \in Seq(Spots)
  BY <1>0, <1>1, <1>3, <1>4, RecursTyped
<1>6. g = [k \in 0..n |-> IF k = 0 THEN <<>> ELSE step[<<k, g[k - 1]>>]]
  BY <1>4 DEF Recurs
<1>7. ASSUME NEW k \in 0..n
      PROVE  g[k] = IF k = 0 THEN <<>> ELSE Joined(g[k - 1], places[k])
  <2>1. k # 0 => k - 1 \in 0..n /\ k \in 1..n
    BY <1>0
  <2> QED BY <1>2, <1>5, <1>6, <2>1
<1>8. Takes(g, places)
  <2>1. g = [k \in 0..n |-> g[k]]
    BY <1>6
  <2>2. [k \in 0..n |-> g[k]] = [k \in 0..n |-> IF k = 0 THEN <<>> ELSE Joined(g[k - 1], places[k])]
    BY <1>7
  <2> QED BY <2>1, <2>2 DEF Takes
<1> DEFINE f == CHOOSE f : Takes(f, places)
<1>9. Takes(f, places)
  BY <1>8
<1>10. Spaced(places) = f[n]
  BY DEF Spaced, Takes
<1> HIDE DEF f
<1>11. f = [k \in 0..n |-> IF k = 0 THEN <<>> ELSE Joined(f[k - 1], places[k])]
  BY <1>9 DEF Takes
<1> DEFINE P == {k \in 0..n : f[k] \in Seq(Spots) /\ <<k, f[k]>> \in Q}
<1>12. 0 \in P
  BY <1>0, <1>3, <1>11
<1>13. ASSUME NEW k \in 1..n, k - 1 \in P PROVE k \in P
  <2>1. f[k - 1] \in Seq(Spots) /\ <<k - 1, f[k - 1]>> \in Q
    BY <1>13
  <2>2. k \in 0..n /\ k # 0
    BY <1>0
  <2>3. f[k] = Joined(f[k - 1], places[k])
    BY <1>11, <2>2
  <2>4. places[k] \in Spots \cup {Nowhere}
    BY <1>0
  <2>5. Joined(f[k - 1], places[k]) \in Seq(Spots)
    BY <2>1, <2>4, JoinedTyped
  <2>6. <<k, Joined(f[k - 1], places[k])>> \in Q
    BY <2>1
  <2> QED BY <2>2, <2>3, <2>5, <2>6
<1> HIDE DEF P
<1>14. \A k \in 0..n : k \in P
  BY <1>0, <1>12, <1>13, UpTo
<1>15. n \in 0..n
  BY <1>0
<1> QED BY <1>10, <1>14, <1>15 DEF P

\* The places taken are among those given, none before the end of the last.
Disjoint(t) == \A j \in 1..(Len(t) - 1) : t[j][2] <= t[j + 1][1]
\* The places that are kept are among those found, and apart.
LEMMA SpacedSound ==
  ASSUME NEW places \in Seq(Spots \cup {Nowhere})
  PROVE  /\ Spaced(places) \in Seq(Spots)
         /\ \A j \in DOMAIN Spaced(places) : \E k \in DOMAIN places : Spaced(places)[j] = places[k]
         /\ Disjoint(Spaced(places))
<1> DEFINE Good(t) == /\ \A j \in DOMAIN t : \E k \in DOMAIN places : t[j] = places[k]
                      /\ Disjoint(t)
           Q == {x \in Nat \X Seq(Spots) : Good(x[2])}
<1>1. <<0, <<>>>> \in Q
  <2> DEFINE none == <<>>
  <2>1. none \in Seq(Spots) /\ Len(none) = 0 /\ DOMAIN none = {}
    OBVIOUS
  <2>2. 1..(Len(none) - 1) = {}
    BY <2>1
  <2> HIDE DEF none
  <2>3. Good(none)
    BY <2>1, <2>2 DEF Disjoint
  <2>4. <<0, none>> \in Nat \X Seq(Spots) /\ <<0, none>>[2] = none
    <3>1. none \in Seq(Spots)
      BY <2>1
    <3>2. <<0, none>>[2] = none
      OBVIOUS
    <3> QED BY ONLY <3>1, <3>2
  <2> HIDE DEF Good
  <2>5. <<0, none>> \in Q
    BY <2>3, <2>4
  <2> QED BY <2>5 DEF none
<1>2. ASSUME NEW k \in 1..Len(places), NEW t \in Seq(Spots), <<k - 1, t>> \in Q
      PROVE  <<k, Joined(t, places[k])>> \in Q
  <2>1. Good(t) /\ k \in Nat /\ k \in DOMAIN places /\ places[k] \in Spots \cup {Nowhere}
    BY <1>2
  <2>2. Good(Joined(t, places[k]))
    <3>1. CASE Joined(t, places[k]) = t
      BY <2>1, <3>1
    <3>2. CASE Joined(t, places[k]) # t
      <4> DEFINE p == places[k]
                 u == Append(t, p)
      <4>1. Joined(t, places[k]) = u /\ p \in Spots /\ (t = <<>> \/ t[Len(t)][2] <= p[1])
        BY <2>1, <3>2 DEF Joined
      <4>2. /\ Len(t) \in Nat /\ Len(u) = Len(t) + 1 /\ DOMAIN u = 1..(Len(t) + 1)
            /\ \A j \in 1..Len(t) : u[j] = t[j] /\ j \in DOMAIN t
            /\ u[Len(t) + 1] = p
        BY <4>1
      <4> HIDE DEF u
      <4>3. \A j \in DOMAIN u : \E i \in DOMAIN places : u[j] = places[i]
        BY <2>1, <4>2
      <4>4. ASSUME NEW j \in 1..(Len(u) - 1) PROVE u[j][2] <= u[j + 1][1]
        <5>1. CASE j = Len(t)
          <6>1. t # <<>>
            BY <5>1
          <6> QED BY <4>1, <4>2, <5>1, <6>1
        <5>2. CASE j # Len(t)
          <6>1. j \in 1..(Len(t) - 1) /\ j \in 1..Len(t) /\ j + 1 \in 1..Len(t)
            BY <4>2, <5>2
          <6> QED BY <2>1, <4>2, <6>1 DEF Disjoint
        <5> QED BY <5>1, <5>2
      <4>5. Disjoint(u)
        BY <4>4 DEF Disjoint
      <4> QED BY <4>1, <4>3, <4>5
    <3> QED BY <3>1, <3>2
  <2>3. Joined(t, places[k]) \in Seq(Spots)
    BY <2>1, JoinedTyped
  <2> QED BY <2>1, <2>2, <2>3
<1> HIDE DEF Q
<1>3. Spaced(places) \in Seq(Spots) /\ <<Len(places), Spaced(places)>> \in Q
  BY <1>1, <1>2, SpacedIn
<1>4. Good(Spaced(places))
  BY <1>3 DEF Q
<1> QED BY <1>3, <1>4

\* A place that is not taken begins within one that is.
Covers(p, q) == p[1] <= q[1] /\ (p = q \/ q[1] < p[2])
\* Every place found is kept or overlaps one that is.
LEMMA SpacedCovers ==
  ASSUME NEW places \in Seq(Spots \cup {Nowhere}),
         \A j, k \in DOMAIN places :
           j <= k /\ places[j] # Nowhere /\ places[k] # Nowhere => places[j][1] <= places[k][1]
  PROVE  \A k \in DOMAIN places : places[k] # Nowhere =>
           \E j \in DOMAIN Spaced(places) : Covers(Spaced(places)[j], places[k])
<1> DEFINE From(k, t) == \A j \in DOMAIN t : \E i \in 1..k : t[j] = places[i] /\ places[i] # Nowhere
           Covered(i, t) == places[i] # Nowhere => \E j \in DOMAIN t : Covers(t[j], places[i])
           Good(k, t) == From(k, t) /\ \A i \in 1..k : Covered(i, t)
           Q == {x \in Nat \X Seq(Spots) : Good(x[1], x[2])}
           n == Len(places)
<1>0. n \in Nat /\ DOMAIN places = 1..n
  OBVIOUS
<1> HIDE DEF n
<1>1. <<0, <<>>>> \in Q
  <2> DEFINE none == <<>>
  <2>1. none \in Seq(Spots) /\ DOMAIN none = {} /\ 1..0 = {}
    OBVIOUS
  <2> HIDE DEF none
  <2>2. Good(0, none)
    BY <2>1
  <2> QED BY <2>1, <2>2 DEF none
<1>2. ASSUME NEW k \in 1..n, NEW t \in Seq(Spots), <<k - 1, t>> \in Q
      PROVE  <<k, Joined(t, places[k])>> \in Q
  <2> DEFINE p == places[k]
             u == Joined(t, p)
  <2>1. /\ Good(k - 1, t) /\ k \in Nat /\ k \in DOMAIN places /\ p \in Spots \cup {Nowhere}
        /\ \A i \in 1..k : i = k \/ i \in 1..(k - 1)
        /\ \A i \in 1..(k - 1) : i \in 1..k /\ i \in DOMAIN places /\ i <= k
    <3>1. k \in Nat /\ k \in 1..n /\ n \in Nat /\ DOMAIN places = 1..n
      BY <1>0
    <3>2. Good(k - 1, t)
      BY <1>2
    <3>3. p \in Spots \cup {Nowhere}
      BY <3>1
    <3>4. /\ \A i \in 1..k : i = k \/ i \in 1..(k - 1)
          /\ \A i \in 1..(k - 1) : i \in 1..k /\ i \in 1..n /\ i <= k
      BY ONLY <3>1
    <3> QED BY ONLY <3>1, <3>2, <3>3, <3>4
  <2>2. u \in Seq(Spots)
    BY <2>1, JoinedTyped
  <2>3. From(k, t)
    BY <2>1
  <2>4. CASE u = t
    <3>1. Covered(k, t)
      <4> SUFFICES ASSUME p # Nowhere PROVE \E j \in DOMAIN t : Covers(t[j], p)
        OBVIOUS
      <4>1. t # <<>> /\ ~(t[Len(t)][2] <= p[1])
        <5>1. CASE t = <<>> \/ t[Len(t)][2] <= p[1]
          <6>1. u = Append(t, p)
            BY <5>1 DEF Joined
          <6>2. p \in Spots
            BY <2>1
          <6>3. Len(Append(t, p)) = Len(t) + 1 /\ Len(t) \in Nat
            BY <6>2
          <6> QED BY <6>1, <6>3, <2>4
        <5> QED BY <5>1
      <4>2. Len(t) \in DOMAIN t /\ t[Len(t)] \in Spots /\ p \in Spots
        BY <4>1, <2>1
      <4>3. PICK i \in 1..(k - 1) : t[Len(t)] = places[i] /\ places[i] # Nowhere
        BY <4>2, <2>1
      <4>4. places[i][1] <= p[1]
        BY <4>3, <2>1
      <4>5. p[1] < t[Len(t)][2]
        BY <4>1, <4>2 DEF Spots
      <4> QED BY <4>2, <4>3, <4>4, <4>5 DEF Covers
    <3>2. \A i \in 1..k : Covered(i, t)
      <4> HIDE DEF Covered, From
      <4> QED BY <2>1, <3>1
    <3> HIDE DEF Covered, From
    <3> QED BY <2>1, <2>2, <2>3, <2>4, <3>2
  <2>5. CASE u # t
    <3>1. u = Append(t, p) /\ p # Nowhere
      BY <2>5 DEF Joined
    <3>2. p \in Spots
      BY <2>1, <3>1
    <3>3. /\ Len(t) \in Nat /\ DOMAIN u = 1..(Len(t) + 1) /\ DOMAIN t = 1..Len(t)
          /\ \A j \in 1..Len(t) : u[j] = t[j]
          /\ u[Len(t) + 1] = p
      BY <3>1, <3>2
    <3> HIDE DEF u
    <3>4. From(k, u)
      <4> SUFFICES ASSUME NEW j \in DOMAIN u
                   PROVE  \E i \in 1..k : u[j] = places[i] /\ places[i] # Nowhere
        OBVIOUS
      <4>1. CASE j = Len(t) + 1
        BY <4>1, <3>1, <3>3
      <4>2. CASE j # Len(t) + 1
        <5>1. j \in DOMAIN t /\ u[j] = t[j]
          BY <4>2, <3>3
        <5> QED BY <5>1, <2>3
      <4> QED BY <4>1, <4>2
    <3>5. \A j \in DOMAIN t : j \in DOMAIN u /\ u[j] = t[j]
      BY <3>3
    <3>6. Covered(k, u)
      <4>1. p[1] <= p[1]
        BY <3>2 DEF Spots
      <4>2. Covers(u[Len(t) + 1], p) /\ Len(t) + 1 \in DOMAIN u
        BY <3>3, <4>1 DEF Covers
      <4> QED BY <4>2
    <3>7. \A i \in 1..(k - 1) : Covered(i, u)
      BY <2>1, <3>5
    <3>8. \A i \in 1..k : Covered(i, u)
      <4> HIDE DEF Covered, From
      <4> QED BY <2>1, <3>6, <3>7
    <3> HIDE DEF Covered, From
    <3> QED BY <2>1, <2>2, <3>4, <3>8 DEF u
  <2> QED BY <2>4, <2>5
<1> HIDE DEF Q
<1>3. <<n, Spaced(places)>> \in Q
  <2>1. <<Len(places), Spaced(places)>> \in Q
    BY <1>1, <1>2, SpacedIn DEF n
  <2> QED BY <2>1 DEF n
<1>4. \A i \in 1..n : Covered(i, Spaced(places))
  BY <1>3 DEF Q
<1> QED BY <1>0, <1>4

----------------------------------------------------------------------------
(* Texts                                                                   *)

Texts == Seq(Chars)

\* _plain changes characters, and neither their number nor their places.
LEMMA PlainTyped ==
  ASSUME NEW text \in Texts
  PROVE  /\ PlainText(text) \in Texts /\ Len(PlainText(text)) = Len(text)
         /\ \A i \in DOMAIN text : PlainText(text)[i] = Plain(text[i])
<1>1. DOMAIN text = 1..Len(text) /\ Len(text) \in Nat /\ \A i \in DOMAIN text : text[i] \in Chars
  BY DEF Texts
<1>2. \A c \in Chars : Plain(c) \in Chars
  BY DEF Plain, Chars
<1>3. PlainText(text) \in [1..Len(text) -> Chars]
  BY <1>1, <1>2 DEF PlainText
<1>4. PlainText(text) \in Texts /\ Len(PlainText(text)) = Len(text)
  BY <1>1, <1>3 DEF Texts
<1> QED BY <1>4 DEF PlainText

\* Line endings are changed within texts.
LEMMA UnixTyped == ASSUME NEW text \in Texts PROVE UnixEndings(text) \in Texts
<1> DEFINE seqs == [i \in DOMAIN text |->
             IF text[i] = "r" /\ i < Len(text) /\ text[i + 1] = "n" THEN <<>> ELSE <<text[i]>>]
<1>1. DOMAIN text = 1..Len(text) /\ Len(text) \in Nat /\ \A i \in DOMAIN text : text[i] \in Chars
  BY DEF Texts
<1>2. <<>> \in Seq(Chars) /\ \A c \in Chars : <<c>> \in Seq(Chars)
  OBVIOUS
<1>3. seqs \in [1..Len(text) -> Seq(Chars)]
  BY <1>1, <1>2
<1>4. seqs \in Seq(Seq(Chars)) /\ DOMAIN seqs = 1..Len(text)
  BY <1>1, <1>3
<1>5. \A i \in DOMAIN seqs : seqs[i] \in Seq(Chars)
  BY <1>3, <1>4
<1> HIDE DEF seqs
<1>6. FlattenSeq(seqs) \in Seq(Chars)
  <2> DEFINE Q == Seq(Chars)
  <2>1. <<>> \in Q /\ Q \in SUBSET Seq(Chars)
    OBVIOUS
  <2>2. \A i \in DOMAIN seqs : seqs[i] \in Q /\ \A q \in Q : q \o seqs[i] \in Q
    BY <1>5
  <2> HIDE DEF Q
  <2>3. FlattenSeq(seqs) \in Q
    BY <1>4, <2>1, <2>2, FlattenIn
  <2> QED BY <2>3 DEF Q
<1> QED BY <1>6 DEF seqs, UnixEndings, Texts

\* Windows line endings go everywhere.
LEMMA WindowsTyped ==
  ASSUME NEW text \in Texts
  PROVE  WindowsEndings(text) \in Texts /\ AfterReturns(WindowsEndings(text))
<1> DEFINE seqs == [i \in DOMAIN text |-> IF text[i] = "n" THEN <<"r", "n">> ELSE <<text[i]>>]
           Q == {t \in Seq(Chars) : AfterReturns(t)}
<1>1. DOMAIN text = 1..Len(text) /\ Len(text) \in Nat /\ \A i \in DOMAIN text : text[i] \in Chars
  BY DEF Texts
<1>2. /\ <<>> \in Seq(Chars) /\ <<"r", "n">> \in Seq(Chars)
      /\ \A c \in Chars : <<c>> \in Seq(Chars)
  BY DEF Chars
<1>3. seqs \in [1..Len(text) -> Seq(Chars)]
  BY <1>1, <1>2
<1>4. seqs \in Seq(Seq(Chars)) /\ DOMAIN seqs = 1..Len(text)
  BY <1>1, <1>3
<1>5. \A i \in DOMAIN seqs :
        seqs[i] = <<"r", "n">> \/ (seqs[i] = <<text[i]>> /\ text[i] # "n" /\ text[i] \in Chars)
  BY <1>1
<1> HIDE DEF seqs
<1>6. ASSUME NEW q \in Seq(Chars), AfterReturns(q), NEW i \in DOMAIN seqs
      PROVE  AfterReturns(q \o seqs[i]) /\ q \o seqs[i] \in Seq(Chars)
  <2>1. CASE seqs[i] = <<"r", "n">>
    <3> DEFINE u == q \o <<"r", "n">>
    <3>1. /\ Len(q) \in Nat /\ u \in Seq(Chars) /\ DOMAIN u = 1..(Len(q) + 2) /\ DOMAIN q = 1..Len(q)
          /\ \A k \in 1..Len(q) : u[k] = q[k]
          /\ u[Len(q) + 1] = "r" /\ u[Len(q) + 2] = "n"
      BY <1>2
    <3> HIDE DEF u
    <3>2. ASSUME NEW k \in DOMAIN u, u[k] = "n" PROVE k > 1 /\ u[k - 1] = "r"
      <4>1. CASE k \in 1..Len(q)
        <5>1. k > 1 /\ q[k - 1] = "r" /\ k - 1 \in 1..Len(q)
          BY <1>6, <3>1, <3>2, <4>1 DEF AfterReturns
        <5> QED BY <5>1, <3>1
      <4>2. CASE k = Len(q) + 2
        BY <4>2, <3>1
      <4> QED BY <4>1, <4>2, <3>1, <3>2
    <3> QED BY <2>1, <3>1, <3>2 DEF AfterReturns, u
  <2>2. CASE seqs[i] # <<"r", "n">>
    <3> DEFINE c == text[i]
               u == q \o <<c>>
    <3>0. seqs[i] = <<c>> /\ c # "n" /\ c \in Chars
      BY <1>5, <2>2
    <3> HIDE DEF c
    <3>1. /\ Len(q) \in Nat /\ u \in Seq(Chars) /\ DOMAIN u = 1..(Len(q) + 1) /\ DOMAIN q = 1..Len(q)
          /\ \A k \in 1..Len(q) : u[k] = q[k]
          /\ u[Len(q) + 1] = c
      BY <3>0
    <3> HIDE DEF u
    <3>2. ASSUME NEW k \in DOMAIN u, u[k] = "n" PROVE k > 1 /\ u[k - 1] = "r"
      <4>1. k \in 1..Len(q)
        BY <3>0, <3>1, <3>2
      <4>2. k > 1 /\ q[k - 1] = "r" /\ k - 1 \in 1..Len(q)
        BY <1>6, <3>1, <3>2, <4>1 DEF AfterReturns
      <4> QED BY <4>2, <3>1
    <3> QED BY <3>0, <3>1, <3>2 DEF AfterReturns, u
  <2> QED BY <2>1, <2>2
<1>7. <<>> \in Q
  BY <1>2 DEF AfterReturns
<1>8. ASSUME NEW i \in DOMAIN seqs PROVE seqs[i] \in Q /\ \A q \in Q : q \o seqs[i] \in Q
  <2>1. \A q \in Q : q \o seqs[i] \in Q
    BY <1>6
  <2>2. <<>> \o seqs[i] = seqs[i]
    <3>1. seqs[i] \in Seq(Chars)
      BY <1>4
    <3> QED BY <3>1
  <2>3. <<>> \o seqs[i] \in Q
    BY <1>7, <2>1
  <2> QED BY <2>1, <2>2, <2>3
<1>9. Q \in SUBSET Seq(Chars)
  OBVIOUS
<1> HIDE DEF Q
<1>10. FlattenSeq(seqs) \in Q
  BY <1>4, <1>7, <1>8, <1>9, FlattenIn
<1> QED BY <1>10 DEF Q, seqs, WindowsEndings, Texts

\* _LineEndings turns texts to texts, both ways.
LEMMA ViewTyped ==
  ASSUME NEW source \in Texts
  PROVE  View(source) \in Texts /\ \A t \in Texts : Written(source, t) \in Texts
BY UnixTyped, WindowsTyped DEF View, Written

\* What lies at a place.
LEMMA BetweenIs ==
  ASSUME NEW text \in Texts, NEW i \in Nat, NEW k \in Nat, i <= k, k <= Len(text)
  PROVE  /\ Between(text, <<i, k>>) \in Texts /\ Len(Between(text, <<i, k>>)) = k - i
         /\ \A o \in 1..(k - i) : Between(text, <<i, k>>)[o] = text[i + o]
<1>1. Len(text) \in Nat /\ text \in Seq(Chars)
  BY DEF Texts
<1>2. Between(text, <<i, k>>) = SubSeq(text, i + 1, k)
  BY DEF Between
<1>3. SubSeq(text, i + 1, k) \in Seq(Chars) /\ Len(SubSeq(text, i + 1, k)) = k - i
  BY <1>1
<1>4. \A o \in 1..(k - i) : SubSeq(text, i + 1, k)[o] = text[i + o]
  BY <1>1
<1> QED BY <1>2, <1>3, <1>4 DEF Texts

\* Every place that is the search, and only such places.
OccurrencesOf(text, search, found) ==
  /\ found \in Seq(Spots) /\ Disjoint(found)
  /\ \A j \in DOMAIN found : /\ found[j][2] = found[j][1] + Len(search)
                             /\ found[j][2] <= Len(text) /\ Between(text, found[j]) = search
  /\ \A i \in 0..Len(text) :
       i + Len(search) <= Len(text) /\ Between(text, <<i, i + Len(search)>>) = search =>
         \E j \in DOMAIN found : Covers(found[j], <<i, i + Len(search)>>)
\* _occurrences finds places of the search text, apart from each other, and
\* none is missed altogether.
LEMMA OccurrencesAre ==
  ASSUME NEW text \in Texts, NEW search \in Texts
  PROVE  OccurrencesOf(text, search, Occurrences(text, search))
<1> DEFINE n == Len(search)
           places == [i \in 1..(Len(text) + 1) |-> PlaceAt(text, search, i - 1)]
           found == Spaced(places)
<1>0. n \in Nat /\ Len(text) \in Nat
  BY DEF Texts
<1> HIDE DEF n
<1>1. \A i \in 1..(Len(text) + 1) :
        PlaceAt(text, search, i - 1) =
          IF i - 1 + n <= Len(text) /\ Between(text, <<i - 1, i - 1 + n>>) = search
          THEN <<i - 1, i - 1 + n>> ELSE Nowhere
  BY <1>0 DEF PlaceAt, n
<1>2. \A i \in 1..(Len(text) + 1) : <<i - 1, i - 1 + n>> \in Spots
  BY <1>0 DEF Spots
<1>3. places \in [1..(Len(text) + 1) -> Spots \cup {Nowhere}]
  BY <1>1, <1>2
<1>4. /\ places \in Seq(Spots \cup {Nowhere}) /\ DOMAIN places = 1..(Len(text) + 1)
      /\ \A i \in DOMAIN places : places[i] = PlaceAt(text, search, i - 1)
  BY <1>0, <1>3
<1> HIDE DEF places
<1>5. found \in Seq(Spots) /\ Disjoint(found)
      /\ \A j \in DOMAIN found : \E k \in DOMAIN places : found[j] = places[k]
  BY <1>4, SpacedSound
<1>6. ASSUME NEW j \in DOMAIN found
      PROVE  found[j][2] = found[j][1] + n /\ found[j][2] <= Len(text) /\ Between(text, found[j]) = search
  <2>1. PICK k \in DOMAIN places : found[j] = places[k]
    BY <1>5
  <2>2. found[j] \in Spots
    BY <1>5
  <2>3. Nowhere \notin Spots
    BY DEF Nowhere, Spots
  <2>4. /\ found[j] = <<k - 1, k - 1 + n>> /\ k - 1 + n <= Len(text)
        /\ Between(text, <<k - 1, k - 1 + n>>) = search
    BY <1>1, <1>4, <2>1, <2>2, <2>3
  <2> QED BY <2>4
<1>7. ASSUME NEW j \in DOMAIN places, NEW k \in DOMAIN places,
             j <= k, places[j] # Nowhere, places[k] # Nowhere
      PROVE  places[j][1] <= places[k][1]
  <2>1. places[j] = <<j - 1, j - 1 + n>> /\ places[k] = <<k - 1, k - 1 + n>>
    BY <1>1, <1>4, <1>7
  <2>2. places[j][1] = j - 1 /\ places[k][1] = k - 1 /\ j \in Nat /\ k \in Nat
    BY <1>4, <2>1
  <2> QED BY <2>2, <1>7
<1>8. \A k \in DOMAIN places : places[k] # Nowhere =>
        \E j \in DOMAIN found : Covers(found[j], places[k])
  BY <1>4, <1>7, SpacedCovers
<1> HIDE DEF found
<1>9. ASSUME NEW i \in 0..Len(text), i + n <= Len(text), Between(text, <<i, i + n>>) = search
      PROVE  \E j \in DOMAIN found : Covers(found[j], <<i, i + n>>)
  <2>1. PICK k : k = i + 1
    OBVIOUS
  <2>2. k \in DOMAIN places /\ k - 1 = i
    BY <1>0, <1>4, <2>1
  <2>3. places[k] = <<i, i + n>>
    BY <1>1, <1>4, <1>9, <2>2
  <2>4. <<i, i + n>> # Nowhere
    BY DEF Nowhere
  <2> QED BY <1>8, <2>2, <2>3, <2>4
<1>10. Occurrences(text, search) = found
  BY DEF Occurrences, found, places
<1> QED BY <1>5, <1>6, <1>9, <1>10 DEF OccurrencesOf, n

----------------------------------------------------------------------------
(* Lines                                                                   *)

\* Rows of a text up to a place: they end where the line does.
Row(text, row) ==
  row[1] <= row[2] /\ \A o \in (row[1] + 1)..row[2] : text[o] # "n"
Follows(text, row, next) == next[1] = row[2] + 1 /\ text[next[1]] = "n"
RowsOf(text, stop, rows) ==
  /\ rows \in Seq((0..stop) \X (0..stop)) /\ Len(rows) >= 1
  /\ rows[1][1] = 0 /\ rows[Len(rows)][2] = stop
  /\ \A j \in 1..Len(rows) : Row(text, rows[j])
  /\ \A j \in 1..(Len(rows) - 1) : Follows(text, rows[j], rows[j + 1])
  /\ \A j, k \in 1..Len(rows) : j < k => rows[j][2] < rows[k][1]

RowsFrom(g, text) ==
  g = [i \in 0..Len(text) |-> IF i = 0 THEN <<<<0, 0>>>> ELSE Extended(g[i - 1], i, text[i])]

\* The empty text has one empty line.
LEMMA FirstRow == ASSUME NEW text PROVE RowsOf(text, 0, <<<<0, 0>>>>)
<1> DEFINE rows == <<<<0, 0>>>>
<1>1. rows \in Seq((0..0) \X (0..0)) /\ Len(rows) = 1 /\ rows[1] = <<0, 0>>
  OBVIOUS
<1>2. rows[1][1] = 0 /\ rows[1][2] = 0
  BY <1>1
<1> HIDE DEF rows
<1>3. Row(text, rows[1])
  BY <1>2 DEF Row
<1>4. RowsOf(text, 0, rows)
  BY <1>1, <1>2, <1>3 DEF RowsOf
<1> QED BY <1>4 DEF rows

\* A character extends the last line or begins another.
LEMMA NextRow ==
  ASSUME NEW text, NEW i \in Nat \ {0}, NEW rows, RowsOf(text, i - 1, rows)
  PROVE  RowsOf(text, i, Extended(rows, i, text[i]))
<1> DEFINE n == Len(rows)
           T == (0..(i - 1)) \X (0..(i - 1))
           U == (0..i) \X (0..i)
<1>1. rows \in Seq(T) /\ n \in Nat /\ n >= 1 /\ DOMAIN rows = 1..n
  BY DEF RowsOf
<1>2. \A j \in 1..n : rows[j] \in T /\ rows[j][1] \in 0..(i - 1) /\ rows[j][2] \in 0..(i - 1)
  BY <1>1
<1>3. T \subseteq U /\ <<i, i>> \in U
  OBVIOUS
<1>4. \A j \in 1..n : rows[j] \in U
  BY <1>2, <1>3
<1>5. rows \in [1..n -> U]
  BY <1>1, <1>4
<1>6. rows \in Seq(U)
  BY <1>1, <1>5
<1>7. CASE text[i] = "n"
  <2> DEFINE u == Append(rows, <<i, i>>)
  <2>1. /\ u \in Seq(U) /\ Len(u) = n + 1 /\ u[n + 1] = <<i, i>>
        /\ \A j \in 1..n : u[j] = rows[j]
    BY <1>1, <1>3, <1>6
  <2> HIDE DEF u, n, U, T
  <2>2. u[n + 1][1] = i /\ u[n + 1][2] = i
    BY <2>1
  <2>3. u[1][1] = 0 /\ u[1] = rows[1]
    BY <1>1, <2>1 DEF RowsOf
  <2>4. \A j \in 1..(n + 1) : Row(text, u[j])
    <3>1. Row(text, u[n + 1])
      BY <2>2 DEF Row
    <3>2. \A j \in 1..n : Row(text, u[j])
      BY <2>1 DEF RowsOf, n
    <3> QED BY <1>1, <3>1, <3>2
  <2>5. \A j \in 1..n : Follows(text, u[j], u[j + 1])
    <3>1. ASSUME NEW j \in 1..n PROVE Follows(text, u[j], u[j + 1])
      <4>1. CASE j = n
        <5>1. rows[n][2] = i - 1
          BY DEF RowsOf, n
        <5>2. u[j][2] = i - 1 /\ u[j + 1][1] = i
          BY <4>1, <5>1, <2>1, <2>2, <1>1
        <5> QED BY <5>2, <1>7 DEF Follows
      <4>2. CASE j # n
        <5>1. j \in 1..(n - 1) /\ j + 1 \in 1..n
          BY <4>2, <1>1
        <5>2. Follows(text, rows[j], rows[j + 1])
          BY <5>1 DEF RowsOf, n
        <5> QED BY <5>1, <5>2, <2>1
      <4> QED BY <4>1, <4>2
    <3> QED BY <3>1
  <2>6. ASSUME NEW j \in 1..(n + 1), NEW k \in 1..(n + 1), j < k PROVE u[j][2] < u[k][1]
    <3>0. j \in 1..n
      BY <1>1, <2>6
    <3>1. CASE k = n + 1
      <4>1. u[j][2] \in 0..(i - 1) /\ u[k][1] = i
        BY <3>0, <3>1, <2>1, <2>2, <1>2
      <4> QED BY <4>1
    <3>2. CASE k # n + 1
      <4>1. k \in 1..n
        BY <1>1, <3>2
      <4>2. rows[j][2] < rows[k][1]
        BY <2>6, <3>0, <4>1 DEF RowsOf, n
      <4> QED BY <3>0, <4>1, <4>2, <2>1
    <3> QED BY <3>1, <3>2
  <2>7. Len(u) >= 1 /\ Len(u) = n + 1 /\ Len(u) - 1 = n
    BY <1>1, <2>1
  <2>8. RowsOf(text, i, u)
    <3>1. u \in Seq((0..i) \X (0..i))
      BY <2>1 DEF U
    <3>2. \A j \in 1..(Len(u) - 1) : Follows(text, u[j], u[j + 1])
      BY <2>5, <2>7
    <3> QED BY <3>1, <3>2, <2>2, <2>3, <2>4, <2>6, <2>7 DEF RowsOf
  <2>9. Extended(rows, i, text[i]) = u
    BY <1>7 DEF Extended, u
  <2> QED BY <2>8, <2>9
<1>8. CASE text[i] # "n"
  <2> DEFINE u == [rows EXCEPT ![n] = <<@[1], i>>]
  <2>0. <<rows[n][1], i>> \in U
    BY <1>1, <1>2
  <2>1. /\ u \in Seq(U) /\ Len(u) = n /\ u[n] = <<rows[n][1], i>>
        /\ \A j \in 1..(n - 1) : u[j] = rows[j]
    BY <1>1, <1>6, <2>0
  <2> HIDE DEF u, n, U, T
  <2>2. u[n][1] = rows[n][1] /\ u[n][2] = i
    BY <2>1
  <2>3. \A j \in 1..n : u[j][1] = rows[j][1]
    BY <1>1, <2>1, <2>2
  <2>4. u[1][1] = 0
    BY <1>1, <2>3 DEF RowsOf, n
  <2>5. \A j \in 1..n : Row(text, u[j])
    <3>1. Row(text, u[n])
      <4>1. Row(text, rows[n]) /\ rows[n][2] = i - 1
        BY <1>1 DEF RowsOf, n
      <4>2. rows[n][1] \in 0..(i - 1)
        BY <1>1, <1>2
      <4>3. \A o \in (rows[n][1] + 1)..(i - 1) : text[o] # "n"
        BY <4>1 DEF Row
      <4>4. \A o \in (rows[n][1] + 1)..i : text[o] # "n"
        BY <4>2, <4>3, <1>8
      <4> QED BY <4>2, <4>4, <2>2 DEF Row
    <3>2. \A j \in 1..(n - 1) : Row(text, u[j])
      BY <2>1, <1>1 DEF RowsOf, n
    <3> QED BY <1>1, <3>1, <3>2
  <2>6. \A j \in 1..(n - 1) : Follows(text, u[j], u[j + 1])
    <3>1. ASSUME NEW j \in 1..(n - 1) PROVE Follows(text, u[j], u[j + 1])
      <4>1. j + 1 \in 1..n /\ u[j] = rows[j] /\ u[j + 1][1] = rows[j + 1][1]
        BY <1>1, <2>1, <2>3
      <4>2. Follows(text, rows[j], rows[j + 1])
        BY DEF RowsOf, n
      <4> QED BY <4>1, <4>2 DEF Follows
    <3> QED BY <3>1
  <2>7. ASSUME NEW j \in 1..n, NEW k \in 1..n, j < k PROVE u[j][2] < u[k][1]
    <3>1. j \in 1..(n - 1) /\ u[j] = rows[j] /\ u[k][1] = rows[k][1]
      BY <1>1, <2>1, <2>3, <2>7
    <3>2. rows[j][2] < rows[k][1]
      BY <2>7 DEF RowsOf, n
    <3> QED BY <3>1, <3>2
  <2>8. RowsOf(text, i, u)
    <3>1. u \in Seq((0..i) \X (0..i))
      BY <2>1 DEF U
    <3>2. Len(u) = n /\ n >= 1
      BY <1>1, <2>1
    <3> QED BY <3>1, <3>2, <2>2, <2>4, <2>5, <2>6, <2>7 DEF RowsOf
  <2>9. Extended(rows, i, text[i]) = u
    BY <1>8 DEF Extended, u, n
  <2> QED BY <2>8, <2>9
<1> QED BY <1>7, <1>8

\* Rows computes the rows of a text.
LEMMA RowsAre == ASSUME NEW text \in Texts PROVE RowsOf(text, Len(text), Rows(text))
<1> DEFINE n == Len(text)
           S == Seq(Spots)
           step == [x \in (1..n) \X S |-> IF x[2] = <<>> THEN <<>> ELSE Extended(x[2], x[1], text[x[1]])]
<1>0. n \in Nat
  BY DEF Texts
<1>1. ASSUME NEW i \in 1..n, NEW t \in S, t # <<>> PROVE Extended(t, i, text[i]) \in S \ {<<>>}
  <2>1. Len(t) \in Nat /\ Len(t) \in DOMAIN t /\ DOMAIN t = 1..Len(t) /\ t[Len(t)] \in Spots /\ i \in Nat
    BY <1>1
  <2>2. CASE text[i] = "n"
    <3>1. <<i, i>> \in Spots
      BY <2>1 DEF Spots
    <3>2. Append(t, <<i, i>>) \in S /\ Len(Append(t, <<i, i>>)) = Len(t) + 1
      BY <3>1
    <3>3. Append(t, <<i, i>>) # <<>>
      BY <2>1, <3>2
    <3> QED BY <2>2, <3>2, <3>3 DEF Extended
  <2>3. CASE text[i] # "n"
    <3> DEFINE p == <<t[Len(t)][1], i>>
    <3>1. p \in Spots
      BY <2>1 DEF Spots
    <3> HIDE DEF p
    <3>2. [t EXCEPT ![Len(t)] = p] \in S /\ Len([t EXCEPT ![Len(t)] = p]) = Len(t)
      BY <2>1, <3>1
    <3>3. Len(t) # 0
      BY <2>1
    <3>4. [t EXCEPT ![Len(t)] = p] # <<>>
      BY <3>2, <3>3
    <3> QED BY <2>3, <3>2, <3>4 DEF Extended, p
  <2> QED BY <2>2, <2>3
<1>2. step \in [(1..n) \X S -> S]
  <2> SUFFICES ASSUME NEW x \in (1..n) \X S
               PROVE  (IF x[2] = <<>> THEN <<>> ELSE Extended(x[2], x[1], text[x[1]])) \in S
    OBVIOUS
  <2>1. x[1] \in 1..n /\ x[2] \in S /\ <<>> \in S
    OBVIOUS
  <2> QED BY <2>1, <1>1
<1>3. \A i \in 1..n, t \in S : t # <<>> => step[<<i, t>>] = Extended(t, i, text[i])
  OBVIOUS
<1> HIDE DEF step, S
<1>4. <<<<0, 0>>>> \in S /\ <<<<0, 0>>>> # <<>>
  BY DEF S, Spots
<1>5. PICK g : Recurs(g, n, <<<<0, 0>>>>, step)
  BY <1>0, RecursExists
<1>6. g = [i \in 0..n |-> IF i = 0 THEN <<<<0, 0>>>> ELSE step[<<i, g[i - 1]>>]]
  BY <1>5 DEF Recurs
<1>7. \A i \in 0..n : g[i] \in S
  BY <1>0, <1>2, <1>4, <1>5, RecursTyped
<1> DEFINE P == {i \in 0..n : g[i] # <<>>}
<1>8. \A i \in 0..n : i \in P
  <2>1. 0 \in P
    BY <1>0, <1>4, <1>6
  <2>2. ASSUME NEW i \in 1..n, i - 1 \in P PROVE i \in P
    <3>1. i \in 0..n /\ i # 0 /\ i - 1 \in 0..n
      BY <1>0
    <3>2. g[i] = Extended(g[i - 1], i, text[i]) /\ g[i - 1] # <<>> /\ g[i - 1] \in S
      BY <1>3, <1>6, <1>7, <2>2, <3>1
    <3> QED BY <1>1, <3>1, <3>2
  <2> HIDE DEF P
  <2> QED BY <1>0, <2>1, <2>2, UpTo
<1>9. ASSUME NEW i \in 0..n
      PROVE  g[i] = IF i = 0 THEN <<<<0, 0>>>> ELSE Extended(g[i - 1], i, text[i])
  <2>1. i # 0 => i \in 1..n /\ i - 1 \in 0..n
    BY <1>0
  <2> QED BY <1>3, <1>6, <1>7, <1>8, <2>1
<1>10. RowsFrom(g, text)
  <2>1. g = [i \in 0..n |-> g[i]]
    BY <1>6
  <2>2. [i \in 0..n |-> g[i]] =
          [i \in 0..n |-> IF i = 0 THEN <<<<0, 0>>>> ELSE Extended(g[i - 1], i, text[i])]
    BY <1>9
  <2> QED BY <2>1, <2>2 DEF RowsFrom
<1> DEFINE f == CHOOSE f : RowsFrom(f, text)
<1>11. RowsFrom(f, text)
  BY <1>10
<1>12. Rows(text) = f[n]
  BY DEF Rows, RowsFrom
<1> HIDE DEF f
<1>13. f = [i \in 0..n |-> IF i = 0 THEN <<<<0, 0>>>> ELSE Extended(f[i - 1], i, text[i])]
  BY <1>11 DEF RowsFrom
<1> DEFINE O == {i \in 0..n : RowsOf(text, i, f[i])}
<1>14. 0 \in O
  BY <1>0, <1>13, FirstRow
<1>15. ASSUME NEW i \in 1..n, i - 1 \in O PROVE i \in O
  <2>1. i \in Nat \ {0} /\ i \in 0..n
    BY <1>0
  <2>2. RowsOf(text, i - 1, f[i - 1])
    BY <1>15
  <2>3. RowsOf(text, i, Extended(f[i - 1], i, text[i]))
    BY <2>1, <2>2, NextRow
  <2>4. f[i] = Extended(f[i - 1], i, text[i])
    BY <2>1, <1>13
  <2> QED BY <2>1, <2>3, <2>4
<1> HIDE DEF O
<1>16. n \in O
  <2>1. \A i \in 0..n : i \in O
    BY <1>0, <1>14, <1>15, UpTo
  <2> QED BY <2>1, <1>0
<1> QED BY <1>12, <1>16 DEF O

\* Texts of one length with their ends of lines at the same places have the
\* same rows.
SameEnds(a, b, n) == \A o \in 1..n : a[o] = "n" <=> b[o] = "n"
\* The lines of a text are where the line ends are, so that two texts with
\* the same line ends have the same lines: first, each of one in the other.
LEMMA RowsWithin ==
  ASSUME NEW n \in Nat, NEW a, NEW b, SameEnds(a, b, n),
         NEW r, NEW q, RowsOf(a, n, r), RowsOf(b, n, q)
  PROVE  Len(r) \in Nat /\ Len(q) \in Nat /\ \A j \in 1..Len(r) : j <= Len(q) /\ r[j] = q[j]
<1> DEFINE m == Len(r)
           k == Len(q)
           T == (0..n) \X (0..n)
           P == {j \in 0..m : j = 0 \/ (j <= k /\ r[j] = q[j])}
<1>0. r \in Seq(T) /\ q \in Seq(T) /\ m \in Nat /\ k \in Nat /\ m >= 1 /\ k >= 1
  BY DEF RowsOf
<1>1. /\ \A j \in 1..m : r[j] \in T /\ r[j] = <<r[j][1], r[j][2]>> /\ r[j][1] \in 0..n /\ r[j][2] \in 0..n
      /\ \A j \in 1..k : q[j] \in T /\ q[j] = <<q[j][1], q[j][2]>> /\ q[j][1] \in 0..n /\ q[j][2] \in 0..n
  <2>1. \A x \in T : x = <<x[1], x[2]>> /\ x[1] \in 0..n /\ x[2] \in 0..n
    OBVIOUS
  <2>2. (\A j \in 1..m : r[j] \in T) /\ \A j \in 1..k : q[j] \in T
    BY <1>0
  <2> HIDE DEF T
  <2> QED BY <2>1, <2>2
<1> HIDE DEF T, m, k
<1>2. ASSUME NEW j \in 1..m, j <= k, r[j][1] = q[j][1] PROVE r[j][2] = q[j][2]
  <2>0. j \in 1..k
    BY <1>0, <1>2
  <2>1. ASSUME r[j][2] < q[j][2] PROVE FALSE
    <3>1. j # m
      <4>1. r[m][2] = n
        BY DEF RowsOf, m
      <4> QED BY <4>1, <2>1, <1>1, <2>0
    <3>2. j \in 1..(m - 1)
      BY <3>1, <1>0
    <3>3. r[j + 1][1] = r[j][2] + 1 /\ a[r[j + 1][1]] = "n"
      BY <3>2 DEF RowsOf, Follows, m
    <3>4. r[j][2] + 1 \in (q[j][1] + 1)..q[j][2] /\ r[j][2] + 1 \in 1..n
      <4>1. r[j][1] <= r[j][2]
        BY DEF RowsOf, Row, m
      <4> QED BY <4>1, <1>1, <1>2, <2>0, <2>1
    <3>5. b[r[j][2] + 1] # "n"
      BY <2>0, <3>4 DEF RowsOf, Row, k
    <3> QED BY <3>3, <3>4, <3>5 DEF SameEnds
  <2>2. ASSUME q[j][2] < r[j][2] PROVE FALSE
    <3>1. j # k
      <4>1. q[k][2] = n
        BY DEF RowsOf, k
      <4> QED BY <4>1, <2>2, <1>1, <2>0
    <3>2. j \in 1..(k - 1)
      BY <3>1, <2>0, <1>0
    <3>3. q[j + 1][1] = q[j][2] + 1 /\ b[q[j + 1][1]] = "n"
      BY <3>2 DEF RowsOf, Follows, k
    <3>4. q[j][2] + 1 \in (r[j][1] + 1)..r[j][2] /\ q[j][2] + 1 \in 1..n
      <4>1. q[j][1] <= q[j][2]
        BY <2>0 DEF RowsOf, Row, k
      <4> QED BY <4>1, <1>1, <1>2, <2>0, <2>2
    <3>5. a[q[j][2] + 1] # "n"
      BY <3>4 DEF RowsOf, Row, m
    <3> QED BY <3>3, <3>4, <3>5 DEF SameEnds
  <2> QED BY <2>0, <2>1, <2>2, <1>1
<1>3. 0 \in P
  BY <1>0
<1>4. ASSUME NEW j \in 1..m, j - 1 \in P PROVE j \in P
  <2>1. CASE j = 1
    <3>1. 1 <= k /\ r[1][1] = q[1][1]
      BY <1>0 DEF RowsOf, m, k
    <3>2. r[1][2] = q[1][2]
      BY <1>0, <1>2, <3>1, <2>1
    <3>3. r[1] = q[1]
      BY <1>0, <1>1, <3>1, <3>2
    <3> QED BY <1>0, <2>1, <3>1, <3>3
  <2>2. CASE j # 1
    <3> DEFINE i == j - 1
    <3>1. i \in 1..(m - 1) /\ i + 1 = j /\ i <= k /\ r[i] = q[i] /\ i \in 1..m
      BY <1>0, <1>4, <2>2
    <3> HIDE DEF i
    <3>2. r[j][1] = r[i][2] + 1
      BY <3>1 DEF RowsOf, Follows, m
    <3>3. i # k
      <4>1. q[k][2] = n
        BY DEF RowsOf, k
      <4>2. r[j][1] <= n /\ r[i][2] \in 0..n
        BY <1>1, <3>1
      <4> QED BY <4>1, <4>2, <3>1, <3>2, <1>0
    <3>4. i \in 1..(k - 1) /\ j <= k
      BY <1>0, <3>1, <3>3
    <3>5. q[j][1] = q[i][2] + 1
      BY <3>1, <3>4 DEF RowsOf, Follows, k
    <3>6. r[j][1] = q[j][1]
      BY <3>1, <3>2, <3>5
    <3>7. r[j][2] = q[j][2]
      BY <3>4, <3>6, <1>2
    <3>8. r[j] = q[j]
      <4>1. j \in 1..m /\ j \in 1..k
        BY <1>0, <3>4
      <4>2. r[j] = <<r[j][1], r[j][2]>> /\ q[j] = <<q[j][1], q[j][2]>>
        BY <4>1, <1>1
      <4> QED BY ONLY <4>2, <3>6, <3>7
    <3> QED BY <1>0, <3>4, <3>8
  <2> QED BY <2>1, <2>2
<1> HIDE DEF P
<1>5. \A j \in 0..m : j \in P
  BY <1>0, <1>3, <1>4, UpTo
<1>6. \A j \in 1..m : j <= k /\ r[j] = q[j]
  BY <1>0, <1>5 DEF P
<1> QED BY <1>0, <1>6 DEF m, k

\* Then all of them.
LEMMA SameRows ==
  ASSUME NEW n \in Nat, NEW a, NEW b, SameEnds(a, b, n),
         NEW r, NEW q, RowsOf(a, n, r), RowsOf(b, n, q)
  PROVE  r = q
<1>0. SameEnds(b, a, n)
  BY DEF SameEnds
<1>1. Len(r) \in Nat /\ Len(q) \in Nat /\ \A j \in 1..Len(r) : j <= Len(q) /\ r[j] = q[j]
  BY RowsWithin
<1>2. \A j \in 1..Len(q) : j <= Len(r) /\ q[j] = r[j]
  BY <1>0, RowsWithin
<1>3. r \in Seq((0..n) \X (0..n)) /\ q \in Seq((0..n) \X (0..n)) /\ Len(r) >= 1 /\ Len(q) >= 1
  BY DEF RowsOf
<1>4. Len(r) = Len(q)
  <2>1. Len(r) \in 1..Len(r) /\ Len(q) \in 1..Len(q)
    BY <1>1, <1>3
  <2>2. Len(r) <= Len(q) /\ Len(q) <= Len(r)
    BY <2>1, <1>1, <1>2
  <2> QED BY <2>2, <1>1
<1>5. r = [j \in 1..Len(r) |-> r[j]] /\ q = [j \in 1..Len(q) |-> q[j]]
  BY <1>3
<1>6. [j \in 1..Len(r) |-> r[j]] = [j \in 1..Len(r) |-> q[j]]
  BY <1>1
<1> QED BY <1>4, <1>5, <1>6

\* Texts that look the same with plain quotes are alike.
LEMMA PlainAlike ==
  ASSUME NEW a \in Texts, NEW b \in Texts, PlainText(a) = PlainText(b)
  PROVE  Alike(a, b)
<1> DEFINE n == Len(a)
<1>0. /\ n \in Nat /\ Len(b) = n /\ DOMAIN a = 1..n /\ DOMAIN b = 1..n
      /\ \A o \in 1..n : a[o] \in Chars /\ b[o] \in Chars /\ Plain(a[o]) = Plain(b[o])
  <2>1. Len(a) \in Nat /\ Len(b) = Len(a)
    BY PlainTyped DEF Texts
  <2>2. DOMAIN a = 1..n /\ DOMAIN b = 1..n /\ \A o \in 1..n : a[o] \in Chars /\ b[o] \in Chars
    BY <2>1 DEF Texts
  <2>3. \A o \in 1..n : PlainText(a)[o] = Plain(a[o]) /\ PlainText(b)[o] = Plain(b[o])
    BY <2>2, PlainTyped
  <2> QED BY <2>1, <2>2, <2>3
<1> HIDE DEF n
<1>1. SameEnds(a, b, n)
  BY <1>0 DEF SameEnds, Plain
<1>2. RowsOf(a, n, Rows(a)) /\ RowsOf(b, n, Rows(b))
  BY <1>0, RowsAre DEF n
<1>3. Rows(a) = Rows(b)
  BY <1>0, <1>1, <1>2, SameRows
<1>4. ASSUME NEW k \in DOMAIN Rows(a)
      PROVE  Bare(Between(a, Rows(a)[k])) = Bare(Between(b, Rows(a)[k]))
  <2>1. PICK i \in 0..n, l \in 0..n : Rows(a)[k] = <<i, l>> /\ i <= l
    <3> DEFINE r == Rows(a)
    <3>1. r \in Seq((0..n) \X (0..n)) /\ \A j \in 1..Len(r) : Row(a, r[j])
      BY <1>2 DEF RowsOf
    <3> HIDE DEF r
    <3>2. DOMAIN r = 1..Len(r)
      BY <3>1
    <3>3. k \in 1..Len(r) /\ r[k] \in (0..n) \X (0..n)
      BY <3>1, <3>2 DEF r
    <3>4. r[k][1] <= r[k][2]
      BY <3>1, <3>3 DEF Row
    <3> QED BY <3>3, <3>4 DEF r
  <2>2. PICK u : u = Between(a, <<i, l>>)
    OBVIOUS
  <2>3. PICK v : v = Between(b, <<i, l>>)
    OBVIOUS
  <2>4. u \in Texts /\ Len(u) = l - i /\ \A o \in 1..(l - i) : u[o] = a[i + o]
    BY <1>0, <2>1, <2>2, BetweenIs DEF n
  <2>5. v \in Texts /\ Len(v) = l - i /\ \A o \in 1..(l - i) : v[o] = b[i + o]
    BY <1>0, <2>1, <2>3, BetweenIs DEF n
  <2>6. PICK m \in Nat : m = l - i
    BY <2>1
  <2>7. ASSUME NEW o \in 1..m PROVE Plain(u[o]) = Plain(v[o]) /\ u[o] \in Chars /\ v[o] \in Chars
    <3>1. i + o \in 1..n
      BY <1>0, <2>1, <2>6
    <3> QED BY <1>0, <2>4, <2>5, <2>6, <3>1
  <2>8. DOMAIN u = 1..m /\ DOMAIN v = 1..m
    BY <2>4, <2>5, <2>6 DEF Texts
  <2>9. \A o \in 1..m : u[o] \in {"s", "r", "n"} <=> v[o] \in {"s", "r", "n"}
    BY <2>7 DEF Plain
  <2>10. {o \in DOMAIN u : u[o] \notin {"s", "r", "n"}} = {o \in DOMAIN v : v[o] \notin {"s", "r", "n"}}
    BY <2>8, <2>9
  <2> DEFINE last == {o \in DOMAIN u : u[o] \notin {"s", "r", "n"}}
             e == IF last = {} THEN 0 ELSE CHOOSE o \in last : \A j \in last : j <= o
  <2>11. e \in 0..m
    <3>1. CASE last = {}
      BY <2>6, <3>1
    <3>2. CASE last # {}
      <4>1. last \subseteq 1..m
        BY <2>8
      <4> HIDE DEF last
      <4>2. \E o \in last : \A j \in last : j <= o
        <5> DEFINE Up == {m - o : o \in last}
        <5>1. Up \in SUBSET Nat /\ Up # {}
          <6>1. \A o \in last : m - o \in Nat
            BY <2>6, <4>1
          <6> QED BY <6>1, <3>2
        <5> HIDE DEF Up
        <5>2. PICK x \in Up : \A y \in Up : x <= y
          BY <5>1, FirstNumber
        <5>3. PICK o \in last : x = m - o
          BY DEF Up
        <5>4. ASSUME NEW j \in last PROVE j <= o
          <6>1. m - o <= m - j
            BY <5>2, <5>3 DEF Up
          <6> QED BY <6>1, <4>1, <2>6
        <5> QED BY <5>4
      <4>3. e \in last
        BY <3>2, <4>2
      <4> HIDE DEF e
      <4> QED BY <2>6, <4>1, <4>3
    <3> QED BY <3>1, <3>2
  <2>12. Bare(u) = PlainText(SubSeq(u, 1, e))
    BY DEF Bare
  <2>13. Bare(v) = PlainText(SubSeq(v, 1, e))
    <3> DEFINE lastV == {o \in DOMAIN v : v[o] \notin {"s", "r", "n"}}
               eV == IF lastV = {} THEN 0 ELSE CHOOSE o \in lastV : \A j \in lastV : j <= o
    <3>1. Bare(v) = PlainText(SubSeq(v, 1, eV))
      BY DEF Bare
    <3>2. lastV = last
      BY <2>10
    <3> HIDE DEF lastV, last
    <3>3. eV = e
      BY <3>2
    <3> QED BY <3>1, <3>3
  <2> HIDE DEF e, last
  <2>14. /\ SubSeq(u, 1, e) = [o \in 1..e |-> u[o]]
         /\ SubSeq(v, 1, e) = [o \in 1..e |-> v[o]]
    <3>1. /\ SubSeq(u, 1, e) = [o \in 1..(1 + e - 1) |-> u[1 + o - 1]]
          /\ SubSeq(v, 1, e) = [o \in 1..(1 + e - 1) |-> v[1 + o - 1]]
      BY <2>4, <2>5, <2>6, <2>11 DEF Texts
    <3>2. 1 + e - 1 = e /\ \A o \in 1..e : 1 + o - 1 = o
      BY <2>11
    <3> QED BY <3>1, <3>2
  <2>15. [o \in 1..e |-> Plain(u[o])] = [o \in 1..e |-> Plain(v[o])]
    BY <2>6, <2>7, <2>11
  <2>16. PlainText(SubSeq(u, 1, e)) = PlainText(SubSeq(v, 1, e))
    <3>1. PlainText(SubSeq(u, 1, e)) = [o \in 1..e |-> Plain(u[o])]
      BY <2>14 DEF PlainText
    <3>2. PlainText(SubSeq(v, 1, e)) = [o \in 1..e |-> Plain(v[o])]
      BY <2>14 DEF PlainText
    <3> QED BY <2>15, <3>1, <3>2
  <2> QED BY <2>1, <2>2, <2>3, <2>12, <2>13, <2>16
<1>5. Split(a) = [k \in DOMAIN Rows(a) |-> Bare(Between(a, Rows(a)[k]))]
  BY DEF Split
<1>6. Split(b) = [k \in DOMAIN Rows(a) |-> Bare(Between(b, Rows(a)[k]))]
  BY <1>3 DEF Split
<1> QED BY <1>4, <1>5, <1>6 DEF Alike

\* Texts are equal when their characters are.
LEMMA TextsEqual ==
  ASSUME NEW u \in Texts, NEW v \in Texts, Len(u) = Len(v), \A o \in 1..Len(u) : u[o] = v[o]
  PROVE  u = v
<1>1. u = [o \in 1..Len(u) |-> u[o]] /\ v = [o \in 1..Len(v) |-> v[o]]
  BY DEF Texts
<1> QED BY <1>1

\* A place within a place.
LEMMA BetweenWithin ==
  ASSUME NEW text \in Texts, NEW i \in Nat, NEW l \in Nat, NEW x \in Nat, NEW y \in Nat,
         i <= x, x <= y, y <= l, l <= Len(text)
  PROVE  Between(Between(text, <<i, l>>), <<x - i, y - i>>) = Between(text, <<x, y>>)
<1>0. Len(text) \in Nat /\ l - i \in Nat /\ x - i \in Nat /\ y - i \in Nat /\ y - x \in Nat
      /\ (y - i) - (x - i) = y - x /\ x - i <= y - i /\ y - i <= l - i /\ y <= Len(text) /\ i <= l
  BY DEF Texts
<1>1. PICK a : a = Between(text, <<i, l>>)
  OBVIOUS
<1>2. a \in Texts /\ Len(a) = l - i /\ \A o \in 1..(l - i) : a[o] = text[i + o]
  BY <1>0, <1>1, BetweenIs
<1>3. PICK u : u = Between(a, <<x - i, y - i>>)
  OBVIOUS
<1>4. u \in Texts /\ Len(u) = y - x /\ \A o \in 1..(y - x) : u[o] = a[(x - i) + o]
  <2>1. PICK c \in Nat : c = x - i
    BY <1>0
  <2>2. PICK d \in Nat : d = y - i
    BY <1>0
  <2>3. c <= d /\ d <= Len(a) /\ u = Between(a, <<c, d>>) /\ d - c = y - x
    BY <1>0, <1>2, <1>3, <2>1, <2>2
  <2>4. u \in Texts /\ Len(u) = d - c /\ \A o \in 1..(d - c) : u[o] = a[c + o]
    BY <1>2, <2>3, BetweenIs
  <2> QED BY <2>1, <2>3, <2>4
<1>5. PICK v : v = Between(text, <<x, y>>)
  OBVIOUS
<1>6. v \in Texts /\ Len(v) = y - x /\ \A o \in 1..(y - x) : v[o] = text[x + o]
  BY <1>0, <1>5, BetweenIs
<1>7. ASSUME NEW o \in 1..(y - x) PROVE u[o] = v[o]
  <2>1. (x - i) + o \in 1..(l - i) /\ i + ((x - i) + o) = x + o
    BY <1>0
  <2> QED BY <2>1, <1>2, <1>4, <1>6
<1>8. u = v
  BY <1>4, <1>6, <1>7, TextsEqual
<1> QED BY <1>1, <1>3, <1>5, <1>8

\* Some rows of a text are the rows of what lies there.
Shifted(rows, k, m) ==
  [j \in 1..m |-> <<rows[k + j - 1][1] - rows[k][1], rows[k + j - 1][2] - rows[k][1]>>]
Lies(a, text, i, s) == \A o \in 1..(s - i) : a[o] = text[i + o]
\* A block of lines, cut out of its text, has those lines.
LEMMA RowsShift ==
  ASSUME NEW text, NEW n \in Nat, NEW rows, RowsOf(text, n, rows),
         NEW k \in Nat, NEW m \in Nat, k >= 1, m >= 1, k + m - 1 <= Len(rows),
         NEW i, i = rows[k][1], NEW s, s = rows[k + m - 1][2], NEW a,
         Lies(a, text, i, s)
  PROVE  /\ i \in 0..n /\ s \in 0..n /\ i <= s
         /\ RowsOf(a, s - i, Shifted(rows, k, m))
<1> DEFINE T == (0..n) \X (0..n)
           L == Len(rows)
           A == Shifted(rows, k, m)
           nr(j) == k + j - 1
<1>0. rows \in Seq(T) /\ L \in Nat /\ DOMAIN rows = 1..L
  BY DEF RowsOf
<1>1. \A j \in 1..L : rows[j][1] \in 0..n /\ rows[j][2] \in 0..n
  BY <1>0
<1> HIDE DEF T, L, A
<1>2. \A j \in 1..m : nr(j) \in 1..L /\ nr(j) \in Nat
  BY <1>0 DEF L
<1>3. \A j, h \in 1..L : j < h => rows[j][2] < rows[h][1]
  BY DEF RowsOf, L
<1>4. \A j \in 1..L : rows[j][1] <= rows[j][2]
  BY DEF RowsOf, Row, L
<1>5. nr(1) = k /\ 1 \in 1..m /\ m \in 1..m /\ k \in 1..L /\ nr(m) \in 1..L /\ i = rows[k][1] /\ s = rows[nr(m)][2]
  BY <1>2
<1>6. i \in 0..n /\ s \in 0..n
  BY <1>1, <1>5
<1>7. \A j \in 1..m : i <= rows[nr(j)][1] /\ rows[nr(j)][1] <= rows[nr(j)][2] /\ rows[nr(j)][2] <= s
  <2> SUFFICES ASSUME NEW j \in 1..m
               PROVE  i <= rows[nr(j)][1] /\ rows[nr(j)][1] <= rows[nr(j)][2] /\ rows[nr(j)][2] <= s
    OBVIOUS
  <2>1. nr(j) \in 1..L
    BY <1>2
  <2>2. rows[nr(j)][1] <= rows[nr(j)][2]
    BY <1>4, <2>1
  <2>3. i <= rows[nr(j)][1]
    <3>1. CASE j = 1
      BY <3>1, <1>1, <1>5
    <3>2. CASE j # 1
      <4>1. k < nr(j)
        BY <3>2
      <4>2. rows[k][2] < rows[nr(j)][1] /\ rows[k][1] <= rows[k][2]
        BY <4>1, <2>1, <1>3, <1>4, <1>5
      <4> QED BY <4>2, <2>1, <1>1, <1>5
    <3> QED BY <3>1, <3>2
  <2>4. rows[nr(j)][2] <= s
    <3>1. CASE j = m
      BY <3>1, <1>1, <1>5
    <3>2. CASE j # m
      <4>1. nr(j) < nr(m)
        BY <3>2
      <4>2. rows[nr(j)][2] < rows[nr(m)][1] /\ rows[nr(m)][1] <= rows[nr(m)][2]
        BY <4>1, <2>1, <1>3, <1>4, <1>5
      <4> QED BY <4>2, <2>1, <1>1, <1>5
    <3> QED BY <3>1, <3>2
  <2> QED BY <2>2, <2>3, <2>4
<1>8. i <= s
  BY <1>1, <1>2, <1>5, <1>6, <1>7
<1>9. /\ A = [j \in 1..m |-> <<rows[nr(j)][1] - i, rows[nr(j)][2] - i>>]
      /\ \A j \in 1..m : A[j] = <<rows[nr(j)][1] - i, rows[nr(j)][2] - i>>
  BY <1>5 DEF A, Shifted
<1>10. \A j \in 1..m : A[j][1] = rows[nr(j)][1] - i /\ A[j][2] = rows[nr(j)][2] - i
  BY <1>9
<1> DEFINE Slide(j, x, y) ==
             /\ x \in 0..n /\ y \in 0..n /\ i <= x /\ x <= y /\ y <= s
             /\ rows[nr(j)][1] = x /\ rows[nr(j)][2] = y /\ nr(j) \in 1..L
             /\ A[j] = <<x - i, y - i>> /\ A[j][1] = x - i /\ A[j][2] = y - i
<1>11. \A j \in 1..m : \E x, y : Slide(j, x, y)
  BY <1>1, <1>2, <1>7, <1>9, <1>10
<1>12. A \in Seq((0..(s - i)) \X (0..(s - i))) /\ Len(A) = m
  <2>1. ASSUME NEW j \in 1..m PROVE A[j] \in (0..(s - i)) \X (0..(s - i))
    <3>1. PICK x, y : Slide(j, x, y)
      BY <1>11
    <3>2. x - i \in 0..(s - i) /\ y - i \in 0..(s - i)
      BY ONLY <1>6, <3>1, n \in Nat
    <3> QED BY <3>1, <3>2
  <2>2. A \in [1..m -> (0..(s - i)) \X (0..(s - i))]
    BY <1>9, <2>1
  <2> QED BY <2>2
<1>14. A[1][1] = 0 /\ A[m][2] = s - i
  BY <1>5, <1>6, <1>10
<1>15. ASSUME NEW j \in 1..m PROVE Row(a, A[j])
  <2>1. PICK x, y : Slide(j, x, y)
    BY <1>11
  <2>2. Row(text, rows[nr(j)])
    BY <2>1 DEF RowsOf, L
  <2>3. ASSUME NEW o \in (x - i + 1)..(y - i) PROVE a[o] # "n"
    <3>1. o \in 1..(s - i) /\ i + o \in (x + 1)..y
      BY ONLY <1>6, <2>1, n \in Nat, o \in (x - i + 1)..(y - i)
    <3>2. text[i + o] # "n"
      BY <2>1, <2>2, <3>1 DEF Row
    <3>3. a[o] = text[i + o]
      BY <3>1 DEF Lies
    <3> QED BY <3>2, <3>3
  <2>4. x - i <= y - i
    BY ONLY <1>6, <2>1, n \in Nat
  <2>5. A[j][1] = x - i /\ A[j][2] = y - i
    BY <2>1
  <2> HIDE DEF Slide
  <2> QED BY <2>3, <2>4, <2>5 DEF Row
<1>16. ASSUME NEW j \in 1..(m - 1) PROVE Follows(a, A[j], A[j + 1])
  <2>1. j \in 1..m /\ j + 1 \in 1..m /\ nr(j + 1) = nr(j) + 1
    OBVIOUS
  <2>2. PICK x, y : Slide(j, x, y)
    BY <1>11, <2>1
  <2>3. PICK v, w : Slide(j + 1, v, w)
    BY <1>11, <2>1
  <2> DEFINE h == nr(j)
  <2>4. rows[h][2] = y /\ rows[h + 1][1] = v /\ h \in 1..L /\ h + 1 \in 1..L
    BY <2>1, <2>2, <2>3
  <2> HIDE DEF h
  <2>5. h \in 1..(L - 1)
    BY <1>0, <2>4
  <2>6. Follows(text, rows[h], rows[h + 1])
    BY <2>5 DEF RowsOf, L
  <2>7. v = y + 1 /\ text[v] = "n"
    BY <2>4, <2>6 DEF Follows
  <2>8. v - i = y - i + 1 /\ v - i \in 1..(s - i) /\ i + (v - i) = v
    BY ONLY <1>6, <2>2, <2>3, <2>7, n \in Nat
  <2>9. a[v - i] = "n"
    BY <2>7, <2>8 DEF Lies
  <2>10. A[j + 1][1] = v - i /\ A[j][2] = y - i
    BY <2>2, <2>3
  <2> HIDE DEF Slide
  <2> QED BY <2>8, <2>9, <2>10 DEF Follows
<1>17. ASSUME NEW j \in 1..m, NEW h \in 1..m, j < h PROVE A[j][2] < A[h][1]
  <2>1. PICK x, y : Slide(j, x, y)
    BY <1>11
  <2>2. PICK v, w : Slide(h, v, w)
    BY <1>11
  <2>3. nr(j) < nr(h)
    BY <1>17
  <2>4. rows[nr(j)][2] < rows[nr(h)][1]
    BY <1>3, <2>1, <2>2, <2>3
  <2>5. y < v
    BY <2>1, <2>2, <2>4
  <2>6. y - i < v - i
    BY ONLY <2>5, <2>1, <2>2, <1>6, n \in Nat
  <2> QED BY <2>1, <2>2, <2>6
<1>18. RowsOf(a, s - i, A)
  BY <1>12, <1>14, <1>15, <1>16, <1>17 DEF RowsOf
<1> QED BY <1>6, <1>8, <1>18 DEF A

\* The lines of a search; its last row is empty when it ends a line.
FinalEnd(search) == IF EndsLine(search) THEN 1 ELSE 0
\* A text that ends its last line has one empty row more than lines.
LEMMA LinesCount ==
  ASSUME NEW search \in Texts, search # <<>>
  PROVE  /\ Lines(search) \in Nat \ {0} /\ Len(Rows(search)) = Lines(search) + FinalEnd(search)
         /\ EndsLine(search) => Rows(search)[Lines(search) + 1] = <<Len(search), Len(search)>>
<1> DEFINE q == Rows(search)
           n == Len(search)
           T == (0..n) \X (0..n)
<1>1. RowsOf(search, n, q)
  BY RowsAre
<1>2. n \in Nat \ {0}
  BY DEF Texts
<1> HIDE DEF q, n
<1>3. q \in Seq(T) /\ Len(q) \in Nat \ {0} /\ q[Len(q)] \in T /\ q[Len(q)][2] = n
  BY <1>1 DEF RowsOf
<1>4. \A x \in T : x = <<x[1], x[2]>> /\ x[1] \in 0..n /\ x[2] \in 0..n
  OBVIOUS
<1>5. Row(search, q[Len(q)])
  BY <1>1, <1>3 DEF RowsOf
<1>6. Lines(search) = Len(q) - FinalEnd(search)
  BY DEF Lines, FinalEnd, q
<1>7. CASE EndsLine(search)
  <2>1. search[n] = "n"
    BY <1>7 DEF EndsLine, n
  <2>2. q[Len(q)][1] = n
    <3>1. q[Len(q)][1] \in 0..n /\ \A o \in (q[Len(q)][1] + 1)..n : search[o] # "n"
      BY <1>3, <1>4, <1>5 DEF Row
    <3> QED BY <3>1, <2>1, <1>2
  <2>3. Len(q) # 1
    <3>1. q[1][1] = 0
      BY <1>1 DEF RowsOf
    <3> QED BY <3>1, <2>2, <1>2
  <2>4. q[Len(q)] = <<n, n>>
    <3>1. q[Len(q)] = <<q[Len(q)][1], q[Len(q)][2]>>
      BY <1>3, <1>4
    <3> QED BY ONLY <3>1, <2>2, <1>3
  <2>5. FinalEnd(search) = 1
    BY <1>7 DEF FinalEnd
  <2>6. Lines(search) \in Nat \ {0} /\ Len(q) = Lines(search) + 1
    BY <1>3, <1>6, <2>3, <2>5
  <2> QED BY <2>4, <2>5, <2>6 DEF q, n
<1>8. CASE ~EndsLine(search)
  <2>1. FinalEnd(search) = 0
    BY <1>8 DEF FinalEnd
  <2>2. Lines(search) \in Nat \ {0} /\ Len(q) = Lines(search) + 0
    BY <1>3, <1>6, <2>1
  <2> QED BY <2>1, <2>2, <1>8 DEF q
<1> QED BY <1>7, <1>8

\* A block is what the search is, line by line.
LEMMA BlockAlike ==
  ASSUME NEW text \in Texts, NEW search \in Texts, search # <<>>,
         NEW k \in DOMAIN Rows(text), BlockAt(text, search, k) # Nowhere
  PROVE  \E i, l \in 0..Len(text) : /\ i <= l /\ BlockAt(text, search, k) = <<i, l>>
                                    /\ Alike(Between(text, <<i, l>>), search)
<1> DEFINE r == Rows(text)
           q == Rows(search)
           n == Len(text)
           m == Lines(search)
           w == FinalEnd(search)
<1>1. n \in Nat /\ RowsOf(text, n, r)
  BY RowsAre DEF Texts
<1>2. /\ m \in Nat \ {0} /\ w \in {0, 1} /\ Len(q) = m + w
      /\ w = 1 => q[m + 1] = <<Len(search), Len(search)>>
      /\ (w = 1 <=> EndsLine(search)) /\ w = IF EndsLine(search) THEN 1 ELSE 0
  BY LinesCount DEF FinalEnd
<1>3. /\ k + m - 1 <= Lines(text) /\ BlockAt(text, search, k) = Block(text, search, k)
      /\ \A j \in 1..m : Split(text)[k + j - 1] = Split(search)[j]
      /\ Block(text, search, k)[2] <= n
  BY DEF BlockAt
<1>4. Block(text, search, k) = <<r[k][1], r[k + m - 1][2] + w>>
  BY <1>2 DEF Block
<1>5. Lines(text) <= Len(r) /\ Len(r) \in Nat /\ r \in Seq((0..n) \X (0..n)) /\ DOMAIN r = 1..Len(r)
  <2>1. r \in Seq((0..n) \X (0..n))
    BY <1>1 DEF RowsOf
  <2>2. Len(r) \in Nat /\ DOMAIN r = 1..Len(r)
    BY <2>1
  <2>3. Lines(text) = Len(r) - (IF text = <<>> \/ EndsLine(text) THEN 1 ELSE 0)
    BY DEF Lines
  <2> QED BY <2>1, <2>2, <2>3
<1>6. DOMAIN q = 1..(m + w)
  <2>1. q \in Seq((0..Len(search)) \X (0..Len(search)))
    BY RowsAre DEF RowsOf
  <2> QED BY <2>1, <1>2
<1> HIDE DEF r, q, n, m, w
<1>7. k \in Nat /\ k >= 1 /\ m >= 1 /\ k \in 1..Len(r)
  BY <1>2, <1>5 DEF r
<1>8. PICK e \in Nat : e = k + m - 1
  BY <1>2, <1>7
<1>9. e \in 1..Len(r) /\ e <= Len(r)
  <2>1. e <= Lines(text) /\ Lines(text) <= Len(r) /\ Len(r) \in Nat
    BY <1>3, <1>5, <1>8
  <2>2. e \in Nat /\ e >= 1
    BY <1>2, <1>7, <1>8
  <2>3. Lines(text) \in Int
    BY <1>5 DEF Lines, r
  <2> QED BY <2>1, <2>2, <2>3
<1>10. \A j \in 1..Len(r) : r[j][1] \in 0..n /\ r[j][2] \in 0..n
  BY <1>5
<1>11. PICK i \in 0..n : i = r[k][1]
  BY <1>7, <1>10
<1>12. PICK s \in 0..n : s = r[e][2]
  BY <1>9, <1>10
<1>13. PICK l : l = s + w
  OBVIOUS
<1>14. BlockAt(text, search, k) = <<i, l>> /\ l <= n
  <2>1. Block(text, search, k) = <<i, l>>
    BY <1>4, <1>8, <1>11, <1>12, <1>13
  <2>2. Block(text, search, k)[2] = l
    BY <2>1
  <2> QED BY <1>3, <2>1, <2>2
<1>15. l \in 0..n /\ l \in Nat
  BY <1>1, <1>2, <1>12, <1>13, <1>14
<1>16. i <= s
  <2>1. Lies(text, text, 0, n)
    BY <1>1 DEF Lies
  <2>2. CASE m = 1
    <3>1. e = k
      BY <1>7, <1>8, <2>2
    <3> QED BY <3>1, <1>1, <1>7, <1>11, <1>12 DEF RowsOf, Row
  <2>3. CASE m # 1
    <3>1. k < e
      BY <1>2, <1>7, <1>8, <2>3
    <3>2. r[k][2] < r[e][1] /\ r[k][1] <= r[k][2] /\ r[e][1] <= r[e][2]
      BY <3>1, <1>1, <1>7, <1>9 DEF RowsOf, Row
    <3>3. r[k][2] \in 0..n /\ r[e][1] \in 0..n
      BY <1>7, <1>9, <1>10
    <3> QED BY <3>2, <3>3, <1>11, <1>12, <1>1
  <2> QED BY <2>2, <2>3
<1>17. i <= l
  BY <1>1, <1>2, <1>13, <1>16
<1>18. PICK a : a = Between(text, <<i, l>>)
  OBVIOUS
<1>19. a \in Texts /\ Len(a) = l - i /\ \A o \in 1..(l - i) : a[o] = text[i + o]
  <2>1. i \in Nat /\ l \in Nat /\ l <= Len(text)
    BY <1>1, <1>14, <1>15 DEF n
  <2> QED BY <2>1, <1>17, <1>18, BetweenIs
<1>20. PICK c \in Nat : c = s - i
  BY <1>1, <1>16
<1>21. l - i = c + w
  BY <1>1, <1>2, <1>13, <1>20
<1>22. PICK A : A = Shifted(r, k, m)
  OBVIOUS
<1>23. RowsOf(a, c, A)
  <2>1. Lies(a, text, i, s)
    <3>1. \A o \in 1..(s - i) : o \in 1..(l - i)
      BY <1>2, <1>20, <1>21
    <3> QED BY <3>1, <1>19 DEF Lies
  <2>2. k + m - 1 <= Len(r) /\ s = r[k + m - 1][2] /\ i = r[k][1] /\ m \in Nat
    BY <1>2, <1>8, <1>9, <1>11, <1>12
  <2>3. RowsOf(a, s - i, Shifted(r, k, m))
    BY <1>1, <1>7, <2>1, <2>2, RowsShift
  <2> QED BY <2>3, <1>20, <1>22
<1>24. /\ Len(A) = m
       /\ \A j \in 1..m : \E x, y \in Nat : /\ i <= x /\ x <= y /\ y <= l
                                            /\ r[k + j - 1] = <<x, y>> /\ A[j] = <<x - i, y - i>>
  <2>1. A = [j \in 1..m |-> <<r[k + j - 1][1] - i, r[k + j - 1][2] - i>>]
    BY <1>11, <1>22 DEF Shifted
  <2>2. Len(A) = m /\ A \in Seq((0..c) \X (0..c))
    <3>1. A \in Seq((0..c) \X (0..c))
      BY <1>23 DEF RowsOf
    <3>2. DOMAIN A = 1..Len(A) /\ Len(A) \in Nat
      BY <3>1
    <3>3. DOMAIN A = 1..m
      BY ONLY <2>1
    <3>4. m \in 1..Len(A)
      BY <3>2, <3>3, <1>2
    <3>5. m \in Nat \ {0}
      BY <1>2
    <3>6. PICK N \in Nat : N = Len(A)
      BY <3>2
    <3>7. N \in DOMAIN A
      <4>1. m \in 1..N
        BY <3>4, <3>6
      <4>2. N \in 1..N
        BY ONLY <4>1, N \in Nat
      <4> QED BY ONLY <4>2, <3>2, <3>6
    <3>8. N \in 1..m
      BY ONLY <3>7, <3>3
    <3>9. N = m
      BY ONLY <3>4, <3>5, <3>6, <3>8
    <3> QED BY ONLY <3>1, <3>6, <3>9
  <2>3. ASSUME NEW j \in 1..m
        PROVE  \E x, y \in Nat : /\ i <= x /\ x <= y /\ y <= l
                                 /\ r[k + j - 1] = <<x, y>> /\ A[j] = <<x - i, y - i>>
    <3>1. PICK h \in Nat : h = k + j - 1
      BY <1>2, <1>7
    <3>2. h \in 1..Len(r)
      <4>1. 1 <= h /\ h <= e
        BY <1>2, <1>7, <1>8, <3>1
      <4> QED BY <4>1, <1>9, <1>5
    <3>3. r[h] \in (0..n) \X (0..n)
      BY <1>5, <3>2
    <3>4. PICK x \in 0..n, y \in 0..n : r[h] = <<x, y>>
      BY <3>3
    <3>5. A[j] = <<x - i, y - i>>
      <4>1. r[h][1] = x /\ r[h][2] = y
        BY <3>4
      <4> QED BY <4>1, <2>1, <3>1
    <3>6. x - i \in 0..c /\ y - i \in 0..c /\ x - i <= y - i
      <4>1. A[j] \in (0..c) \X (0..c) /\ A[j][1] = x - i /\ A[j][2] = y - i
        <5>1. A[j][1] = x - i /\ A[j][2] = y - i
          BY <3>5
        <5>2. A[j] \in (0..c) \X (0..c)
          BY <2>2, <1>2
        <5> QED BY <5>1, <5>2
      <4>2. A[j][1] <= A[j][2]
        BY <1>23, <2>2 DEF RowsOf, Row
      <4> QED BY <4>1, <4>2
    <3>7. x \in Nat /\ y \in Nat /\ i <= x /\ x <= y /\ y <= l
      <4>1. n \in Nat /\ i \in Nat /\ s \in Nat /\ w \in {0, 1} /\ c \in Nat /\ c = s - i /\ l = s + w
        BY <1>1, <1>2, <1>13, <1>14, <1>16, <1>20
      <4>2. x \in Nat /\ y \in Nat
        BY ONLY <4>1, x \in 0..n, y \in 0..n
      <4> QED BY ONLY <4>1, <4>2, <3>6
    <3> QED BY <3>1, <3>4, <3>5, <3>7
  <2> QED BY <2>2, <2>3
<1>25. \A j \in 1..m : Bare(Between(a, A[j])) = Split(search)[j]
  <2> SUFFICES ASSUME NEW j \in 1..m PROVE Bare(Between(a, A[j])) = Split(search)[j]
    OBVIOUS
  <2>1. PICK x \in Nat, y \in Nat : /\ i <= x /\ x <= y /\ y <= l
                                    /\ r[k + j - 1] = <<x, y>> /\ A[j] = <<x - i, y - i>>
    BY <1>24
  <2>2. Between(a, <<x - i, y - i>>) = Between(text, <<x, y>>)
    <3>1. i \in Nat /\ l \in Nat /\ l <= Len(text)
      BY <1>1, <1>14, <1>15 DEF n
    <3> QED BY <3>1, <2>1, <1>18, BetweenWithin
  <2>3. k + j - 1 \in DOMAIN r
    <3>1. PICK h \in Nat : h = k + j - 1
      BY <1>2, <1>7
    <3>2. 1 <= h /\ h <= e
      BY <1>2, <1>7, <1>8, <3>1
    <3> QED BY <3>1, <3>2, <1>9, <1>5
  <2>4. Split(text)[k + j - 1] = Bare(Between(text, r[k + j - 1]))
    BY <2>3 DEF Split, r
  <2> QED BY <2>1, <2>2, <2>4, <1>3
<1>26. RowsOf(a, Len(a), Rows(a)) /\ Len(a) = c + w /\ Len(a) \in Nat
  BY <1>19, <1>20, <1>21, <1>2, RowsAre
<1>27. Split(search) = [j \in 1..(m + w) |-> Split(search)[j]]
       /\ \A j \in 1..(m + w) : Split(search)[j] = Bare(Between(search, q[j]))
  <2>1. Split(search) = [j \in 1..(m + w) |-> Bare(Between(search, q[j]))]
    BY <1>6 DEF Split, q
  <2> QED BY <2>1
<1>28. ASSUME NEW B, Rows(a) = B, DOMAIN B = 1..(m + w),
              \A j \in 1..(m + w) : Bare(Between(a, B[j])) = Split(search)[j]
       PROVE  Alike(a, search)
  <2>1. Split(a) = [j \in 1..(m + w) |-> Bare(Between(a, B[j]))]
    BY <1>28 DEF Split
  <2>2. Split(a) = [j \in 1..(m + w) |-> Split(search)[j]]
    BY <2>1, <1>28
  <2> QED BY <2>2, <1>27 DEF Alike
<1>29. CASE w = 0
  <2>1. RowsOf(a, Len(a), A)
    <3>1. Len(a) = c
      BY <1>26, <1>20, <1>29
    <3> QED BY <3>1, <1>23
  <2>2. SameEnds(a, a, Len(a))
    BY DEF SameEnds
  <2>3. Rows(a) = A
    BY <1>26, <2>1, <2>2, SameRows
  <2>4. m + w = m
    BY <1>2, <1>29
  <2>5. DOMAIN A = 1..m
    BY <1>22 DEF Shifted
  <2>6. Alike(a, search)
    BY <1>25, <1>28, <2>3, <2>4, <2>5
  <2> QED BY <2>6, <1>11, <1>14, <1>15, <1>17, <1>18 DEF n
<1>30. CASE w = 1
  <2>1. PICK d \in Nat \ {0} : d = c + 1
    BY <1>20
  <2>2. Len(a) = d /\ d - 1 = c /\ d \in 1..(l - i)
    BY <1>19, <1>26, <1>30, <2>1, <1>20
  <2>3. a[d] = "n"
    <3>1. e # Len(r)
      <4>1. r[Len(r)][2] = n
        BY <1>1 DEF RowsOf
      <4> QED BY <4>1, <1>1, <1>12, <1>13, <1>14, <1>30
    <3>2. e \in 1..(Len(r) - 1)
      <4>1. e \in 1..Len(r) /\ e # Len(r) /\ Len(r) \in Nat
        BY <3>1, <1>9, <1>5
      <4> QED BY ONLY <4>1
    <3>3. Follows(text, r[e], r[e + 1])
      BY <1>1, <3>2 DEF RowsOf
    <3>4. text[s + 1] = "n"
      BY <3>3, <1>12 DEF Follows
    <3>5. i + d = s + 1
      <4>1. i \in 0..n /\ s \in 0..n /\ n \in Nat /\ c = s - i /\ d = c + 1
        BY <1>1, <1>20, <2>1
      <4> QED BY ONLY <4>1
    <3>6. a[d] = text[i + d]
      BY <1>19, <2>2
    <3> QED BY <3>4, <3>5, <3>6
  <2>4. PICK B : B = Append(A, <<d, d>>)
    OBVIOUS
  <2>5. Extended(A, d, a[d]) = B
    BY <2>3, <2>4 DEF Extended
  <2>6. RowsOf(a, d, B)
    <3>1. RowsOf(a, d - 1, A)
      BY <1>23, <2>2
    <3> QED BY <3>1, <2>5, NextRow
  <2>7. SameEnds(a, a, d)
    BY DEF SameEnds
  <2>8. Rows(a) = B
    BY <1>26, <2>2, <2>6, <2>7, SameRows
  <2>9. DOMAIN B = 1..(m + w) /\ (\A j \in 1..m : B[j] = A[j]) /\ B[m + 1] = <<d, d>>
    <3>1. A \in Seq((0..c) \X (0..c)) /\ Len(A) = m
      BY <1>23, <1>24 DEF RowsOf
    <3>2. A \in Seq(Spots) /\ <<d, d>> \in Spots
      <4>1. (0..c) \X (0..c) \subseteq Spots
        BY <1>20 DEF Spots
      <4>2. \A j \in 1..m : A[j] \in Spots
        BY <3>1, <4>1
      <4>3. A \in [1..m -> Spots]
        BY <3>1, <4>2
      <4>4. <<d, d>> \in Spots
        BY <2>1 DEF Spots
      <4> QED BY <4>3, <4>4, <1>2
    <3>3. Len(B) = m + 1 /\ B \in Seq(Spots) /\ B[m + 1] = <<d, d>> /\ \A j \in 1..m : B[j] = A[j]
      BY <3>1, <3>2, <2>4, <1>2
    <3>4. DOMAIN B = 1..(m + 1)
      BY <3>3
    <3> QED BY <3>3, <3>4, <1>30
  <2>10. Bare(Between(a, <<d, d>>)) = Split(search)[m + 1]
    <3>1. Split(search)[m + 1] = Bare(Between(search, q[m + 1]))
      <4>1. m + 1 \in 1..(m + w)
        BY <1>2, <1>30
      <4> QED BY <4>1, <1>27
    <3>2. q[m + 1] = <<Len(search), Len(search)>>
      BY <1>2, <1>30
    <3>3. PICK u : u = Between(a, <<d, d>>)
      OBVIOUS
    <3>4. PICK v : v = Between(search, <<Len(search), Len(search)>>)
      OBVIOUS
    <3>5. u \in Texts /\ Len(u) = 0
      <4>1. d \in Nat /\ d <= Len(a) /\ d - d = 0
        BY <2>1, <2>2
      <4> QED BY <4>1, <3>3, <1>19, BetweenIs
    <3>6. v \in Texts /\ Len(v) = 0
      <4>1. PICK M \in Nat : M = Len(search)
        BY DEF Texts
      <4>2. M <= Len(search) /\ M - M = 0 /\ M <= M
        BY <4>1
      <4>3. Between(search, <<M, M>>) \in Texts /\ Len(Between(search, <<M, M>>)) = M - M
        BY <4>2, BetweenIs
      <4> QED BY <4>1, <4>2, <4>3, <3>4
    <3>7. u = v
      BY <3>5, <3>6, TextsEqual
    <3> QED BY <3>1, <3>2, <3>3, <3>4, <3>7
  <2>11. \A j \in 1..(m + w) : Bare(Between(a, B[j])) = Split(search)[j]
    <3>1. \A j \in 1..(m + w) : j = m + 1 \/ j \in 1..m
      BY <1>2, <1>30
    <3> QED BY <3>1, <2>9, <2>10, <1>25
  <2>12. Alike(a, search)
    BY <1>28, <2>8, <2>9, <2>11
  <2> QED BY <2>12, <1>11, <1>14, <1>15, <1>17, <1>18 DEF n
<1> QED BY <1>2, <1>29, <1>30

----------------------------------------------------------------------------
(* What is found, and what comes of it                                     *)

\* Places in a text, none before the end of the one before it.
PlacesIn(text, places) ==
  /\ places \in Seq(Spots) /\ Disjoint(places)
  /\ \A j \in DOMAIN places : places[j][1] <= places[j][2] /\ places[j][2] <= Len(text)

\* A place found is the search, or looks like it when it is nowhere; an only
\* place is the only one.
LEMMA FoundIs ==
  ASSUME NEW view \in Texts, NEW search \in Texts
  PROVE  LET found == Found(view, search)
             exact == {p \in (0..Len(view)) \X (0..Len(view)) : Between(view, p) = search}
         IN  /\ PlacesIn(view, found)
             /\ exact # {} => \A j \in DOMAIN found : found[j] \in exact
             /\ exact = {} => \A j \in DOMAIN found : Alike(Between(view, found[j]), search)
             /\ Len(found) = 1 => \A p \in exact : p[1] < p[2] =>
                  p[1] < found[1][2] /\ found[1][1] < p[2]
<1> DEFINE found == Found(view, search)
           n == Len(view)
           m == Len(search)
           exact == {p \in (0..n) \X (0..n) : Between(view, p) = search}
           o == Occurrences(view, search)
<1>0. n \in Nat /\ m \in Nat
  BY DEF Texts
<1>1. OccurrencesOf(view, search, o)
  BY OccurrencesAre
<1> HIDE DEF n, m, o
<1>2. \A j \in DOMAIN o : /\ o[j] \in Spots /\ o[j] = <<o[j][1], o[j][2]>>
                          /\ o[j][1] \in Nat /\ o[j][2] = o[j][1] + m /\ o[j][2] <= n
                          /\ Between(view, o[j]) = search
  <2>1. \A x \in Spots : x = <<x[1], x[2]>> /\ x[1] \in Nat /\ x[2] \in Nat
    BY DEF Spots
  <2>2. \A j \in DOMAIN o : o[j] \in Spots
    BY <1>1 DEF OccurrencesOf
  <2> QED BY <1>1, <2>1, <2>2 DEF OccurrencesOf, m, n
<1>3. \A j \in DOMAIN o : o[j] \in exact
  <2> SUFFICES ASSUME NEW j \in DOMAIN o PROVE o[j] \in exact
    OBVIOUS
  <2>1. o[j][1] \in 0..n /\ o[j][2] \in 0..n
    BY <1>0, <1>2
  <2>2. o[j] \in (0..n) \X (0..n)
    <3>1. o[j] = <<o[j][1], o[j][2]>>
      BY <1>2
    <3> QED BY ONLY <2>1, <3>1
  <2> QED BY <2>2, <1>2
\* Any exact place is found, or one that covers where it begins.
<1>4. ASSUME NEW p \in exact
      PROVE  /\ o # <<>>
             /\ p[1] < p[2] => p[2] = p[1] + m /\ \E j \in DOMAIN o : Covers(o[j], p)
  <2>1. PICK x \in 0..n, y \in 0..n : p = <<x, y>>
    OBVIOUS
  <2>2. x \in Nat /\ y \in Nat /\ y <= Len(view) /\ Between(view, <<x, y>>) = search
    BY <1>0, <2>1 DEF n
  <2>3. CASE x <= y
    <3>1. m = y - x
      BY <2>2, <2>3, BetweenIs DEF m
    <3>2. y = x + m /\ x \in 0..Len(view)
      BY <3>1, <2>2, <1>0 DEF n
    <3>3. x + Len(search) <= Len(view) /\ Between(view, <<x, x + Len(search)>>) = search
      BY <3>2, <2>2 DEF m
    <3>4. PICK j \in DOMAIN o : Covers(o[j], <<x, x + Len(search)>>)
      BY <1>1, <3>2, <3>3 DEF OccurrencesOf
    <3>5. Covers(o[j], p)
      BY <3>2, <3>4, <2>1 DEF m
    <3>6. o # <<>>
      BY <3>4
    <3>7. p[2] = p[1] + m
      BY <2>1, <3>2
    <3> QED BY <3>5, <3>6, <3>7
  <2>4. CASE ~(x <= y)
    <3>1. search = <<>>
      <4>1. y < x + 1
        BY <2>2, <2>4
      <4>2. Between(view, <<x, y>>) = SubSeq(view, x + 1, y)
        BY DEF Between
      <4>3. SubSeq(view, x + 1, y) = <<>>
        BY <4>1, <2>2 DEF Texts
      <4> QED BY <4>2, <4>3, <2>2
    <3>2. m = 0
      BY <3>1 DEF m
    <3>3. Between(view, <<0, 0>>) = search
      <4>1. Between(view, <<0, 0>>) = SubSeq(view, 0 + 1, 0)
        BY DEF Between
      <4>2. SubSeq(view, 0 + 1, 0) = <<>>
        BY DEF Texts
      <4> QED BY <3>1, <4>1, <4>2
    <3>4. 0 \in 0..Len(view) /\ 0 + Len(search) <= Len(view)
          /\ Between(view, <<0, 0 + Len(search)>>) = search
      BY <3>2, <3>3, <1>0 DEF m, n
    <3>5. \E j \in DOMAIN o : Covers(o[j], <<0, 0 + Len(search)>>)
      BY <1>1, <3>4 DEF OccurrencesOf
    <3>6. o # <<>> /\ ~(p[1] < p[2])
      BY <3>5, <2>1, <2>2, <2>4
    <3> QED BY <3>6
  <2> QED BY <2>3, <2>4, <2>2
<1>5. CASE o # <<>>
  <2>1. found = o
    BY <1>5 DEF Found, Else, o
  <2>2. PlacesIn(view, o)
    <3>1. \A j \in DOMAIN o : o[j][1] <= o[j][2] /\ o[j][2] <= n
      BY <1>0, <1>2
    <3> QED BY <3>1, <1>1 DEF PlacesIn, OccurrencesOf, n
  <2>3. exact # {}
    <3>1. 1 \in DOMAIN o
      <4>1. o \in Seq(Spots)
        BY <1>1 DEF OccurrencesOf
      <4> QED BY <4>1, <1>5
    <3> QED BY <3>1, <1>3
  <2>4. ASSUME Len(o) = 1, NEW p \in exact, p[1] < p[2]
        PROVE  p[1] < o[1][2] /\ o[1][1] < p[2]
    <3>1. DOMAIN o = {1}
      <4>1. o \in Seq(Spots)
        BY <1>1 DEF OccurrencesOf
      <4>2. DOMAIN o = 1..1
        BY <4>1, <2>4
      <4> QED BY <4>2
    <3>2. Covers(o[1], p) /\ p[2] = p[1] + m
      BY <1>4, <2>4, <3>1
    <3>3. p[1] \in Nat /\ p[2] \in Nat /\ o[1][1] \in Nat /\ o[1][2] = o[1][1] + m
      <4>1. p[1] \in 0..n /\ p[2] \in 0..n
        OBVIOUS
      <4> QED BY <4>1, <1>0, <1>2, <3>1
    <3>4. CASE o[1] = p
      BY <3>4, <2>4, <3>3
    <3>5. CASE o[1] # p
      BY <3>5, <3>2, <3>3, <2>4 DEF Covers
    <3> QED BY <3>4, <3>5
  <2> HIDE DEF found, exact
  <2> QED BY <2>1, <2>2, <2>3, <2>4, <1>3 DEF n, found, exact
<1>6. CASE o = <<>>
  <2>1. exact = {}
    BY <1>4, <1>6
  <2>2. search # <<>>
    <3> SUFFICES ASSUME search = <<>> PROVE FALSE
      OBVIOUS
    <3>1. Between(view, <<0, 0>>) = SubSeq(view, 0 + 1, 0)
      BY DEF Between
    <3>2. SubSeq(view, 0 + 1, 0) = <<>>
      BY DEF Texts
    <3>3. <<0, 0>> \in (0..n) \X (0..n)
      BY <1>0
    <3> QED BY <2>1, <3>1, <3>2, <3>3
  <2> DEFINE t == Occurrences(PlainText(view), PlainText(search))
             b == LineOccurrences(view, search)
  <2>3. found = IF t # <<>> THEN t ELSE b
    BY <1>6 DEF Found, Else, o
  <2>4. /\ PlacesIn(view, t)
        /\ \A j \in DOMAIN t : Alike(Between(view, t[j]), search)
    <3>1. /\ PlainText(view) \in Texts /\ PlainText(search) \in Texts
          /\ Len(PlainText(view)) = n /\ Len(PlainText(search)) = m
      BY PlainTyped DEF n, m
    <3>2. OccurrencesOf(PlainText(view), PlainText(search), t)
      BY <3>1, OccurrencesAre
    <3> HIDE DEF t
    <3>3. \A x \in Spots : \E i, l \in Nat : x = <<i, l>>
      BY DEF Spots
    <3>4. ASSUME NEW j \in DOMAIN t
          PROVE  /\ t[j][1] <= t[j][2] /\ t[j][2] <= n
                 /\ Alike(Between(view, t[j]), search)
      <4>1. PICK i \in Nat, l \in Nat : t[j] = <<i, l>>
        <5>1. t[j] \in Spots
          BY <3>2 DEF OccurrencesOf
        <5> QED BY <3>3, <5>1
      <4>2. t[j][1] = i /\ t[j][2] = l /\ l = i + m /\ l <= n /\ i <= l
            /\ Between(PlainText(view), <<i, l>>) = PlainText(search)
        <5>1. t[j][1] = i /\ t[j][2] = l
          BY <4>1
        <5>2. t[j][2] = t[j][1] + m /\ t[j][2] <= n /\ Between(PlainText(view), t[j]) = PlainText(search)
          BY <3>1, <3>2 DEF OccurrencesOf
        <5> QED BY <5>1, <5>2, <4>1, <1>0
      <4>3. PICK u : u = Between(view, <<i, l>>)
        OBVIOUS
      <4>4. u \in Texts /\ Len(u) = l - i /\ \A h \in 1..(l - i) : u[h] = view[i + h]
        BY <4>2, <4>3, BetweenIs DEF n
      <4>5. PICK v : v = Between(PlainText(view), <<i, l>>)
        OBVIOUS
      <4>6. v \in Texts /\ Len(v) = l - i /\ \A h \in 1..(l - i) : v[h] = PlainText(view)[i + h]
        BY <3>1, <4>2, <4>5, BetweenIs
      <4>7. PlainText(u) \in Texts /\ Len(PlainText(u)) = l - i
            /\ \A h \in 1..(l - i) : PlainText(u)[h] = Plain(u[h])
        <5>1. DOMAIN u = 1..(l - i)
          BY <4>4 DEF Texts
        <5> QED BY <5>1, <4>4, PlainTyped
      <4>8. ASSUME NEW h \in 1..(l - i) PROVE PlainText(u)[h] = v[h]
        <5>1. i + h \in DOMAIN view
          <6>1. i + h \in 1..n
            BY <4>2, <1>0
          <6> QED BY <6>1 DEF n, Texts
        <5>2. PlainText(view)[i + h] = Plain(view[i + h])
          BY <5>1, PlainTyped
        <5> QED BY <5>2, <4>4, <4>6, <4>7
      <4>9. PlainText(u) = v
        BY <4>6, <4>7, <4>8, TextsEqual
      <4>10. Alike(u, search)
        BY <4>2, <4>4, <4>5, <4>9, PlainAlike
      <4> QED BY <4>1, <4>2, <4>3, <4>10
    <3> QED BY <3>2, <3>4 DEF PlacesIn, OccurrencesOf, n
  <2>5. /\ PlacesIn(view, b)
        /\ \A j \in DOMAIN b : Alike(Between(view, b[j]), search)
    <3> DEFINE places == [k \in DOMAIN Rows(view) |-> BlockAt(view, search, k)]
    <3>1. \A k \in DOMAIN Rows(view) : BlockAt(view, search, k) # Nowhere =>
            \E i, l \in 0..n : /\ i <= l /\ BlockAt(view, search, k) = <<i, l>>
                               /\ Alike(Between(view, <<i, l>>), search)
      BY <2>2, BlockAlike DEF n
    <3>2. \A i, l \in 0..n : <<i, l>> \in Spots
      BY <1>0 DEF Spots
    <3>3. \E h \in Nat : DOMAIN Rows(view) = 1..h
      <4>1. Rows(view) \in Seq((0..n) \X (0..n))
        BY RowsAre DEF RowsOf, n
      <4> QED BY <4>1
    <3>4. /\ places \in Seq(Spots \cup {Nowhere})
          /\ DOMAIN places = DOMAIN Rows(view)
          /\ \A k \in DOMAIN places : places[k] = BlockAt(view, search, k)
      <4>1. \A k \in DOMAIN Rows(view) : BlockAt(view, search, k) \in Spots \cup {Nowhere}
        BY <3>1, <3>2
      <4>2. places \in [DOMAIN Rows(view) -> Spots \cup {Nowhere}]
        BY <4>1
      <4> QED BY <3>3, <4>2
    <3>5. b = Spaced(places)
      BY DEF LineOccurrences
    <3> HIDE DEF places, b
    <3>6. b \in Seq(Spots) /\ Disjoint(b) /\ \A j \in DOMAIN b : \E k \in DOMAIN places : b[j] = places[k]
      BY <3>4, <3>5, SpacedSound
    <3>7. ASSUME NEW j \in DOMAIN b
          PROVE  b[j][1] <= b[j][2] /\ b[j][2] <= n /\ Alike(Between(view, b[j]), search)
      <4>1. PICK k \in DOMAIN Rows(view) : b[j] = BlockAt(view, search, k)
        BY <3>4, <3>6
      <4>2. b[j] # Nowhere
        <5>1. b[j] \in Spots
          BY <3>6
        <5>2. Nowhere \notin Spots
          BY DEF Nowhere, Spots
        <5> QED BY <5>1, <5>2
      <4>3. PICK i \in 0..n, l \in 0..n : /\ i <= l /\ b[j] = <<i, l>>
                                          /\ Alike(Between(view, <<i, l>>), search)
        BY <3>1, <4>1, <4>2
      <4>4. b[j][1] = i /\ b[j][2] = l /\ l <= n
        BY <4>3, <1>0
      <4> QED BY <4>3, <4>4
    <3> QED BY <3>6, <3>7 DEF PlacesIn, n
  <2> HIDE DEF t, b, found, exact
  <2>6. PlacesIn(view, found) /\ \A j \in DOMAIN found : Alike(Between(view, found[j]), search)
    BY <2>3, <2>4, <2>5
  <2> QED BY <2>1, <2>6 DEF found, exact, n
<1> QED BY <1>5, <1>6

Replaces(g, text, places, new) ==
  g = [k \in 0..Len(places) |->
         IF k = 0 THEN text ELSE Filled(g[k - 1], places[Len(places) + 1 - k], new)]

\* A text joined to a text is one.
LEMMA Joins ==
  ASSUME NEW u \in Texts, NEW v \in Texts
  PROVE  u \o v \in Texts /\ Len(u \o v) = Len(u) + Len(v)
BY DEF Texts

\* A text with one place filled is a text.
LEMMA FilledTyped ==
  ASSUME NEW text \in Texts, NEW new \in Texts, NEW i \in Nat, NEW l \in Nat,
         i <= Len(text), l <= Len(text)
  PROVE  Filled(text, <<i, l>>, new) \in Texts /\ Len(Filled(text, <<i, l>>, new)) >= i
<1>0. Len(text) \in Nat /\ Len(new) \in Nat /\ Len(text) - l \in Nat
  BY DEF Texts
<1>1. PICK n \in Nat : n = Len(text)
  BY <1>0
<1>2. PICK u : u = Between(text, <<0, i>>)
  OBVIOUS
<1>3. u \in Texts /\ Len(u) = i
  <2>1. 0 \in Nat /\ 0 <= i /\ i - 0 = i
    OBVIOUS
  <2>2. Between(text, <<0, i>>) \in Texts /\ Len(Between(text, <<0, i>>)) = i - 0
    BY <2>1, BetweenIs
  <2> QED BY <2>1, <2>2, <1>2
<1>4. PICK v : v = Between(text, <<l, n>>)
  OBVIOUS
<1>5. v \in Texts /\ Len(v) \in Nat
  <2>1. l <= n /\ n <= Len(text)
    BY <1>1
  <2>2. v \in Texts
    BY <2>1, <1>4, BetweenIs
  <2> QED BY <2>2 DEF Texts
<1>6. Filled(text, <<i, l>>, new) = u \o new \o v
  BY <1>1, <1>2, <1>4 DEF Filled
<1>7. PICK w : w = u \o new
  OBVIOUS
<1>8. w \in Texts /\ Len(w) = i + Len(new)
  BY <1>3, <1>7, Joins
<1>9. w \o v \in Texts /\ Len(w \o v) = Len(w) + Len(v)
  BY <1>5, <1>8, Joins
<1>10. Len(w \o v) >= i
  BY <1>0, <1>5, <1>8, <1>9
<1> QED BY <1>6, <1>7, <1>9, <1>10

\* With new in some places, the last one first, a text is a text.
LEMMA ReplacedTyped ==
  ASSUME NEW text \in Texts, NEW places, PlacesIn(text, places), NEW new \in Texts
  PROVE  /\ Replaced(text, places, new) \in Texts
         /\ Len(places) = 1 => Replaced(text, places, new) = Filled(text, places[1], new)
<1> DEFINE n == Len(places)
           step == [x \in (1..n) \X Texts |->
                      IF Filled(x[2], places[n + 1 - x[1]], new) \in Texts
                      THEN Filled(x[2], places[n + 1 - x[1]], new) ELSE text]
\* The text still holds the places that are left.
           Holds(k, t) == t \in Texts /\ (k < n => places[n - k][2] <= Len(t))
<1>0. n \in Nat /\ places \in Seq(Spots) /\ DOMAIN places = 1..n
  BY DEF PlacesIn
<1>1. \A j \in 1..n : /\ places[j] = <<places[j][1], places[j][2]>> /\ places[j][1] \in Nat
                      /\ places[j][2] \in Nat /\ places[j][1] <= places[j][2]
                      /\ places[j][2] <= Len(text)
  <2>1. \A x \in Spots : x = <<x[1], x[2]>> /\ x[1] \in Nat /\ x[2] \in Nat
    BY DEF Spots
  <2>2. \A j \in 1..n : places[j] \in Spots
    BY <1>0
  <2> QED BY <1>0, <2>1, <2>2 DEF PlacesIn
<1>2. step \in [(1..n) \X Texts -> Texts]
  OBVIOUS
<1>3. PICK h : Recurs(h, n, text, step)
  BY <1>0, RecursExists
<1>4. \A k \in 0..n : h[k] \in Texts
  BY <1>0, <1>2, <1>3, RecursTyped
<1>5. h = [k \in 0..n |-> IF k = 0 THEN text ELSE step[<<k, h[k - 1]>>]]
  BY <1>3 DEF Recurs
<1>6. \A k \in 1..n, t \in Texts : Filled(t, places[n + 1 - k], new) \in Texts =>
        step[<<k, t>>] = Filled(t, places[n + 1 - k], new)
  OBVIOUS
<1> HIDE DEF step, n
<1>7. ASSUME NEW k \in 1..n, NEW t, Holds(k - 1, t)
      PROVE  Holds(k, Filled(t, places[n + 1 - k], new))
  <2>1. PICK j \in 1..n : j = n + 1 - k
    BY <1>0
  <2>2. n - (k - 1) = j /\ k - 1 < n
    BY <1>0, <2>1
  <2>3. t \in Texts /\ places[j][2] <= Len(t) /\ Len(t) \in Nat
    BY <1>7, <2>2 DEF Texts
  <2>4. PICK i \in Nat, l \in Nat : places[j] = <<i, l>>
    BY <1>1
  <2>5. places[j][1] = i /\ places[j][2] = l /\ i <= l
    BY <2>4, <1>1
  <2>6. Filled(t, <<i, l>>, new) \in Texts /\ Len(Filled(t, <<i, l>>, new)) >= i
    BY <2>3, <2>5, FilledTyped
  <2>7. ASSUME k < n PROVE places[n - k][2] <= Len(Filled(t, <<i, l>>, new))
    <3>1. n - k \in 1..(n - 1) /\ n - k + 1 = j /\ n - k \in 1..n
      BY <1>0, <2>1, <2>7
    <3>2. places[n - k][2] <= places[n - k + 1][1]
      BY <3>1 DEF PlacesIn, Disjoint, n
    <3>3. PICK y \in Nat : y = places[n - k][2]
      BY <3>1, <1>1
    <3>4. Len(Filled(t, <<i, l>>, new)) \in Nat
      BY <2>6 DEF Texts
    <3> QED BY <2>5, <2>6, <3>1, <3>2, <3>3, <3>4
  <2> QED BY <2>1, <2>4, <2>6, <2>7
<1>8. Holds(0, text)
  <2>1. 0 < n => n - 0 \in 1..n
    BY <1>0
  <2> QED BY <2>1, <1>1
<1> DEFINE P == {k \in 0..n : Holds(k, h[k]) /\ (k # 0 => h[k] = Filled(h[k - 1], places[n + 1 - k], new))}
<1>9. \A k \in 0..n : k \in P
  <2>1. 0 \in P
    BY <1>0, <1>5, <1>8
  <2>2. ASSUME NEW k \in 1..n, k - 1 \in P PROVE k \in P
    <3>1. k \in 0..n /\ k # 0
      BY <1>0
    <3>2. Holds(k - 1, h[k - 1])
      BY <2>2
    <3>3. Holds(k, Filled(h[k - 1], places[n + 1 - k], new))
      BY <3>2, <1>7
    <3>4. h[k] = Filled(h[k - 1], places[n + 1 - k], new)
      BY <3>1, <3>2, <3>3, <1>5, <1>6
    <3> QED BY <3>1, <3>3, <3>4
  <2> HIDE DEF P
  <2> QED BY <1>0, <2>1, <2>2, UpTo
<1>10. Replaces(h, text, places, new)
  <2>1. \A k \in 0..n : h[k] = IF k = 0 THEN text ELSE Filled(h[k - 1], places[n + 1 - k], new)
    BY <1>5, <1>9
  <2>2. h = [k \in 0..n |-> h[k]]
    BY <1>5
  <2>3. [k \in 0..n |-> h[k]] =
          [k \in 0..n |-> IF k = 0 THEN text ELSE Filled(h[k - 1], places[n + 1 - k], new)]
    BY <2>1
  <2> QED BY <2>2, <2>3 DEF Replaces, n
<1> DEFINE f == CHOOSE f : Replaces(f, text, places, new)
<1>11. Replaces(f, text, places, new)
  BY <1>10
<1>12. Replaced(text, places, new) = f[n]
  BY DEF Replaced, Replaces, n
<1> HIDE DEF f, P, Holds
<1>13. f = [k \in 0..n |-> IF k = 0 THEN text ELSE Filled(f[k - 1], places[n + 1 - k], new)]
  BY <1>11 DEF Replaces, n
<1> DEFINE O == {k \in 0..n : Holds(k, f[k])}
<1>14. \A k \in 0..n : k \in O
  <2>1. 0 \in O
    BY <1>0, <1>8, <1>13
  <2>2. ASSUME NEW k \in 1..n, k - 1 \in O PROVE k \in O
    <3>1. k \in 0..n /\ k # 0
      BY <1>0
    <3>2. Holds(k, Filled(f[k - 1], places[n + 1 - k], new))
      BY <2>2, <1>7
    <3> QED BY <3>1, <3>2, <1>13
  <2> HIDE DEF O
  <2> QED BY <1>0, <2>1, <2>2, UpTo
<1>15. f[n] \in Texts
  BY <1>0, <1>14 DEF Holds
<1>16. ASSUME n = 1 PROVE f[n] = Filled(text, places[1], new)
  <2>1. 0 \in 0..n /\ 1 \in 0..n /\ n + 1 - 1 = 1
    BY <1>16
  <2>2. f[0] = text /\ f[1] = Filled(f[1 - 1], places[n + 1 - 1], new)
    BY <1>13, <2>1
  <2> QED BY <1>16, <2>1, <2>2
<1> QED BY <1>12, <1>15, <1>16 DEF n

\* Lines are numbered from 1.
LEMMA LineOfPositive ==
  ASSUME NEW text, NEW offset \in Nat PROVE LineOf(text, offset) \in Nat \ {0}
<1>1. IsFiniteSet({i \in 1..offset : text[i] = "n"})
  <2>1. IsFiniteSet(1..offset)
    BY FS_Interval
  <2> QED BY <2>1, FS_Subset
<1> QED BY <1>1, FS_CardinalityType DEF LineOf

\* Of the places found one is picked, the only one unless a line was given.
LEMMA PickedIs ==
  ASSUME NEW view \in Texts, NEW found, PlacesIn(view, found), NEW all \in BOOLEAN, NEW line \in Nat
  PROVE  LET places == Picked(view, found, all, line)
         IN  /\ PlacesIn(view, places)
             /\ ~all /\ places # <<>> =>
                  /\ Len(places) = 1 /\ \E j \in DOMAIN found : places[1] = found[j]
                  /\ line = 0 => Len(found) = 1 /\ places = found
<1> DEFINE places == Picked(view, found, all, line)
           there == {j \in DOMAIN found : LineOf(view, found[j][1]) = line}
           first == CHOOSE j \in there : \A k \in there : j <= k
<1>0. found \in Seq(Spots) /\ Len(found) \in Nat /\ DOMAIN found = 1..Len(found)
  BY DEF PlacesIn
<1>1. places = CASE all \/ Len(found) <= 1 -> found
                 [] ~all /\ Len(found) > 1 /\ there = {} -> <<>>
                 [] OTHER -> <<found[first]>>
  BY DEF Picked
<1>2. CASE all \/ Len(found) <= 1
  <2>1. places = found
    BY <1>1, <1>2
  <2>2. ~all /\ found # <<>> => Len(found) = 1 /\ 1 \in DOMAIN found
    BY <1>0, <1>2
  <2> HIDE DEF places
  <2> QED BY <2>1, <2>2 DEF places
<1>3. CASE ~(all \/ Len(found) <= 1) /\ there = {}
  <2>1. places = <<>>
    <3>1. ~all /\ Len(found) > 1
      BY <1>0, <1>3
    <3> QED BY <1>1, <1>3, <3>1
  <2>2. PlacesIn(view, <<>>)
    <3> DEFINE none == <<>>
    <3>1. none \in Seq(Spots) /\ DOMAIN none = {} /\ Len(none) = 0
      OBVIOUS
    <3>2. 1..(Len(none) - 1) = {}
      BY <3>1
    <3> HIDE DEF none
    <3>3. PlacesIn(view, none)
      BY <3>1, <3>2 DEF PlacesIn, Disjoint
    <3> QED BY <3>3 DEF none
  <2> HIDE DEF places
  <2> QED BY <2>1, <2>2 DEF places
<1>4. CASE ~(all \/ Len(found) <= 1) /\ there # {}
  <2>1. places = <<found[first]>>
    BY <1>1, <1>4
  <2>2. first \in there
    <3>1. there \in SUBSET Nat
      BY <1>0
    <3> HIDE DEF there
    <3>2. \E j \in there : \A k \in there : j <= k
      BY <3>1, <1>4, FirstNumber
    <3> QED BY <3>2
  <2> HIDE DEF first
  <2>3. PICK p : p = found[first]
    OBVIOUS
  <2>4. first \in DOMAIN found /\ p \in Spots /\ LineOf(view, p[1]) = line
        /\ p[1] <= p[2] /\ p[2] <= Len(view)
    BY <1>0, <2>2, <2>3 DEF PlacesIn
  <2>5. line # 0
    <3>1. p[1] \in Nat
      BY <2>4 DEF Spots
    <3> QED BY <3>1, <2>4, LineOfPositive
  <2>6. PlacesIn(view, <<p>>)
    <3> DEFINE one == <<p>>
    <3>1. one \in Seq(Spots) /\ Len(one) = 1 /\ DOMAIN one = {1} /\ one[1] = p
      BY <2>4
    <3>2. 1..(Len(one) - 1) = {}
      BY <3>1
    <3> HIDE DEF one
    <3>3. PlacesIn(view, one)
      BY <2>4, <3>1, <3>2 DEF PlacesIn, Disjoint
    <3> QED BY <3>3 DEF one
  <2>7. places = <<p>> /\ Len(<<p>>) = 1 /\ <<p>>[1] = p
    BY <2>1, <2>3
  <2> HIDE DEF places
  <2> QED BY <2>3, <2>4, <2>5, <2>6, <2>7 DEF places
<1> QED BY <1>2, <1>3, <1>4

\* What is typed of an edit.
LEMMA ReplaceTyped ==
  ASSUME NEW source \in Texts, NEW old \in Texts, NEW new \in Texts, NEW all \in BOOLEAN, NEW line \in Nat,
         ReplaceText(source, old, new, all, line) # Refused
  PROVE  ReplaceText(source, old, new, all, line)[1] \in Texts
<1> DEFINE view == View(source)
           search == UnixEndings(old)
           places == Picked(view, Found(view, search), all, line)
           text == Written(source, Replaced(view, places, UnixEndings(new)))
<1>1. view \in Texts /\ search \in Texts /\ UnixEndings(new) \in Texts
  BY ViewTyped, UnixTyped
<1>2. PlacesIn(view, Found(view, search))
  BY <1>1, FoundIs
<1>3. PlacesIn(view, places)
  BY <1>1, <1>2, PickedIs
<1>4. Replaced(view, places, UnixEndings(new)) \in Texts
  BY <1>1, <1>3, ReplacedTyped
<1>5. text \in Texts
  BY <1>4, ViewTyped
<1>6. ReplaceText(source, old, new, all, line) =
        IF old = <<>> \/ old = new \/ places = <<>> \/ text = source THEN Refused ELSE <<text>>
  BY DEF ReplaceText
<1> HIDE DEF text, places
<1>7. ReplaceText(source, old, new, all, line) = <<text>>
  BY <1>6
<1> QED BY <1>5, <1>7

\* replace_text, of any text, changes only the place that was meant.
THEOREM EditIsSound ==
  ASSUME NEW source \in Texts, NEW old \in Texts, NEW new \in Texts, NEW line \in Nat
  PROVE  EditsOnePlace(source, old, new, line)
<1> DEFINE view == View(source)
           search == UnixEndings(old)
           fresh == UnixEndings(new)
           found == Found(view, search)
           places == Picked(view, found, FALSE, line)
           text == Written(source, Replaced(view, places, fresh))
           exact == {p \in (0..Len(view)) \X (0..Len(view)) : Between(view, p) = search}
           result == ReplaceText(source, old, new, FALSE, line)
<1>1. view \in Texts /\ search \in Texts /\ fresh \in Texts
  BY ViewTyped, UnixTyped
<1>2. result = IF old = <<>> \/ old = new \/ places = <<>> \/ text = source THEN Refused ELSE <<text>>
  BY DEF ReplaceText
<1>3. /\ PlacesIn(view, found)
      /\ exact # {} => \A j \in DOMAIN found : found[j] \in exact
      /\ exact = {} => \A j \in DOMAIN found : Alike(Between(view, found[j]), search)
      /\ Len(found) = 1 => \A p \in exact : p[1] < p[2] => p[1] < found[1][2] /\ found[1][1] < p[2]
  <2> HIDE DEF view, search
  <2> QED BY <1>1, FoundIs
<1> HIDE DEF found
<1>4. /\ PlacesIn(view, places)
      /\ places # <<>> =>
           /\ Len(places) = 1 /\ \E j \in DOMAIN found : places[1] = found[j]
           /\ line = 0 => Len(found) = 1 /\ places = found
  <2> HIDE DEF view
  <2> QED BY <1>1, <1>3, PickedIs
<1> HIDE DEF view, search, fresh, places
<1>5. ASSUME result # Refused
      PROVE  /\ \E i, k \in 0..Len(view) : i <= k /\ CutsOut(source, result[1], view, search, fresh, line, i, k)
             /\ Windows(source) => AfterReturns(result[1])
  <2>1. result = <<text>> /\ places # <<>>
    BY <1>2, <1>5
  <2>2. result[1] = text
    <3> HIDE DEF text, result
    <3> QED BY <2>1
  <2>3. Len(places) = 1 /\ 1 \in DOMAIN places
    <3>1. places \in Seq(Spots)
      BY <1>4 DEF PlacesIn
    <3> QED BY <3>1, <1>4, <2>1
  <2>4. PICK i \in Nat, k \in Nat : places[1] = <<i, k>>
    <3>1. places[1] \in Nat \X Nat
      <4>1. places \in Seq(Spots)
        BY <1>4 DEF PlacesIn
      <4>2. places[1] \in Spots
        BY <4>1, <2>3
      <4> QED BY <4>2 DEF Spots
    <3> QED BY <3>1
  <2>5. i <= k /\ k <= Len(view)
    <3>1. places[1][1] <= places[1][2] /\ places[1][2] <= Len(view)
      BY <1>4, <2>3 DEF PlacesIn
    <3> QED BY <2>4, <3>1
  <2>6. i \in 0..Len(view) /\ k \in 0..Len(view)
    <3>1. Len(view) \in Nat
      BY <1>1 DEF Texts
    <3> QED BY <3>1, <2>5
  <2>7. Replaced(view, places, fresh) \in Texts
        /\ Replaced(view, places, fresh) = Filled(view, <<i, k>>, fresh)
    BY <1>1, <1>4, <2>3, <2>4, ReplacedTyped
  <2>8. text = Written(source, Filled(view, <<i, k>>, fresh))
    BY <2>7
  <2>9. PICK j \in DOMAIN found : <<i, k>> = found[j]
    BY <1>4, <2>1, <2>4
  <2>10. IF exact # {} THEN <<i, k>> \in exact ELSE Alike(Between(view, <<i, k>>), search)
    <3> HIDE DEF exact
    <3> QED BY <1>3, <2>9
  <2>11. ASSUME line = 0, NEW p \in exact, p[2] <= i \/ p[1] >= k, p[1] < p[2] PROVE FALSE
    <3>1. Len(found) = 1 /\ found[1] = <<i, k>>
      BY <1>4, <2>1, <2>4, <2>11
    <3>2. p[1] < found[1][2] /\ found[1][1] < p[2]
      BY <1>3, <2>11, <3>1
    <3>3. p[1] \in Nat /\ p[2] \in Nat
      OBVIOUS
    <3>4. p[1] < k /\ i < p[2]
      BY <3>1, <3>2
    <3> QED BY <2>11, <3>3, <3>4
  <2>12. CutsOut(source, text, view, search, fresh, line, i, k)
    BY <2>8, <2>10, <2>11 DEF CutsOut
  <2>13. Windows(source) => AfterReturns(text)
    <3>1. Windows(source) => text = WindowsEndings(Replaced(view, places, fresh))
      BY DEF Written
    <3>2. AfterReturns(WindowsEndings(Replaced(view, places, fresh)))
      BY <2>7, WindowsTyped
    <3> HIDE DEF text
    <3> QED BY <3>1, <3>2
  <2> HIDE DEF text, result
  <2> QED BY <2>2, <2>5, <2>6, <2>12, <2>13
<1> HIDE DEF result
<1>6. EditSound(source, result, view, search, fresh, line)
  BY <1>5 DEF EditSound
<1> QED BY <1>6 DEF EditsOnePlace, result, view, search, fresh

(***************************************************************************)
(* Workspace.  The fingerprint of the last bundle is of what the page was  *)
(* built from (Built), and what finish_job accepted still has it           *)
(* (Accepted). Of a template that was named by another spelling it says    *)
(* less.                                                                   *)
(***************************************************************************)

\* What the last bundle came from is what its fingerprint was taken of.
Built ==
  build # <<>> =>
    /\ made # <<>> /\ made[2] \in Texts
    /\ OUTPUT \in DOMAIN build[2] /\ build[2][OUTPUT] = made[2]
    /\ \A f \in DOMAIN made[1] \cap (TsFiles \cup {build[1]}) :
         f \in DOMAIN build[2] /\ build[2][f] = made[1][f] /\ made[1][f] \in Texts
\* Nothing the fingerprint covers has changed since a page was accepted.
Accepted ==
  finished /\ typescript => build # <<>> /\ Fingerprint(build[1], files) = build[2]
WorkspaceIInv ==
  WorkspaceTypeOK /\ IsFiniteSet(Entries) /\ LimitsKept /\ Built /\ Accepted

\* What the assumption says, in the terms of the proofs.
LEMMA Given ==
  /\ \A text \in Drafts \cup TriedTexts : text \in Texts
  /\ \A e \in Edits \cup TriedEdits : e.old \in Texts /\ e.new \in Texts /\ e.line \in Nat
  /\ \A e \in Edits : e.all \in BOOLEAN
  /\ MaxFileSize \in Nat /\ MaxFiles \in Nat /\ MaxTotal \in Nat /\ MaxTasks \in Nat /\ MaxCalls \in Nat
BY WorkspaceAssumption DEF Texts

\* No file can hold what stands for a missing one.
LEMMA NoText == Missing \notin Texts
<1> SUFFICES ASSUME Missing \in Texts PROVE FALSE
  OBVIOUS
<1>1. Missing[1] \in Chars
  BY DEF Missing, Texts
<1> QED BY <1>1 DEF Missing, Chars

\* A file that is written within the limits, and the bookkeeping of a call.
LEMMA Stores ==
  ASSUME WorkspaceIInv, NEW name \in {Resolves[p] : p \in Paths} \cup {OUTPUT}, NEW text \in Texts,
         Writable(name, text), files' = Stored(name, text)
  PROVE  /\ Entries' = Entries \cup {name} /\ IsFiniteSet(Entries')
         /\ Entries' \subseteq {Resolves[p] : p \in Paths} \cup {OUTPUT}
         /\ files'[name] = text /\ \A f \in Entries \ {name} : files'[f] = files[f]
         /\ \A f \in Entries' : files'[f] \in Seq(Chars)
         /\ LimitsKept'
<1>1. /\ Entries' = Entries \cup {name}
      /\ files'[name] = text /\ \A f \in Entries \ {name} : files'[f] = files[f]
  BY DEF Stored, Entries
<1>2. IsFiniteSet(Entries) /\ IsFiniteSet(Entries')
  BY <1>1, FS_AddElement DEF WorkspaceIInv
<1>3. \A f \in Entries : files[f] \in Seq(Chars) /\ Len(files[f]) <= MaxFileSize
  BY DEF WorkspaceIInv, WorkspaceTypeOK, LimitsKept
<1>4. \A f \in Entries' : files'[f] \in Seq(Chars) /\ Len(files'[f]) <= MaxFileSize
  <2> SUFFICES ASSUME NEW f \in Entries' PROVE files'[f] \in Seq(Chars) /\ Len(files'[f]) <= MaxFileSize
    OBVIOUS
  <2>1. CASE f = name
    BY <2>1, <1>1 DEF Texts, Writable
  <2>2. CASE f # name
    BY <2>2, <1>1, <1>3
  <2> QED BY <2>1, <2>2
<1>5. Cardinality(Entries') <= MaxFiles
  <2>1. Cardinality(Entries) \in Nat /\ Cardinality(Entries) <= MaxFiles
    BY <1>2, FS_CardinalityType DEF WorkspaceIInv, LimitsKept
  <2>2. CASE name \in Entries
    <3>1. Entries' = Entries
      BY <1>1, <2>2
    <3> QED BY <2>1, <3>1
  <2>3. CASE name \notin Entries
    <3>1. Cardinality(Entries') = Cardinality(Entries) + 1
      BY <1>1, <1>2, <2>3, FS_AddElement
    <3>2. Cardinality(Entries) < MaxFiles
      BY <2>3 DEF Writable
    <3> QED BY <3>1, <3>2, <2>1, Given
  <2> QED BY <2>2, <2>3
<1>6. Total(files') <= MaxTotal
  BY DEF Writable
<1>7. Entries' \subseteq {Resolves[p] : p \in Paths} \cup {OUTPUT}
  BY <1>1 DEF WorkspaceIInv, WorkspaceTypeOK
<1> QED BY <1>1, <1>2, <1>4, <1>5, <1>6, <1>7 DEF LimitsKept

\* A tool call is counted, and made only before the job is finished.
LEMMA CallsCount ==
  ASSUME WorkspaceIInv, Calls PROVE calls' \in 0..MaxCalls /\ finished = FALSE
BY Given DEF WorkspaceIInv, WorkspaceTypeOK, Calls

\* A file that is written leaves the last bundle what it was.
LEMMA StoresKeep ==
  ASSUME WorkspaceIInv, NEW name \in {Resolves[p] : p \in Paths} \cup {OUTPUT}, NEW text \in Texts,
         Writable(name, text), files' = Stored(name, text), Calls,
         UNCHANGED <<given, tasks, build, made, finished>>
  PROVE  WorkspaceIInv'
<1>1. calls' \in 0..MaxCalls /\ finished = FALSE
  BY CallsCount
<1>2. /\ IsFiniteSet(Entries') /\ LimitsKept'
      /\ Entries' \subseteq {Resolves[p] : p \in Paths} \cup {OUTPUT}
      /\ \A f \in Entries' : files'[f] \in Seq(Chars)
  BY Stores
<1>3. WorkspaceTypeOK'
  BY <1>1, <1>2 DEF WorkspaceIInv, WorkspaceTypeOK
<1>4. Built'
  BY DEF WorkspaceIInv, Built
<1>5. Accepted'
  BY <1>1 DEF Accepted
<1> QED BY <1>2, <1>3, <1>4, <1>5 DEF WorkspaceIInv

\* edit_file is a write of what replace_text returns.
LEMMA EditKeeps ==
  ASSUME WorkspaceIInv, NEW path \in Paths, NEW edit \in Edits, EditFile(path, edit)
  PROVE  WorkspaceIInv'
<1> DEFINE name == Resolves[path]
           after == ReplaceText(files[name], edit.old, edit.new, edit.all, edit.line)
<1>1. /\ Calls /\ name \in Entries /\ after # Refused /\ Writable(name, after[1])
      /\ files' = Stored(name, after[1]) /\ UNCHANGED <<given, tasks, build, made, finished>>
  BY DEF EditFile
<1>2. files[name] \in Texts
  BY <1>1 DEF WorkspaceIInv, WorkspaceTypeOK, Texts
<1>3. after[1] \in Texts
  BY <1>1, <1>2, Given, ReplaceTyped
<1> QED BY <1>1, <1>3, StoresKeep

\* Deleting a file keeps the limits, and what was built.
LEMMA DeleteFileKeeps ==
  ASSUME WorkspaceIInv, NEW path \in Paths, DeleteFile(path) PROVE WorkspaceIInv'
<1> DEFINE name == Resolves[path]
           f == [x \in Entries |-> Len(files[x])]
           g == [x \in Entries \ {name} |-> Len(files'[x])]
<1>1. /\ Calls /\ files' = [x \in Entries \ {name} |-> files[x]]
      /\ UNCHANGED <<given, tasks, build, made, finished>>
  BY DEF DeleteFile
<1>2. calls' \in 0..MaxCalls /\ finished = FALSE
  BY <1>1, CallsCount
<1>3. /\ IsFiniteSet(Entries) /\ Entries \subseteq {Resolves[p] : p \in Paths} \cup {OUTPUT}
      /\ \A x \in Entries : files[x] \in Seq(Chars) /\ Len(files[x]) <= MaxFileSize
      /\ Cardinality(Entries) <= MaxFiles /\ Total(files) <= MaxTotal
  BY DEF WorkspaceIInv, WorkspaceTypeOK, LimitsKept
<1>4. Entries' = Entries \ {name} /\ \A x \in Entries' : files'[x] = files[x] /\ x \in Entries
  BY <1>1 DEF Entries
<1>5. IsFiniteSet(Entries') /\ Cardinality(Entries') <= Cardinality(Entries)
      /\ Cardinality(Entries') \in Nat /\ Cardinality(Entries) \in Nat
  <2>1. Entries' \subseteq Entries
    BY <1>4
  <2> QED BY <2>1, <1>3, FS_Subset, FS_CardinalityType
<1>6. Total(files') <= Total(files) /\ Total(files) \in Nat /\ Total(files') \in Nat
  <2>1. Total(files) = SumFunctionOnSet(f, Entries)
    BY DEF Total, Entries
  <2>2. Total(files') = SumFunctionOnSet(g, Entries')
    <3>1. DOMAIN files' = Entries \ {name}
      BY <1>4 DEF Entries
    <3> QED BY <1>4, <3>1 DEF Total
  <2>3. \A x \in Entries' : g[x] = f[x]
    BY <1>4
  <2>4. \A x \in Entries : f[x] \in Nat
    BY <1>3
  <2> HIDE DEF f, g
  <2>5. SumFunctionOnSet(g, Entries') = SumFunctionOnSet(f, Entries')
    BY <1>5, <2>3, SumSame
  <2>6. Entries' \in SUBSET Entries
    BY <1>4
  <2>7. /\ SumFunctionOnSet(f, Entries') \in Nat /\ SumFunctionOnSet(f, Entries) \in Nat
        /\ SumFunctionOnSet(f, Entries') <= SumFunctionOnSet(f, Entries)
    BY <1>3, <2>4, <2>6, SumMonotone
  <2> QED BY <2>1, <2>2, <2>5, <2>7
<1>7. LimitsKept'
  <2>1. \A x \in Entries' : Len(files'[x]) <= MaxFileSize
    BY <1>3, <1>4
  <2>2. Cardinality(Entries') <= MaxFiles
    BY <1>3, <1>5, Given
  <2>3. Total(files') <= MaxTotal
    BY <1>3, <1>6, Given
  <2> QED BY <2>1, <2>2, <2>3 DEF LimitsKept
<1>8. WorkspaceTypeOK'
  BY <1>1, <1>2, <1>3, <1>4 DEF WorkspaceIInv, WorkspaceTypeOK
<1>9. Built' /\ Accepted'
  BY <1>1, <1>2 DEF WorkspaceIInv, Built, Accepted
<1> QED BY <1>5, <1>7, <1>8, <1>9 DEF WorkspaceIInv

\* A bundle records what it was built from: the fingerprint is taken after the
\* page is written, of files that the build did not change otherwise.
LEMMA BundleKeeps ==
  ASSUME WorkspaceIInv, NEW entry \in Paths, NEW template \in Paths, Bundle(entry, template)
  PROVE  WorkspaceIInv'
<1> DEFINE e == Resolves[entry]
           t == Resolves[template]
           places == Occurrences(files[t], <<Marker>>)
           page == Replaced(files[t], places, Script(e))
           from == ({e, t} \cup Imports(e)) \ {OUTPUT}
<1>1. /\ Calls /\ e \in TsFiles \cap Entries /\ t \in Entries
      /\ Imports(e) \subseteq Entries /\ Writable(OUTPUT, page) /\ files' = Stored(OUTPUT, page)
      /\ build' = <<template, Fingerprint(template, files')>>
      /\ made' = <<[f \in from |-> files[f]], page>>
      /\ UNCHANGED <<given, tasks, finished>>
  BY DEF Bundle
<1>2. \A f \in Entries : files[f] \in Texts
  BY DEF WorkspaceIInv, WorkspaceTypeOK, Texts
<1>3. Script(e) \in Texts
  <2>1. <<>> \in Texts
    BY DEF Texts
  <2>2. \A f \in {"lib.ts", "lib.js"} : Imported(e, f) \in Texts
    BY <1>1, <1>2, <2>1 DEF Imported
  <2>3. PICK u : u = Imported(e, "lib.ts")
    OBVIOUS
  <2>4. PICK v : v = Imported(e, "lib.js")
    OBVIOUS
  <2>5. u \in Texts /\ v \in Texts /\ files[e] \in Texts
    BY <1>1, <1>2, <2>2, <2>3, <2>4
  <2>6. files[e] \o u \in Texts
    BY <2>5, Joins
  <2>7. (files[e] \o u) \o v \in Texts
    BY <2>5, <2>6, Joins
  <2> QED BY <2>3, <2>4, <2>7 DEF Script
<1>4. page \in Texts
  <2>1. files[t] \in Texts /\ <<Marker>> \in Texts
    <3>1. "x" \in Chars
      BY DEF Chars
    <3>2. <<"x">> \in Seq(Chars)
      BY <3>1
    <3> QED BY <1>1, <1>2, <3>2 DEF Marker, Texts
  <2>2. OccurrencesOf(files[t], <<Marker>>, places)
    BY <2>1, OccurrencesAre
  <2> HIDE DEF places
  <2>3. PlacesIn(files[t], places)
    <3>1. \A j \in DOMAIN places : places[j][1] <= places[j][2] /\ places[j][2] <= Len(files[t])
      <4> SUFFICES ASSUME NEW j \in DOMAIN places
                   PROVE  places[j][1] <= places[j][2] /\ places[j][2] <= Len(files[t])
        OBVIOUS
      <4>1. places[j][2] = places[j][1] + Len(<<Marker>>) /\ places[j][2] <= Len(files[t])
            /\ places[j] \in Spots
        BY <2>2 DEF OccurrencesOf
      <4>2. places[j][1] \in Nat /\ Len(<<Marker>>) = 1
        BY <4>1 DEF Spots
      <4> QED BY <4>1, <4>2
    <3> QED BY <2>2, <3>1 DEF OccurrencesOf, PlacesIn
  <2> QED BY <1>3, <2>1, <2>3, ReplacedTyped
<1> HIDE DEF page, from
<1>5. /\ Entries' = Entries \cup {OUTPUT} /\ IsFiniteSet(Entries') /\ LimitsKept'
      /\ Entries' \subseteq {Resolves[p] : p \in Paths} \cup {OUTPUT}
      /\ files'[OUTPUT] = page /\ \A f \in Entries \ {OUTPUT} : files'[f] = files[f]
      /\ \A f \in Entries' : files'[f] \in Seq(Chars)
  BY <1>1, <1>4, Stores
<1>6. calls' \in 0..MaxCalls /\ finished = FALSE
  BY <1>1, CallsCount
<1>7. WorkspaceTypeOK'
  BY <1>1, <1>5, <1>6 DEF WorkspaceIInv, WorkspaceTypeOK
<1>8. Accepted'
  BY <1>1, <1>6 DEF Accepted
<1>9. Built'
  <2> DEFINE print == Fingerprint(template, files')
             source == [f \in from |-> files[f]]
  <2>1. /\ DOMAIN print = (TsFiles \cap Entries') \cup {template, OUTPUT}
        /\ \A f \in DOMAIN print : print[f] = IF f \in Entries' THEN files'[f] ELSE Missing
    BY DEF Fingerprint, Entries
  <2>2. DOMAIN source = from /\ \A f \in from : source[f] = files[f]
    OBVIOUS
  <2> HIDE DEF print, source
  <2>3. build' = <<template, print>> /\ made' = <<source, page>>
    BY <1>1 DEF print, source
  <2>4. build'[1] = template /\ build'[2] = print /\ made'[1] = source /\ made'[2] = page /\ made' # <<>>
    BY <2>3
  <2>5. OUTPUT \in DOMAIN print /\ print[OUTPUT] = page
    BY <1>5, <2>1
  <2>6. ASSUME NEW f \in from, f \in TsFiles \cup {template}
        PROVE  f \in DOMAIN print /\ print[f] = source[f] /\ source[f] \in Texts
    <3>1. f \in Entries \ {OUTPUT}
      BY <1>1 DEF from
    <3>2. f \in Entries' /\ files'[f] = files[f]
      BY <1>5, <3>1
    <3>3. f \in DOMAIN print
      BY <2>1, <2>6, <3>2
    <3> QED BY <1>2, <2>1, <2>2, <3>1, <3>2, <3>3
  <2> QED BY <1>4, <2>2, <2>4, <2>5, <2>6 DEF Built
<1> QED BY <1>5, <1>7, <1>8, <1>9 DEF WorkspaceIInv

\* The task list is nothing the rest depends on.
LEMMA TaskKeeps ==
  ASSUME WorkspaceIInv, NEW list \in Seq({"open", "done", "deleted"}), Calls, Tasked(list)
  PROVE  WorkspaceIInv'
<1>1. calls' \in 0..MaxCalls /\ finished = FALSE
  BY CallsCount
<1>2. tasks' = list /\ UNCHANGED <<given, files, build, made, finished>>
  BY DEF Tasked
<1>3. Entries' = Entries /\ IsFiniteSet(Entries')
  BY <1>2 DEF Entries, WorkspaceIInv
<1>4. WorkspaceTypeOK'
  BY <1>1, <1>2, <1>3 DEF WorkspaceIInv, WorkspaceTypeOK
<1>5. LimitsKept' /\ Built' /\ Accepted'
  BY <1>1, <1>2, <1>3 DEF WorkspaceIInv, LimitsKept, Built, Accepted
<1> QED BY <1>3, <1>4, <1>5 DEF WorkspaceIInv

\* A page is accepted only while its fingerprint is the one that was taken.
LEMMA FinishKeeps == ASSUME WorkspaceIInv, FinishJob PROVE WorkspaceIInv'
<1>1. calls' \in 0..MaxCalls
  BY CallsCount DEF FinishJob
<1>2. finished' = TRUE /\ UNCHANGED <<given, tasks, files, build, made>>
  BY DEF FinishJob
<1>3. Entries' = Entries /\ IsFiniteSet(Entries') /\ typescript' = typescript
  BY <1>2 DEF Entries, WorkspaceIInv, given
<1>4. WorkspaceTypeOK'
  BY <1>1, <1>2, <1>3 DEF WorkspaceIInv, WorkspaceTypeOK
<1>5. LimitsKept' /\ Built'
  BY <1>2, <1>3 DEF WorkspaceIInv, LimitsKept, Built
<1>6. Accepted'
  <2>1. typescript => build # <<>> /\ Fingerprint(build[1], files) = build[2]
    BY DEF FinishJob, Unbuilt
  <2> QED BY <1>2, <1>3, <2>1 DEF Accepted
<1> QED BY <1>3, <1>4, <1>5, <1>6 DEF WorkspaceIInv

\* A new workspace is empty.
LEMMA WorkspaceStart == WorkspaceInit => WorkspaceIInv
<1> SUFFICES ASSUME WorkspaceInit PROVE WorkspaceIInv
  OBVIOUS
<1>1. files = <<>> /\ build = <<>> /\ finished = FALSE /\ calls = 0
  BY DEF WorkspaceInit
<1>2. Entries = {} /\ IsFiniteSet(Entries) /\ Cardinality(Entries) = 0
  <2>1. Entries = {}
    BY <1>1 DEF Entries
  <2> QED BY <2>1, FS_EmptySet
<1>3. tasks \in Seq({"open", "done", "deleted"})
  <2>1. PICK n \in 0..1 : tasks = [i \in 1..n |-> "open"]
    BY DEF WorkspaceInit
  <2>2. tasks \in [1..n -> {"open", "done", "deleted"}] /\ n \in Nat
    BY <2>1
  <2> QED BY <2>2
<1>4. Total(files) = 0
  <2>1. DOMAIN files = {}
    BY <1>2 DEF Entries
  <2> QED BY <2>1, FS_EmptySet, SumNext DEF Total
<1>5. WorkspaceTypeOK
  <2>1. MaxCalls \in Nat
    BY WorkspaceAssumption DEF WorkspaceAssumption
  <2>2. calls \in 0..MaxCalls
    BY <1>1, <2>1
  <2>5. finished \in BOOLEAN
    BY ONLY <1>1
  <2>3. Entries \subseteq {Resolves[p] : p \in Paths} \cup {OUTPUT}
    BY <1>2
  <2>4. \A f \in Entries : files[f] \in Seq(Chars)
    BY <1>2
  <2> QED BY <1>3, <2>2, <2>3, <2>4, <2>5 DEF WorkspaceTypeOK
<1>6. LimitsKept
  BY <1>2, <1>4, Given DEF LimitsKept
<1>7. Built /\ Accepted
  BY <1>1 DEF Built, Accepted
<1> QED BY <1>2, <1>5, <1>6, <1>7 DEF WorkspaceIInv

\* The invariant says that every file is as the fingerprint says, and the
\* fingerprint what the page was built from.
LEMMA WorkspaceSoundIs == WorkspaceIInv => WorkspaceSound
<1> SUFFICES ASSUME WorkspaceIInv PROVE WorkspaceSound
  OBVIOUS
<1> DEFINE F == TsFiles \cup (IF build = <<>> THEN {} ELSE {build[1]})
<1>1. AcceptedAsBuilt(F)
  <2> SUFFICES ASSUME finished, typescript
               PROVE  /\ made # <<>> /\ OUTPUT \in Entries /\ files[OUTPUT] = made[2]
                      /\ \A f \in DOMAIN made[1] \cap F : f \in Entries /\ files[f] = made[1][f]
    BY DEF AcceptedAsBuilt
  <2> DEFINE print == Fingerprint(build[1], files)
  <2>1. build # <<>> /\ print = build[2]
    BY DEF WorkspaceIInv, Accepted
  <2>2. \A f \in DOMAIN print : print[f] = IF f \in Entries THEN files[f] ELSE Missing
    BY DEF Fingerprint, Entries
  <2>3. /\ made # <<>> /\ made[2] \in Texts
        /\ OUTPUT \in DOMAIN build[2] /\ build[2][OUTPUT] = made[2]
        /\ \A f \in DOMAIN made[1] \cap (TsFiles \cup {build[1]}) :
             f \in DOMAIN build[2] /\ build[2][f] = made[1][f] /\ made[1][f] \in Texts
    BY <2>1 DEF WorkspaceIInv, Built
  <2> HIDE DEF print
  <2>4. OUTPUT \in Entries /\ files[OUTPUT] = made[2]
    BY <2>1, <2>2, <2>3, NoText
  <2>5. F = TsFiles \cup {build[1]}
    BY <2>1
  <2>6. \A f \in DOMAIN made[1] \cap F : f \in Entries /\ files[f] = made[1][f]
    BY <2>1, <2>2, <2>3, <2>5, NoText
  <2> QED BY <2>3, <2>4, <2>6
<1>2. EditsSound
  BY Given, EditIsSound DEF EditsSound
<1> QED BY <1>1, <1>2 DEF WorkspaceIInv, WorkspaceSound

\* Every tool call keeps it.
LEMMA WorkspaceStep ==
  ASSUME WorkspaceIInv, [WorkspaceNext]_WorkspaceVars PROVE WorkspaceIInv'
<1>1. CASE UNCHANGED WorkspaceVars
  BY <1>1 DEF WorkspaceVars, given, WorkspaceIInv, WorkspaceTypeOK, Entries, LimitsKept, Built, Accepted
<1>2. ASSUME NEW path \in Paths, NEW text \in Drafts, WriteFile(path, text) PROVE WorkspaceIInv'
  <2>1. text \in Texts
    BY Given
  <2> QED BY <1>2, <2>1, StoresKeep DEF WriteFile
<1>3. ASSUME NEW path \in Paths, NEW edit \in Edits, EditFile(path, edit) PROVE WorkspaceIInv'
  BY <1>3, EditKeeps
<1>4. ASSUME NEW path \in Paths, DeleteFile(path) PROVE WorkspaceIInv'
  BY <1>4, DeleteFileKeeps
<1>5. ASSUME NEW entry \in Paths, NEW template \in Paths, Bundle(entry, template) PROVE WorkspaceIInv'
  BY <1>5, BundleKeeps
<1>6. tasks \in Seq({"open", "done", "deleted"})
  BY DEF WorkspaceIInv, WorkspaceTypeOK
<1>7. CASE CreateTask
  <2>1. Append(tasks, "open") \in Seq({"open", "done", "deleted"})
    BY <1>6
  <2> QED BY <1>7, <2>1, TaskKeeps DEF CreateTask
<1>8. ASSUME NEW i \in DOMAIN tasks, CompleteTask(i) PROVE WorkspaceIInv'
  <2>1. [tasks EXCEPT ![i] = "done"] \in Seq({"open", "done", "deleted"})
    BY <1>6
  <2> QED BY <1>8, <2>1, TaskKeeps DEF CompleteTask
<1>9. ASSUME NEW i \in DOMAIN tasks, DeleteTask(i) PROVE WorkspaceIInv'
  <2>1. [tasks EXCEPT ![i] = "deleted"] \in Seq({"open", "done", "deleted"})
    BY <1>6
  <2> QED BY <1>9, <2>1, TaskKeeps DEF DeleteTask
<1>10. CASE FinishJob
  BY <1>10, FinishKeeps
<1> QED BY <1>1, <1>2, <1>3, <1>4, <1>5, <1>7, <1>8, <1>9, <1>10 DEF WorkspaceNext

\* However the tools of a run are called: the workspace stays within its limits,
\* a page that finish_job accepts is the one that was built from the files as
\* they are, and replace_text changes only the place that was meant.
THEOREM WorkspaceIsSound == WorkspaceSpec => []WorkspaceSound
<1>1. WorkspaceIInv /\ [WorkspaceNext]_WorkspaceVars => WorkspaceIInv'
  BY WorkspaceStep
<1> QED BY <1>1, WorkspaceStart, WorkspaceSoundIs, PTL DEF WorkspaceSpec

=============================================================================
