------------------------------- MODULE Library --------------------------------
(***************************************************************************)
(* The model library: what downloads publish into a revision's folder and  *)
(* what a delete takes out of it (DownloadWorker, ModelArtifactRegistry),   *)
(* the models found on disk (ModelLibrary), their durable records and      *)
(* profile links (LogicalModelRegistry) and how an imported command finds  *)
(* its model (locate_model).                                               *)
(*                                                                         *)
(* Downloads of one repository revision share its folder, so two of them   *)
(* may share a file (a projector).  Files move between that folder and the *)
(* hidden .partial and .deleting folders of a download; how a download is  *)
(* transferred, paused and resumed is Downloads.                           *)
(***************************************************************************)
EXTENDS FiniteSets, Naturals

CONSTANTS
  Parcels,          \* downloads
  ModelFiles,       \* file names in the folder, of downloads and others
  FilesOf,          \* the files of each download
  PrimaryOf,        \* its primary_path
  Hashed,           \* files whose checksum the Hub publishes
  ShardsOf,         \* the split model a primary file belongs to
  NoModel, Folder,  \* no path; the revision's folder
  MaxHarm           \* bound: files damaged from outside, and crashes

ASSUME LibraryAssumption ==
  /\ \A j \in Parcels : PrimaryOf[j] \in FilesOf[j] /\ FilesOf[j] \subseteq ModelFiles
  /\ MaxHarm \in Nat

VARIABLES
  file,      \* each file in the folder: "absent", "whole", "damaged" (the size
             \* is right) or "short"
  job,       \* state of each download
  partial,   \* files in its staging folder
  tomb,      \* files in its deletion tombstone
  tombed,    \* downloads whose tombstone exists
  recorded,  \* primary files with a logical record
  missing,   \* those of them that are "missing"
  linked,    \* those that the profile is linked to
  profilePath, \* model_path of a profile: [place, file] or NoModel
  harm       \* damages and crashes so far

LibraryVars == <<file, job, partial, tomb, tombed, recorded, missing, linked,
                 profilePath, harm>>
disk == <<file, partial, tomb, tombed>>
logical == <<recorded, missing, linked>>

LibraryInit ==
  /\ file \in [ModelFiles -> {"absent", "whole"}]
  /\ \A j \in Parcels : \A f \in FilesOf[j] : file[f] = "absent"
  /\ job = [j \in Parcels |-> "queued"] /\ partial = [j \in Parcels |-> {}]
  /\ tomb = [j \in Parcels |-> {}] /\ tombed = {}
  /\ recorded = {} /\ missing = {} /\ linked = {} /\ profilePath = NoModel
  /\ harm = 0

Harm == harm < MaxHarm /\ harm' = harm + 1

----------------------------------------------------------------------------
(* Downloads                                                               *)

\* The size of a file is right, and its checksum where one is known.
Valid(f) == file[f] = "whole" \/ (file[f] = "damaged" /\ f \notin Hashed)
DestinationIsWhole(j) == \A f \in FilesOf[j] : Valid(f)

Becomes(j, s) == job' = [job EXCEPT ![j] = s]
Requeues(j, from) ==
  /\ job[j] \in from /\ Becomes(j, "queued")
  /\ UNCHANGED <<disk, logical, profilePath, harm>>
RedownloadModel(j) == Requeues(j, {"completed"})
ResumeDownload(j) == Requeues(j, {"failed"})

\* The worker finds everything published, or goes on to transfer.
BeginsTransfer(j) ==
  /\ job[j] = "queued"
  /\ Becomes(j, IF DestinationIsWhole(j) THEN "completed" ELSE "downloading")
  /\ UNCHANGED <<disk, logical, profilePath, harm>>

\* A file that is not staged yet is transferred and verified.
Transfers(j, f) ==
  /\ job[j] = "downloading" /\ f \in FilesOf[j] \ partial[j]
  /\ partial' = [partial EXCEPT ![j] = @ \cup {f}]
  /\ UNCHANGED <<file, job, tomb, tombed, logical, profilePath, harm>>

\* _publish, _merge: files that are there with the right size stay, the others
\* are moved in; a file of another size refuses the merge before it moves one.
Movable(j) == {f \in partial[j] : file[f] = "absent"}
Conflicts(j) == {f \in partial[j] : file[f] = "short"}
MovesIn(F) == file' = [f \in ModelFiles |-> IF f \in F THEN "whole" ELSE file[f]]
PublishParcel(j) ==
  /\ job[j] = "downloading" /\ FilesOf[j] \subseteq partial[j]
  /\ IF Conflicts(j) # {} THEN Becomes(j, "failed") /\ UNCHANGED disk
     ELSE /\ MovesIn(Movable(j)) /\ partial' = [partial EXCEPT ![j] = {}]
          /\ Becomes(j, "completed") /\ UNCHANGED <<tomb, tombed>>
  /\ UNCHANGED <<logical, profilePath, harm>>

TransferFails(j) ==
  /\ job[j] = "downloading" /\ Becomes(j, "failed")
  /\ UNCHANGED <<disk, logical, profilePath, harm>>

\* The application ends, perhaps in the middle of a merge; at the next start
\* the download is queued again (reconcile_interrupted, resume).
Interrupted(j) ==
  /\ job[j] = "downloading" /\ Harm /\ Becomes(j, "queued")
  /\ \E F \in SUBSET (IF FilesOf[j] \subseteq partial[j] /\ Conflicts(j) = {}
                      THEN Movable(j) ELSE {}) :
       MovesIn(F) /\ partial' = [partial EXCEPT ![j] = @ \ F]
  /\ UNCHANGED <<tomb, tombed, logical, profilePath>>

----------------------------------------------------------------------------
(* Deleting an artifact                                                    *)

Deletable(j) == job[j] = "completed" /\ j \notin tombed
Present(j) == {f \in FilesOf[j] : file[f] # "absent"}
TakesOut(F) == file' = [f \in ModelFiles |-> IF f \in F THEN "absent" ELSE file[f]]

\* delete: every file that is there moves to the tombstone, which is removed;
\* a removal that fails is ignored and leaves some.
DeleteArtifact(j) ==
  /\ Deletable(j) /\ TakesOut(Present(j))
  /\ \E left \in {{}, Present(j)} :
       /\ tomb' = [tomb EXCEPT ![j] = left]
       /\ tombed' = IF left = {} THEN tombed ELSE tombed \cup {j}
  /\ UNCHANGED <<job, partial, logical, profilePath, harm>>

\* A variant: what was moved before the failure stays in the tombstone.
RestoredNothing(j, moved) == [f \in ModelFiles |-> IF f \in moved THEN "absent" ELSE file[f]]

\* A move fails after some: those are moved back and the tombstone is removed.
Restored(j, moved) == file
DeleteRefused(j) ==
  /\ Deletable(j)
  /\ \E moved \in SUBSET Present(j) : file' = Restored(j, moved)
  /\ UNCHANGED <<job, partial, tomb, tombed, logical, profilePath, harm>>

\* The application ends while files are moved.
DeleteInterrupted(j) ==
  /\ Deletable(j) /\ Harm
  /\ \E moved \in SUBSET Present(j) :
       TakesOut(moved) /\ tomb' = [tomb EXCEPT ![j] = moved]
  /\ tombed' = tombed \cup {j}
  /\ UNCHANGED <<job, partial, logical, profilePath>>

\* From outside: a file is damaged, cut short or removed.
Damaged(f, how) ==
  /\ file[f] = "whole" /\ Harm /\ file' = [file EXCEPT ![f] = how]
  /\ UNCHANGED <<job, partial, tomb, tombed, logical, profilePath>>

----------------------------------------------------------------------------
(* Models on disk, their records and profile links                         *)

\* What the directory at a place holds.  The hidden folders are directories of
\* the model root like any other.
Held(place) ==
  IF place = Folder THEN {f \in ModelFiles : file[f] # "absent"}
  ELSE partial[place] \cup tomb[place]
Discovered(place) ==
  {f \in DOMAIN ShardsOf : f \in Held(place) /\ ShardsOf[f] \subseteq Held(place)}

ReconcileDiscovered ==
  /\ recorded' = recorded \cup Discovered(Folder)
  /\ missing' = recorded' \ Discovered(Folder)
ReconcileProfileLinks == linked' = {f \in recorded' : profilePath = [place |-> Folder, file |-> f]}

\* reconcile_library, on the models in the folder.
Scan ==
  /\ ReconcileDiscovered /\ ReconcileProfileLinks
  /\ UNCHANGED <<disk, job, profilePath, harm>>

RemoveMissing(f) ==
  /\ f \in missing \ linked
  /\ recorded' = recorded \ {f} /\ missing' = missing \ {f}
  /\ UNCHANGED <<disk, job, linked, profilePath, harm>>

\* local_models: the primary files of completed downloads first, then the
\* models that discover finds, of which the order of the file system decides.
LibraryHas(f) ==
  file[f] # "absent" /\ \E j \in Parcels : job[j] = "completed" /\ PrimaryOf[j] = f
Located(f) ==
  IF file[f] # "absent" \/ LibraryHas(f) THEN {[place |-> Folder, file |-> f]}
  ELSE {[place |-> place, file |-> f] : place \in {p \in Parcels : f \in Discovered(p)}}

\* A command or an external model is imported into a profile.
ImportsModel(f) ==
  /\ profilePath = NoModel /\ f \in DOMAIN ShardsOf
  /\ profilePath' \in Located(f)
  /\ UNCHANGED <<disk, job, logical, harm>>

\* The profile is deleted, and its link with it.
Forgets ==
  /\ profilePath # NoModel /\ profilePath' = NoModel /\ linked' = {}
  /\ UNCHANGED <<disk, job, recorded, missing, harm>>

LibraryNext ==
  \/ \E f \in ModelFiles : \/ \E how \in {"damaged", "short", "absent"} : Damaged(f, how)
                           \/ RemoveMissing(f) \/ ImportsModel(f)
  \/ \E j \in Parcels :
       \/ RedownloadModel(j) \/ ResumeDownload(j) \/ BeginsTransfer(j) \/ PublishParcel(j)
       \/ TransferFails(j) \/ Interrupted(j)
       \/ DeleteArtifact(j) \/ DeleteRefused(j) \/ DeleteInterrupted(j)
       \/ \E f \in FilesOf[j] : Transfers(j, f)
  \/ Scan \/ Forgets

LibrarySpec == LibraryInit /\ [][LibraryNext]_LibraryVars

----------------------------------------------------------------------------
(* Properties                                                              *)

LibraryTypeOK ==
  /\ file \in [ModelFiles -> {"absent", "whole", "damaged", "short"}]
  /\ job \in [Parcels -> {"queued", "downloading", "completed", "failed"}]
  /\ \A j \in Parcels : partial[j] \cup tomb[j] \subseteq FilesOf[j]
  /\ missing \subseteq recorded /\ recorded \subseteq ModelFiles /\ linked \subseteq recorded
  /\ harm \in 0..MaxHarm

\* The folder holds what its downloads were told, and nothing else is touched:
\* publishing, merging and deleting take out of the folder only files of the
\* download itself, replace none, and take out all or none of them unless the
\* application ends half-way; a file is lost to another download only if the
\* two share it.  And a download completes only with all its files in the
\* folder.
LibraryKept ==
  /\ []LibraryTypeOK
  /\ [][/\ \/ harm' # harm
           \/ \A f \in ModelFiles : file[f] # "absent" => file'[f] = file[f]
           \/ \E j \in Parcels :
                /\ job[j] = "completed"
                /\ \A f \in ModelFiles : file'[f] = IF f \in FilesOf[j] THEN "absent" ELSE file[f]
        /\ \A j \in Parcels : job[j] # "completed" /\ job'[j] = "completed"
             => \A f \in FilesOf[j] : file'[f] \in {"whole", "damaged"}
     ]_LibraryVars
=============================================================================
