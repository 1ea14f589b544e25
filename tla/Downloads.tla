------------------------------ MODULE Downloads ------------------------------
(***************************************************************************)
(* Downloads of model files: the coordinator's asyncio tasks               *)
(* (services/download_coordinator.py), the worker each of them runs        *)
(* (download_worker.py), the durable records (download_registry.py and     *)
(* domain/download_job.py) and what the app does at startup and shutdown.  *)
(*                                                                         *)
(* Registry calls, publishing and deleting are synchronous, so a task is   *)
(* suspended only before its first step, while it transfers a file and     *)
(* while it hashes one.  Records and files survive a crash, tasks do not.  *)
(***************************************************************************)
EXTENDS Integers, FiniteSets

CONSTANTS
  Jobs,      \* download jobs
  Tasks,     \* names for asyncio tasks; a name is free once its task is gone
  NumFiles,  \* files of a job
  FileSize,  \* units of progress in a file
  MaxStops,  \* bound on crashes and shutdowns
  Prompt     \* whether a task's done callback runs before the next request

ASSUME FilesAssumption == NumFiles \in Nat \ {0} /\ FileSize \in Nat \ {0}
ASSUME StopsAssumption == MaxStops \in Nat
ASSUME PromptAssumption == Prompt \in BOOLEAN

None == "none"
ASSUME NamesAssumption == None \notin Tasks /\ None \notin Jobs

Files == 1..NumFiles
Cache == 0    \* the transfer cache inside a staging directory
Total == NumFiles * FileSize

VARIABLES
  state,      \* DownloadJobRecord.state, "none" before the job exists
  bytes,      \* completed_bytes
  hidden,     \* hidden: cleared from the list
  hooked,     \* whether on_completed was called for the completed transfer
  staged,     \* what the staging directory holds, {} if there is none
  published,  \* the job's files that are at the destination
  task,       \* the tasks
  tracked,    \* DownloadCoordinator._tasks
  cancelOn,   \* the task that a cancel() of the job is waiting for
  up,         \* the application: "up", "closing" or "down"
  stops       \* crashes and shutdowns so far

records == <<state, bytes, hidden, hooked>>
disk == <<staged, published>>
vars == <<records, disk, task, tracked, cancelOn, up, stops>>

\* A task is "new" before its first step and "ended" until its done callback
\* has run.  seen is job.completed_bytes as the worker last read it, reported
\* the local reported_bytes.
Free == [at |-> "free", job |-> None, file |-> 0, seen |-> 0, reported |-> 0,
         cancel |-> FALSE, outcome |-> "returned"]

Active(k) == k # None /\ task[k].at \in {"new", "transfer", "hash"}

-----------------------------------------------------------------------------
(* domain/download_job.py                                                  *)

MayBecome(from, to) ==
  to \in CASE from = "QUEUED" -> {"DOWNLOADING", "CANCELLED"}
           [] from = "DOWNLOADING" -> {"PAUSED", "COMPLETED", "FAILED", "CANCELLED"}
           [] from \in {"PAUSED", "FAILED"} -> {"QUEUED", "CANCELLED"}
           [] OTHER -> {}

Terminal == {"COMPLETED", "FAILED", "CANCELLED"}

-----------------------------------------------------------------------------
(* The requests, each a handler that runs without interruption up to the   *)
(* wait for a cancelled task.                                              *)

\* Names that may be given to a new task.
Names == {k \in Tasks : task[k].at = "free" /\ \A j \in Jobs : cancelOn[j] # k}

\* A request for the job is served.
Request(j) == up = "up" /\ (Prompt => \A k \in Tasks : task[k].at = "ended" => task[k].job # j)

\* start()
Start(j) ==
  \E k \in Names :
    /\ task' = [task EXCEPT ![k] = [Free EXCEPT !.at = "new", !.job = j]]
    /\ tracked' = [tracked EXCEPT ![j] = k]

CreateJob(j) == state[j] = "none" /\ state' = [state EXCEPT ![j] = "QUEUED"]

\* create_download, when the plan of its files is made.
Create(j) ==
  /\ up = "up" /\ CreateJob(j) /\ Start(j)
  /\ UNCHANGED <<bytes, hidden, hooked, disk, cancelOn, up, stops>>

\* A variant: resuming while a transfer is active.
ResumeUnchecked(j) ==
  /\ Request(j) /\ MayBecome(state[j], "QUEUED")
  /\ state' = [state EXCEPT ![j] = "QUEUED"]
  /\ Start(j)
  /\ UNCHANGED <<bytes, hidden, hooked, disk, cancelOn, up, stops>>

Resume(j) ==
  /\ Request(j) /\ ~Active(tracked[j])
  /\ MayBecome(state[j], "QUEUED")
  /\ state' = [state EXCEPT ![j] = "QUEUED"]
  /\ Start(j)
  /\ UNCHANGED <<bytes, hidden, hooked, disk, cancelOn, up, stops>>

Redownload(j) ==
  /\ Request(j) /\ ~Active(tracked[j])
  /\ state[j] = "COMPLETED"
  /\ state' = [state EXCEPT ![j] = "QUEUED"]
  /\ bytes' = [bytes EXCEPT ![j] = 0]
  /\ hidden' = [hidden EXCEPT ![j] = FALSE]
  /\ hooked' = [hooked EXCEPT ![j] = FALSE]
  /\ Start(j)
  /\ UNCHANGED <<disk, cancelOn, up, stops>>

\* A variant: pausing changes the record only.
PauseForgetsTask(j) ==
  /\ Request(j) /\ MayBecome(state[j], "PAUSED")
  /\ state' = [state EXCEPT ![j] = "PAUSED"]
  /\ UNCHANGED <<bytes, hidden, hooked, disk, task, tracked, cancelOn, up, stops>>

\* Whatever happens after _stop_active in pause() changes no state.
Pause(j) ==
  /\ Request(j) /\ MayBecome(state[j], "PAUSED")
  /\ state' = [state EXCEPT ![j] = "PAUSED"]
  /\ task' = IF Active(tracked[j]) THEN [task EXCEPT ![tracked[j]].cancel = TRUE] ELSE task
  /\ UNCHANGED <<bytes, hidden, hooked, disk, tracked, cancelOn, up, stops>>

Discard(j) == staged' = [staged EXCEPT ![j] = {}]

Cancel(j) ==
  /\ Request(j) /\ MayBecome(state[j], "CANCELLED")
  /\ state' = [state EXCEPT ![j] = "CANCELLED"]
  /\ IF Active(tracked[j])
       THEN /\ task' = [task EXCEPT ![tracked[j]].cancel = TRUE]
            /\ cancelOn' = [cancelOn EXCEPT ![j] = tracked[j]]
            /\ UNCHANGED staged
       ELSE /\ Discard(j)
            /\ UNCHANGED <<task, cancelOn>>
  /\ UNCHANGED <<bytes, hidden, hooked, published, tracked, up, stops>>

\* A variant: cancel() relies on the worker to clean up.
CancelEndsUnclean(j) ==
  /\ cancelOn[j] # None /\ task[cancelOn[j]].at = "free"
  /\ cancelOn' = [cancelOn EXCEPT ![j] = None]
  /\ UNCHANGED <<records, disk, task, tracked, up, stops>>

\* cancel() once the task has ended, whose callback comes first.
CancelEnds(j) ==
  /\ cancelOn[j] # None /\ task[cancelOn[j]].at = "free"
  /\ cancelOn' = [cancelOn EXCEPT ![j] = None]
  /\ Discard(j)
  /\ UNCHANGED <<records, published, task, tracked, up, stops>>

\* ModelArtifactRegistry.delete, refused while the router runs.
Delete(j) ==
  /\ Request(j) /\ state[j] = "COMPLETED"
  /\ published' = [published EXCEPT ![j] = {}]
  /\ UNCHANGED <<records, staged, task, tracked, cancelOn, up, stops>>

ClearFinished ==
  /\ up = "up"
  /\ hidden' = [j \in Jobs |-> hidden[j] \/ state[j] \in Terminal]
  /\ staged' = [j \in Jobs |->
                  IF state[j] = "FAILED" /\ ~hidden[j] THEN {} ELSE staged[j]]
  /\ UNCHANGED <<state, bytes, hooked, published, task, tracked, cancelOn, up, stops>>

-----------------------------------------------------------------------------
(* DownloadWorker.run, from one await to the next.  s is the job's state    *)
(* as the worker finds it in this step.                                    *)

Job(k) == task[k].job

Runs(k, at) == task[k].at = at /\ ~task[k].cancel

SetState(k, s) == state' = [state EXCEPT ![Job(k)] = s]

Ends(k, outcome, s) ==
  /\ task' = [task EXCEPT ![k].at = "ended", ![k].outcome = outcome]
  /\ SetState(k, s)

Gives(k, s) == Ends(k, "returned", s) /\ UNCHANGED disk

\* The `except Exception` clause.
Fails(k, s) == Gives(k, IF s = "DOWNLOADING" THEN "FAILED" ELSE s)

Continues(k, s, at, f, seen, reported) ==
  /\ task' = [task EXCEPT ![k] =
                [@ EXCEPT !.at = at, !.file = f, !.seen = seen, !.reported = reported]]
  /\ SetState(k, s)

\* _publish renames the staging directory or merges it into the destination.
Publish(j) ==
  /\ published' = [published EXCEPT ![j] = @ \union (staged[j] \ {Cache})]
  /\ Discard(j)

\* After the last file.  _publish fails when another file is in the way.
Complete(k, s) ==
  \/ s = "DOWNLOADING" /\ Publish(Job(k)) /\ Ends(k, "returned", "COMPLETED")
  \/ s = "DOWNLOADING" /\ Fails(k, s)
  \/ s # "DOWNLOADING" /\ Gives(k, s)

\* A variant: progress is reported from the start of the file on.
NextFileFromOffset(k, f, s, b, seen) ==
  \/ f > NumFiles /\ Complete(k, s)
  \/ /\ f <= NumFiles
     /\ Continues(k, s, "transfer", f, seen, (f - 1) * FileSize)
     /\ staged' = [staged EXCEPT ![Job(k)] = @ \union {Cache}]
     /\ UNCHANGED published

\* A variant: one file too many.
NextFileTooFar(k, f, s, b, seen) ==
  \/ f > NumFiles + 1 /\ Complete(k, s)
  \/ /\ f <= NumFiles + 1
     /\ Continues(k, s, "transfer", f, seen, b)
     /\ staged' = [staged EXCEPT ![Job(k)] = @ \union {Cache}]
     /\ UNCHANGED published

\* The head of the loop, for file f, with b completed_bytes.  What is staged
\* is transferred again if its etag does not match.
NextFile(k, f, s, b, seen) ==
  LET j == Job(k) IN
  \/ f > NumFiles /\ Complete(k, s)
  \/ f <= NumFiles /\ s = "CANCELLED" /\ Gives(k, s)
  \/ /\ f <= NumFiles /\ s # "CANCELLED"
     /\ Continues(k, s, "transfer", f, seen, b)
     /\ staged' = [staged EXCEPT ![j] = @ \union {Cache}]
     /\ UNCHANGED published
  \/ /\ f \in staged[j] /\ s = "DOWNLOADING"
     /\ Continues(k, s, "hash", f, seen, 0)
     /\ UNCHANGED disk
  \/ f \in staged[j] /\ s \notin {"DOWNLOADING", "CANCELLED"} /\ Gives(k, s)

\* A variant: a destination with some of the files will do.
DestinationHasSome(j) == published[j] # {}

DestinationIsComplete(j) == Files \subseteq published[j]

Work == UNCHANGED <<hidden, hooked, tracked, cancelOn, up, stops>>

\* The first step.  The transition to DOWNLOADING is outside the try statement.
Begin(k) ==
  LET j == Job(k) IN
  /\ Runs(k, "new")
  /\ \/ /\ ~MayBecome(state[j], "DOWNLOADING")
        /\ Ends(k, "raised", state[j])
        /\ UNCHANGED <<bytes, disk>>
     \/ /\ MayBecome(state[j], "DOWNLOADING")
        /\ DestinationIsComplete(j)
        /\ bytes' = [bytes EXCEPT ![j] = Total]
        /\ Gives(k, "COMPLETED")
     \/ /\ MayBecome(state[j], "DOWNLOADING")
        /\ ~DestinationIsComplete(j)
        /\ NextFile(k, 1, "DOWNLOADING", bytes[j], bytes[j])
        /\ UNCHANGED bytes
  /\ Work

\* update_progress(v) in the polling loop, for a job that is DOWNLOADING or
\* is not.
Progress(k) ==
  LET j == Job(k) IN
  /\ Runs(k, "transfer")
  /\ \E v \in (task[k].reported + 1)..(task[k].file * FileSize) :
       /\ v > (task[k].file - 1) * FileSize
       /\ \/ /\ state[j] = "DOWNLOADING" /\ v >= bytes[j]
             /\ bytes' = [bytes EXCEPT ![j] = v]
             /\ task' = [task EXCEPT ![k].reported = v]
             /\ UNCHANGED <<state, disk>>
          \/ /\ state[j] = "DOWNLOADING" /\ v < bytes[j]
             /\ Fails(k, state[j])
             /\ UNCHANGED bytes
          \/ /\ state[j] # "DOWNLOADING"
             /\ task' = [task EXCEPT ![k].reported = bytes[j]]
             /\ UNCHANGED <<state, bytes, disk>>
  /\ Work

TransferDone(k) ==
  LET j == Job(k) IN
  /\ Runs(k, "transfer")
  /\ IF state[j] = "DOWNLOADING"
       THEN /\ Continues(k, state[j], "hash", task[k].file, task[k].seen, 0)
            /\ staged' = [staged EXCEPT ![j] = @ \union {Cache, task[k].file}]
       ELSE /\ Ends(k, "returned", state[j])
            /\ staged' = [staged EXCEPT ![j] =
                            IF state[j] = "CANCELLED" THEN {}
                            ELSE @ \union {Cache, task[k].file}]
  /\ UNCHANGED <<bytes, published>>
  /\ Work

\* The retries are used up, nothing arrives, or the disk is full; or the
\* checksum is wrong.
GoesWrong(k) ==
  /\ Runs(k, "transfer") \/ Runs(k, "hash")
  /\ Fails(k, state[Job(k)])
  /\ UNCHANGED bytes
  /\ Work

\* The checksum is right.
HashOk(k) ==
  LET j == Job(k)
      s == state[j]
      c == task[k].file * FileSize
      ahead == c > task[k].seen  IN
  /\ Runs(k, "hash")
  /\ \/ /\ ahead /\ s = "DOWNLOADING" /\ c < bytes[j]
        /\ Fails(k, s)
        /\ UNCHANGED bytes
     \/ /\ ahead => s # "DOWNLOADING" \/ c >= bytes[j]
        /\ bytes' = IF ahead /\ s = "DOWNLOADING" THEN [bytes EXCEPT ![j] = c] ELSE bytes
        /\ NextFile(k, task[k].file + 1, s, bytes'[j],
                    IF ahead THEN bytes'[j] ELSE task[k].seen)
  /\ Work

\* A variant: a worker that hashes is not interrupted.
CancelledUnlessHashing(k) ==
  /\ task[k].at \in {"new", "transfer"} /\ task[k].cancel
  /\ Ends(k, "cancelled", state[Job(k)])
  /\ staged' = IF task[k].at # "new" /\ state[Job(k)] = "CANCELLED"
                 THEN [staged EXCEPT ![Job(k)] = {}] ELSE staged
  /\ UNCHANGED <<bytes, published>>
  /\ Work

\* The task is cancelled where it is suspended.  Before its first step no
\* clause of run() is reached.
Cancelled(k) ==
  LET j == Job(k) IN
  /\ Active(k) /\ task[k].cancel
  /\ Ends(k, "cancelled", state[j])
  /\ staged' = IF task[k].at # "new" /\ state[j] = "CANCELLED"
                 THEN [staged EXCEPT ![j] = {}] ELSE staged
  /\ UNCHANGED <<bytes, published>>
  /\ Work

\* The state that _task_finished leaves when run() raised.
AfterRaising(s) == IF s \in {"QUEUED", "DOWNLOADING"} THEN "FAILED" ELSE s

\* _task_finished calls on_completed.
HookDue(k) == task[k].outcome = "returned" /\ state[Job(k)] = "COMPLETED"

\* _task_finished, the task's done callback.
Finished(k) ==
  LET j == Job(k) IN
  /\ task[k].at = "ended"
  /\ task' = [task EXCEPT ![k] = Free]
  /\ tracked' = [tracked EXCEPT ![j] = None]
  /\ state' = IF task[k].outcome = "raised"
                THEN [state EXCEPT ![j] = AfterRaising(@)] ELSE state
  /\ hooked' = IF HookDue(k) THEN [hooked EXCEPT ![j] = TRUE] ELSE hooked
  /\ UNCHANGED <<bytes, hidden, disk, cancelOn, up, stops>>

-----------------------------------------------------------------------------
(* The process.                                                            *)

Gone ==
  /\ up' = "down"
  /\ task' = [k \in Tasks |-> Free]
  /\ tracked' = [j \in Jobs |-> None]
  /\ cancelOn' = [j \in Jobs |-> None]

Crash ==
  /\ up # "down" /\ stops < MaxStops
  /\ stops' = stops + 1
  /\ Gone
  /\ UNCHANGED <<records, disk>>

\* A crash with the files partly merged, or before COMPLETED is committed.
CrashInPublish(k) ==
  LET j == Job(k) IN
  /\ up # "down" /\ stops < MaxStops
  /\ Runs(k, "hash") /\ task[k].file = NumFiles /\ state[j] = "DOWNLOADING"
  /\ Total > task[k].seen => Total >= bytes[j]
  /\ \E moved \in SUBSET (staged[j] \ {Cache}) :
       /\ published' = [published EXCEPT ![j] = @ \union moved]
       /\ \/ staged' = [staged EXCEPT ![j] = @ \ moved]
          \/ moved = staged[j] \ {Cache} /\ Discard(j)
  /\ bytes' = IF Total > task[k].seen THEN [bytes EXCEPT ![j] = Total] ELSE bytes
  /\ stops' = stops + 1
  /\ Gone
  /\ UNCHANGED <<state, hidden, hooked>>

\* shutdown() up to its wait for the tasks.
Shutdown ==
  LET stopped == {j \in Jobs : Active(tracked[j])} IN
  /\ up = "up" /\ stops < MaxStops
  /\ up' = "closing"
  /\ stops' = stops + 1
  /\ state' = [j \in Jobs |-> IF j \in stopped /\ state[j] = "DOWNLOADING"
                                THEN "PAUSED" ELSE state[j]]
  /\ task' = [k \in Tasks |-> [task[k] EXCEPT !.cancel =
                @ \/ \E j \in stopped : tracked[j] = k]]
  /\ UNCHANGED <<bytes, hidden, hooked, disk, tracked, cancelOn>>

Exit ==
  /\ up = "closing"
  /\ \A j \in Jobs : tracked[j] = None /\ cancelOn[j] = None
  /\ Gone
  /\ UNCHANGED <<records, disk, stops>>

\* A variant: interrupted jobs are started instead of queued ones.
PendingInterrupted == {j \in Jobs : state[j] = "DOWNLOADING" /\ ~hidden[j]}

Pending == {j \in Jobs : state[j] = "QUEUED" /\ ~hidden[j]}

\* A variant: nothing is caught up on.
CatchUpNothing(j) == FALSE

CatchUp(j) == state[j] = "COMPLETED"

\* start_pending() and the catch-up on completed downloads.
Startup ==
  /\ up = "down"
  /\ up' = "up"
  /\ state' = [j \in Jobs |-> IF state[j] = "DOWNLOADING" THEN "PAUSED" ELSE state[j]]
  /\ hooked' = [j \in Jobs |-> hooked[j] \/ CatchUp(j)]
  /\ \E k \in [Pending -> Tasks] :
       /\ \A i, j \in Pending : i # j => k[i] # k[j]
       /\ task' = [t \in Tasks |->
                     IF \E j \in Pending : k[j] = t
                       THEN [Free EXCEPT !.at = "new",
                                         !.job = CHOOSE j \in Pending : k[j] = t]
                       ELSE Free]
       /\ tracked' = [j \in Jobs |-> IF j \in Pending THEN k[j] ELSE None]
  /\ UNCHANGED <<bytes, hidden, disk, cancelOn, stops>>

-----------------------------------------------------------------------------
Init ==
  /\ state = [j \in Jobs |-> "none"]
  /\ bytes = [j \in Jobs |-> 0]
  /\ hidden = [j \in Jobs |-> FALSE]
  /\ hooked = [j \in Jobs |-> FALSE]
  /\ staged = [j \in Jobs |-> {}]
  /\ published = [j \in Jobs |-> {}]
  /\ task = [k \in Tasks |-> Free]
  /\ tracked = [j \in Jobs |-> None]
  /\ cancelOn = [j \in Jobs |-> None]
  /\ up = "up"
  /\ stops = 0

Next ==
  \/ \E j \in Jobs : \/ Create(j) \/ Resume(j) \/ Redownload(j) \/ Pause(j)
                     \/ Cancel(j) \/ CancelEnds(j) \/ Delete(j)
  \/ \E k \in Tasks : \/ Begin(k) \/ Progress(k) \/ TransferDone(k) \/ GoesWrong(k)
                      \/ HashOk(k) \/ Cancelled(k) \/ Finished(k) \/ CrashInPublish(k)
  \/ ClearFinished \/ Crash \/ Shutdown \/ Exit \/ Startup

Spec == Init /\ [][Next]_vars

\* Transfers end, because they stall or run out of retries if nothing else;
\* hashing ends; the event loop runs what is ready; the process is started
\* again after it stopped.
Fairness ==
  /\ \A k \in Tasks : /\ WF_vars(Begin(k)) /\ WF_vars(TransferDone(k) \/ GoesWrong(k))
                      /\ WF_vars(HashOk(k)) /\ WF_vars(Cancelled(k)) /\ WF_vars(Finished(k))
  /\ \A j \in Jobs : WF_vars(CancelEnds(j))
  /\ WF_vars(Exit) /\ WF_vars(Startup)

FairSpec == Spec /\ Fairness

-----------------------------------------------------------------------------
(* Properties.                                                             *)

TypeOK ==
  /\ state \in [Jobs -> {"none", "QUEUED", "DOWNLOADING", "PAUSED"} \union Terminal]
  /\ bytes \in [Jobs -> 0..Total]
  /\ hidden \in [Jobs -> BOOLEAN]
  /\ hooked \in [Jobs -> BOOLEAN]
  /\ staged \in [Jobs -> SUBSET (Files \union {Cache})]
  /\ published \in [Jobs -> SUBSET Files]
  /\ task \in [Tasks -> [at : {"free", "new", "transfer", "hash", "ended"},
                         job : Jobs \union {None}, file : Files \union {0},
                         seen : 0..Total, reported : 0..Total, cancel : BOOLEAN,
                         outcome : {"returned", "raised", "cancelled"}]]
  /\ tracked \in [Jobs -> Tasks \union {None}]
  /\ cancelOn \in [Jobs -> Tasks \union {None}]
  /\ up \in {"up", "closing", "down"}
  /\ stops \in 0..MaxStops

\* A job has one worker at a time.  resume() and redownload() refuse while
\* the tracked task is active, and start() keeps the task that is there.
OneWorkerPerJob ==
  \A k, l \in Tasks : Active(k) /\ Active(l) /\ Job(k) = Job(l) => k = l

\* And it runs only for a job that is queued or downloading, or it has been
\* told to stop: pausing, cancelling and failing a job reach its worker.
WorkersMatchJobs ==
  /\ TypeOK /\ OneWorkerPerJob
  /\ \A k \in Tasks : Active(k) /\ ~task[k].cancel => state[Job(k)] \in {"QUEUED", "DOWNLOADING"}

\* update_progress() never refuses what a worker reports: across files,
\* retries of a failed job and re-downloads, progress does not run backwards.
ProgressAccepted ==
  \A k \in Tasks :
    LET j == Job(k) IN
    j # None /\ state[j] = "DOWNLOADING" =>
      /\ task[k].at = "transfer" => bytes[j] <= task[k].reported
      /\ task[k].at = "hash" /\ task[k].file * FileSize > task[k].seen
           => bytes[j] <= task[k].file * FileSize

\* What a job's final state says is true on disk.  The files of a cancelled
\* job are gone from the staging area once cancel() has returned, whatever was
\* paused, failed, retried or cleared before, as long as the application is not
\* stopped.  And a job becomes COMPLETED only in a step after which all its
\* files are at the destination, whatever crashes, failures and deletions came
\* before.
EndIsTrue ==
  /\ [](\A j \in Jobs :
         /\ stops = 0 /\ state[j] = "CANCELLED" /\ cancelOn[j] = None
         /\ \A k \in Tasks : Job(k) = j => ~Active(k)
         => staged[j] = {})
  /\ [][\A j \in Jobs : state[j] # "COMPLETED" /\ state'[j] = "COMPLETED"
                          => published'[j] = Files]_vars

\* A queued job that is on the list is taken up: by its task, or by
\* start_pending() after a restart.
QueuedIsTakenUp ==
  \A j \in Jobs : state[j] = "QUEUED" /\ ~hidden[j] ~> state[j] # "QUEUED"

\* on_completed is called for every completed download, by the done callback
\* or, if the process stopped before it, by the next startup.
CompletionIsHooked ==
  \A j \in Jobs : state[j] = "COMPLETED" ~> hooked[j] \/ state[j] # "COMPLETED"

\* cancel() returns.
CancelReturns == \A j \in Jobs : cancelOn[j] # None ~> cancelOn[j] = None

\* What was asked for comes about: nothing queued, completed or cancelled is
\* forgotten, over crashes and shutdowns.
RequestsAnswered == QueuedIsTakenUp /\ CompletionIsHooked /\ CancelReturns
==============================================================================
