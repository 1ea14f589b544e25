---------------------------- MODULE DownloadsProofs ----------------------------
(***************************************************************************)
(* Theorems about Downloads.  Types hold whatever the event loop does; the *)
(* rest holds when the done callback of a task runs before the next        *)
(* request for its job (Prompt).  Then a job's only task is the tracked    *)
(* one, so that the invariant can be stated job by job (JobOK).            *)
(***************************************************************************)
EXTENDS Downloads, TLAPS

States == {"none", "QUEUED", "DOWNLOADING", "PAUSED"} \union Terminal
Outcomes == {"returned", "raised", "cancelled"}
TaskRecords == [at : {"free", "new", "transfer", "hash", "ended"},
                job : Jobs \union {None}, file : Files \union {0},
                seen : 0..Total, reported : 0..Total, cancel : BOOLEAN,
                outcome : Outcomes]

\* A task that is there has a job, and one that works has a file.
TasksTyped ==
  /\ task \in [Tasks -> TaskRecords]
  /\ \A k \in Tasks : /\ task[k].at # "free" => Job(k) \in Jobs
                      /\ task[k].at \in {"transfer", "hash"} => task[k].file \in Files

DiskTyped ==
  /\ staged \in [Jobs -> SUBSET (Files \union {Cache})]
  /\ published \in [Jobs -> SUBSET Files]

RestTyped ==
  /\ bytes \in [Jobs -> 0..Total]
  /\ hidden \in [Jobs -> BOOLEAN] /\ hooked \in [Jobs -> BOOLEAN]
  /\ tracked \in [Jobs -> Tasks \union {None}] /\ cancelOn \in [Jobs -> Tasks \union {None}]
  /\ up \in {"up", "closing", "down"} /\ stops \in 0..MaxStops

Typed == state \in [Jobs -> States] /\ TasksTyped /\ DiskTyped /\ RestTyped

----------------------------------------------------------------------------
(* Types                                                                   *)

\* The end of each file is within the total.
LEMMA FileEnds ==
  /\ Total \in Nat /\ NumFiles \in Nat \ {0} /\ FileSize \in Nat \ {0}
  /\ \A f \in Files : f \in Nat \ {0} /\ f * FileSize \in 0..Total
<1>1. NumFiles \in Nat \ {0} /\ FileSize \in Nat \ {0} BY FilesAssumption
<1>2. Total \in Nat BY <1>1 DEF Total
<1>3. ASSUME NEW f \in Files PROVE f \in Nat \ {0} /\ f * FileSize \in 0..Total
  <2>1. f \in Nat \ {0} /\ f <= NumFiles BY <1>1 DEF Files
  <2>2. f * FileSize \in Nat BY <1>1, <2>1
  <2>3. f * FileSize <= NumFiles * FileSize BY <1>1, <2>1
  <2> QED BY <2>1, <2>2, <2>3, <1>2 DEF Total
<1> QED BY <1>1, <1>2, <1>3

\* A task slot that is free, or given to a new task of a job, has its type.
LEMMA FreeTyped ==
  /\ Free \in TaskRecords
  /\ \A j \in Jobs : LET r == [Free EXCEPT !.at = "new", !.job = j]
                     IN  r \in TaskRecords /\ r.at = "new" /\ r.job = j
<1>1. 0 \in 0..Total BY FileEnds
<1>2. Free \in TaskRecords BY <1>1 DEF Free, TaskRecords, Outcomes
<1>3. ASSUME NEW j \in Jobs
      PROVE  LET r == [Free EXCEPT !.at = "new", !.job = j]
             IN  r \in TaskRecords /\ r.at = "new" /\ r.job = j
  BY <1>2 DEF TaskRecords
<1> QED BY <1>2, <1>3

\* Marking a task as cancelled, whichever.
LEMMA CancelTyped ==
  ASSUME TasksTyped, NEW k \in Tasks, task' = [task EXCEPT ![k].cancel = TRUE]
  PROVE  TasksTyped'
BY DEF TasksTyped, TaskRecords, Job

\* A job that starts gets a task of its own.
LEMMA StartTyped ==
  ASSUME Typed, NEW j \in Jobs, Start(j)
  PROVE  TasksTyped' /\ tracked' \in [Jobs -> Tasks \union {None}]
<1> PICK k \in Names :
      /\ task' = [task EXCEPT ![k] = [Free EXCEPT !.at = "new", !.job = j]]
      /\ tracked' = [tracked EXCEPT ![j] = k]
  BY DEF Start
<1>1. k \in Tasks BY DEF Names
<1>2. [Free EXCEPT !.at = "new", !.job = j] \in TaskRecords BY FreeTyped
<1>3. task' \in [Tasks -> TaskRecords] BY <1>1, <1>2 DEF Typed, TasksTyped
<1>4. /\ task'[k].at = "new" /\ task'[k].job = j
      /\ \A l \in Tasks \ {k} : task'[l] = task[l]
  BY <1>1, FreeTyped DEF Typed, TasksTyped
<1>5. tracked' \in [Jobs -> Tasks \union {None}] BY <1>1 DEF Typed, RestTyped
<1> QED BY <1>1, <1>3, <1>4, <1>5 DEF Typed, TasksTyped, Job

\* A task that ends, and one that goes on with a file.
LEMMA EndsTyped ==
  ASSUME Typed, NEW k \in Tasks, task[k].at # "free", NEW s \in States, NEW o \in Outcomes,
         Ends(k, o, s)
  PROVE  state' \in [Jobs -> States] /\ TasksTyped'
<1>1. Job(k) \in Jobs BY DEF Typed, TasksTyped
<1>2. state' \in [Jobs -> States] BY <1>1 DEF Ends, SetState, Typed
<1>3. task' \in [Tasks -> TaskRecords]
  <2>1. task \in [Tasks -> TaskRecords] /\ task[k] \in TaskRecords BY DEF Typed, TasksTyped
  <2>2. [task[k] EXCEPT !.at = "ended", !.outcome = o] \in TaskRecords BY <2>1 DEF TaskRecords
  <2>3. task' = [task EXCEPT ![k] = [task[k] EXCEPT !.at = "ended", !.outcome = o]]
    BY <2>1 DEF Ends
  <2> QED BY <2>1, <2>2, <2>3
<1>4. /\ task'[k].at = "ended" /\ task'[k].job = task[k].job
      /\ \A l \in Tasks \ {k} : task'[l] = task[l]
  BY DEF Ends, Typed, TasksTyped, TaskRecords
<1> QED BY <1>1, <1>2, <1>3, <1>4 DEF Typed, TasksTyped, Job

\* A worker that goes on to a transfer or a hash keeps the types.
LEMMA ContinuesTyped ==
  ASSUME Typed, NEW k \in Tasks, task[k].at # "free", NEW s \in States,
         NEW at \in {"transfer", "hash"}, NEW f \in Files,
         NEW seen \in 0..Total, NEW reported \in 0..Total,
         Continues(k, s, at, f, seen, reported)
  PROVE  /\ state' \in [Jobs -> States] /\ TasksTyped'
         /\ task'[k] = [task[k] EXCEPT !.at = at, !.file = f, !.seen = seen, !.reported = reported]
<1>1. Job(k) \in Jobs BY DEF Typed, TasksTyped
<1>2. state' \in [Jobs -> States] BY <1>1 DEF Continues, SetState, Typed
<1>3. task'[k] = [task[k] EXCEPT !.at = at, !.file = f, !.seen = seen, !.reported = reported]
      /\ \A l \in Tasks \ {k} : task'[l] = task[l]
  BY DEF Continues, Typed, TasksTyped
<1>4. task'[k] \in TaskRecords /\ task'[k].at = at /\ task'[k].file = f /\ task'[k].job = task[k].job
  <2>1. /\ task[k] \in TaskRecords /\ task[k].job \in Jobs \union {None}
        /\ task[k].cancel \in BOOLEAN /\ task[k].outcome \in Outcomes
    BY DEF Typed, TasksTyped, TaskRecords
  <2>2. task'[k] = [at |-> at, job |-> task[k].job, file |-> f, seen |-> seen, reported |-> reported,
                    cancel |-> task[k].cancel, outcome |-> task[k].outcome]
    BY <1>3, <2>1 DEF TaskRecords
  <2> QED BY <2>1, <2>2 DEF TaskRecords
<1>5. task' \in [Tasks -> TaskRecords]
  BY <1>3, <1>4 DEF Continues, Typed, TasksTyped
<1> QED BY <1>1, <1>2, <1>3, <1>4, <1>5 DEF Typed, TasksTyped, Job

\* Publishing and staging keep to the job's files.
LEMMA NextFileTyped ==
  ASSUME Typed, NEW k \in Tasks, task[k].at # "free", NEW f \in 1..(NumFiles + 1),
         NEW s \in States, NEW b \in 0..Total, NEW seen \in 0..Total,
         NextFile(k, f, s, b, seen)
  PROVE  state' \in [Jobs -> States] /\ TasksTyped' /\ DiskTyped'
<1> DEFINE j == Job(k)
<1>1. j \in Jobs BY DEF Typed, TasksTyped
<1>2. f <= NumFiles => f \in Files BY FileEnds DEF Files
<1>3. 0 \in 0..Total BY FileEnds
<1>4. CASE f > NumFiles /\ Complete(k, s)
  <2>1. CASE s = "DOWNLOADING" /\ Publish(j) /\ Ends(k, "returned", "COMPLETED")
    <3>1. DiskTyped' BY <1>1, <2>1 DEF Publish, Discard, Typed, DiskTyped, Files, Cache
    <3> QED BY <2>1, <3>1, EndsTyped DEF States, Terminal, Outcomes
  <2>2. CASE Fails(k, s)
    BY <2>2, EndsTyped DEF Fails, Gives, States, Terminal, Outcomes, Typed, DiskTyped, disk
  <2>3. CASE Gives(k, s) BY <2>3, EndsTyped DEF Gives, Outcomes, Typed, DiskTyped, disk
  <2> QED BY <1>4, <2>1, <2>2, <2>3 DEF Complete
<1>5. CASE Gives(k, s) BY <1>5, EndsTyped DEF Gives, Outcomes, Typed, DiskTyped, disk
<1>6. CASE /\ f <= NumFiles /\ Continues(k, s, "transfer", f, seen, b)
           /\ staged' = [staged EXCEPT ![j] = @ \union {Cache}] /\ UNCHANGED published
  <2>1. DiskTyped' BY <1>1, <1>6 DEF Typed, DiskTyped
  <2> QED BY <1>2, <1>6, <2>1, ContinuesTyped
<1>7. CASE f \in staged[j] /\ Continues(k, s, "hash", f, seen, 0) /\ UNCHANGED disk
  <2>1. f \in Files BY <1>1, <1>7, FileEnds DEF Typed, DiskTyped, Cache
  <2> QED BY <1>3, <1>7, <2>1, ContinuesTyped DEF Typed, DiskTyped, disk
<1> QED BY <1>4, <1>5, <1>6, <1>7 DEF NextFile

\* The requests.
LEMMA RequestTyped ==
  ASSUME Typed, NEW j \in Jobs,
         \/ Create(j) \/ Resume(j) \/ Redownload(j) \/ Pause(j)
         \/ Cancel(j) \/ CancelEnds(j) \/ Delete(j)
  PROVE  Typed'
<1>1. CASE Create(j)
  BY <1>1, StartTyped DEF Create, CreateJob, Typed, States, DiskTyped, RestTyped, disk
<1>2. CASE Resume(j)
  BY <1>2, StartTyped DEF Resume, Typed, States, DiskTyped, RestTyped, disk
<1>3. CASE Redownload(j)
  BY <1>3, StartTyped, FileEnds DEF Redownload, Typed, States, DiskTyped, RestTyped, disk
<1>4. CASE Pause(j)
  <2>1. state' \in [Jobs -> States] BY <1>4 DEF Pause, Typed, States
  <2>2. TasksTyped'
    <3>1. CASE Active(tracked[j])
      <4>1. tracked[j] \in Tasks BY <3>1 DEF Active, Typed, RestTyped
      <4> QED BY <1>4, <3>1, <4>1, CancelTyped DEF Pause, Typed
    <3>2. CASE ~Active(tracked[j]) BY <1>4, <3>2 DEF Pause, Typed, TasksTyped, Job
    <3> QED BY <3>1, <3>2
  <2> QED BY <1>4, <2>1, <2>2 DEF Pause, Typed, DiskTyped, RestTyped, disk
<1>5. CASE Cancel(j)
  <2>1. state' \in [Jobs -> States] BY <1>5 DEF Cancel, Typed, States, Terminal
  <2>2. CASE Active(tracked[j])
    <3>1. tracked[j] \in Tasks BY <2>2 DEF Active, Typed, RestTyped
    <3>2. TasksTyped' BY <1>5, <2>2, <3>1, CancelTyped DEF Cancel, Typed
    <3> QED BY <1>5, <2>1, <2>2, <3>1, <3>2 DEF Cancel, Typed, DiskTyped, RestTyped
  <2>3. CASE ~Active(tracked[j])
    BY <1>5, <2>1, <2>3 DEF Cancel, Discard, Typed, TasksTyped, DiskTyped, RestTyped, Job
  <2> QED BY <2>2, <2>3
<1>6. CASE CancelEnds(j)
  BY <1>6 DEF CancelEnds, Discard, Typed, TasksTyped, DiskTyped, RestTyped, Job, records
<1>7. CASE Delete(j)
  BY <1>7 DEF Delete, Typed, TasksTyped, DiskTyped, RestTyped, Job, records
<1> QED BY <1>1, <1>2, <1>3, <1>4, <1>5, <1>6, <1>7

\* The worker.
LEMMA WorkerTyped ==
  ASSUME Typed, NEW k \in Tasks,
         \/ Begin(k) \/ Progress(k) \/ TransferDone(k) \/ GoesWrong(k)
         \/ HashOk(k) \/ Cancelled(k) \/ Finished(k)
  PROVE  Typed'
<1> DEFINE j == Job(k)
<1>1. task[k].at # "free"
  BY DEF Begin, Progress, TransferDone, GoesWrong, HashOk, Cancelled, Finished, Runs, Active
<1>2. /\ j \in Jobs /\ state[j] \in States /\ bytes[j] \in 0..Total /\ task[k] \in TaskRecords
      /\ task[k].seen \in 0..Total /\ task[k].reported \in 0..Total
  BY <1>1 DEF Typed, TasksTyped, RestTyped, TaskRecords
<1>3. ASSUME Work, bytes' \in [Jobs -> 0..Total] PROVE RestTyped'
  BY <1>3 DEF Work, Typed, RestTyped
<1>4. ASSUME UNCHANGED bytes PROVE bytes' \in [Jobs -> 0..Total] BY <1>4 DEF Typed, RestTyped
<1>5. CASE Begin(k)
  <2>1. CASE Ends(k, "raised", state[j]) /\ UNCHANGED <<bytes, disk>>
    BY <1>1, <1>2, <1>3, <1>4, <1>5, <2>1, EndsTyped DEF Begin, Typed, DiskTyped, disk, Outcomes
  <2>2. CASE bytes' = [bytes EXCEPT ![j] = Total] /\ Gives(k, "COMPLETED")
    <3>1. bytes' \in [Jobs -> 0..Total]
      <4>1. Total \in 0..Total BY FileEnds
      <4> QED BY <2>2, <4>1 DEF Typed, RestTyped
    <3>2. "COMPLETED" \in States /\ "returned" \in Outcomes BY DEF States, Terminal, Outcomes
    <3>3. state' \in [Jobs -> States] /\ TasksTyped' BY <1>1, <2>2, <3>2, EndsTyped DEF Gives
    <3>4. DiskTyped' BY <2>2 DEF Gives, Typed, DiskTyped, disk
    <3>5. RestTyped' BY <1>3, <1>5, <3>1 DEF Begin
    <3> QED BY <3>3, <3>4, <3>5 DEF Typed
  <2>3. CASE NextFile(k, 1, "DOWNLOADING", bytes[j], bytes[j]) /\ UNCHANGED bytes
    <3>1. 1 \in 1..(NumFiles + 1) BY FileEnds
    <3>2. "DOWNLOADING" \in States BY DEF States
    <3> QED BY <1>1, <1>2, <1>3, <1>4, <1>5, <2>3, <3>1, <3>2, NextFileTyped DEF Begin, Typed
  <2> QED BY <1>5, <2>1, <2>2, <2>3 DEF Begin
<1>6. CASE Progress(k)
  <2> PICK v \in (task[k].reported + 1)..(task[k].file * FileSize) :
        \/ /\ state[j] = "DOWNLOADING" /\ v >= bytes[j]
           /\ bytes' = [bytes EXCEPT ![j] = v]
           /\ task' = [task EXCEPT ![k].reported = v]
           /\ UNCHANGED <<state, disk>>
        \/ /\ Fails(k, state[j]) /\ UNCHANGED bytes
        \/ /\ task' = [task EXCEPT ![k].reported = bytes[j]]
           /\ UNCHANGED <<state, bytes, disk>>
    BY <1>6 DEF Progress
  <2>1. task[k].file \in Files BY <1>6 DEF Progress, Runs, Typed, TasksTyped
  <2>2. v \in 0..Total
    <3>1. task[k].file * FileSize \in 0..Total BY <2>1, FileEnds
    <3> QED BY <1>2, <3>1, FileEnds
  <2>3. ASSUME NEW r \in 0..Total, task' = [task EXCEPT ![k].reported = r] PROVE TasksTyped'
    BY <2>3 DEF Typed, TasksTyped, TaskRecords, Job
  <2>4. CASE /\ bytes' = [bytes EXCEPT ![j] = v]
             /\ task' = [task EXCEPT ![k].reported = v]
             /\ UNCHANGED <<state, disk>>
    <3>1. bytes' \in [Jobs -> 0..Total] BY <2>2, <2>4 DEF Typed, RestTyped
    <3> QED BY <1>3, <1>6, <2>2, <2>3, <2>4, <3>1 DEF Progress, Typed, DiskTyped, disk
  <2>5. CASE Fails(k, state[j]) /\ UNCHANGED bytes
    BY <1>1, <1>2, <1>3, <1>4, <1>6, <2>5, EndsTyped
    DEF Progress, Fails, Gives, Typed, DiskTyped, disk, States, Terminal, Outcomes
  <2>6. CASE task' = [task EXCEPT ![k].reported = bytes[j]] /\ UNCHANGED <<state, bytes, disk>>
    BY <1>2, <1>3, <1>4, <1>6, <2>3, <2>6 DEF Progress, Typed, DiskTyped, disk
  <2> QED BY <2>4, <2>5, <2>6
<1>7. CASE TransferDone(k)
  <2>1. task[k].file \in Files /\ 0 \in 0..Total
    BY <1>7, FileEnds DEF TransferDone, Runs, Typed, TasksTyped
  <2>2. DiskTyped' BY <1>2, <1>7, <2>1 DEF TransferDone, Typed, DiskTyped
  <2>3. state' \in [Jobs -> States] /\ TasksTyped'
    <3>1. CASE state[j] = "DOWNLOADING"
      BY <1>1, <1>2, <1>7, <2>1, <3>1, ContinuesTyped DEF TransferDone
    <3>2. CASE state[j] # "DOWNLOADING"
      BY <1>1, <1>2, <1>7, <3>2, EndsTyped DEF TransferDone, Outcomes
    <3> QED BY <3>1, <3>2
  <2> QED BY <1>3, <1>4, <1>7, <2>2, <2>3 DEF TransferDone, Typed
<1>8. CASE GoesWrong(k)
  BY <1>1, <1>2, <1>3, <1>4, <1>8, EndsTyped
  DEF GoesWrong, Fails, Gives, Typed, DiskTyped, disk, States, Terminal, Outcomes
<1>9. CASE HashOk(k)
  <2> DEFINE c == task[k].file * FileSize
             ahead == c > task[k].seen
  <2>1. task[k].file \in Files BY <1>9 DEF HashOk, Runs, Typed, TasksTyped
  <2>2. c \in 0..Total BY <2>1, FileEnds
  <2>3. CASE Fails(k, state[j]) /\ UNCHANGED bytes
    BY <1>1, <1>2, <1>3, <1>4, <1>9, <2>3, EndsTyped
    DEF HashOk, Fails, Gives, Typed, DiskTyped, disk, States, Terminal, Outcomes
  <2>4. CASE /\ bytes' = IF ahead /\ state[j] = "DOWNLOADING" THEN [bytes EXCEPT ![j] = c] ELSE bytes
             /\ NextFile(k, task[k].file + 1, state[j], bytes'[j],
                         IF ahead THEN bytes'[j] ELSE task[k].seen)
    <3>1. bytes' \in [Jobs -> 0..Total]
      <4> HIDE DEF c
      <4> QED BY <1>2, <2>2, <2>4 DEF Typed, RestTyped
    <3>2. bytes'[j] \in 0..Total BY <1>2, <3>1
    <3>3. (IF ahead THEN bytes'[j] ELSE task[k].seen) \in 0..Total BY <1>2, <3>2
    <3>4. task[k].file + 1 \in 1..(NumFiles + 1) BY <2>1, FileEnds DEF Files
    <3> QED BY <1>1, <1>2, <1>3, <1>9, <2>4, <3>1, <3>2, <3>3, <3>4, NextFileTyped DEF HashOk, Typed
  <2> QED BY <1>9, <2>3, <2>4 DEF HashOk
<1>10. CASE Cancelled(k)
  <2>1. DiskTyped' BY <1>2, <1>10 DEF Cancelled, Typed, DiskTyped
  <2> QED BY <1>1, <1>2, <1>3, <1>4, <1>10, <2>1, EndsTyped DEF Cancelled, Typed, Outcomes
<1>11. CASE Finished(k)
  <2>1. TasksTyped' BY <1>11, FreeTyped DEF Finished, Typed, TasksTyped, Free, Job
  <2>2. state' \in [Jobs -> States]
    BY <1>2, <1>11 DEF Finished, AfterRaising, Typed, States, Terminal
  <2> QED BY <1>2, <1>11, <2>1, <2>2 DEF Finished, Typed, DiskTyped, RestTyped, disk
<1> QED BY <1>5, <1>6, <1>7, <1>8, <1>9, <1>10, <1>11

\* All tasks are gone.
LEMMA GoneTyped ==
  ASSUME Typed, Gone
  PROVE  TasksTyped' /\ tracked' \in [Jobs -> Tasks \union {None}]
         /\ cancelOn' \in [Jobs -> Tasks \union {None}] /\ up' = "down"
BY FreeTyped DEF Gone, TasksTyped, Free, Job

\* The process and the list.
LEMMA ProcessTyped ==
  ASSUME Typed,
         \/ ClearFinished \/ Crash \/ Shutdown \/ Exit \/ Startup
         \/ \E k \in Tasks : CrashInPublish(k)
  PROVE  Typed'
<1>0. stops < MaxStops => stops + 1 \in 0..MaxStops BY StopsAssumption DEF Typed, RestTyped
<1>1. CASE ClearFinished
  BY <1>1 DEF ClearFinished, Typed, TasksTyped, DiskTyped, RestTyped, Job
<1>2. CASE Crash
  BY <1>0, <1>2, GoneTyped DEF Crash, Typed, DiskTyped, RestTyped, records, disk
<1>3. CASE Exit
  BY <1>3, GoneTyped DEF Exit, Typed, DiskTyped, RestTyped, records, disk
<1>4. CASE Shutdown
  <2>1. TasksTyped' BY <1>4 DEF Shutdown, Typed, TasksTyped, TaskRecords, Job
  <2>2. state' \in [Jobs -> States] BY <1>4 DEF Shutdown, Typed, States
  <2> QED BY <1>0, <1>4, <2>1, <2>2 DEF Shutdown, Typed, DiskTyped, RestTyped, disk
<1>5. CASE Startup
  <2>1. PICK k \in [Pending -> Tasks] :
          /\ task' = [t \in Tasks |->
                     IF \E j \in Pending : k[j] = t
                       THEN [Free EXCEPT !.at = "new", !.job = CHOOSE j \in Pending : k[j] = t]
                       ELSE Free]
          /\ tracked' = [j \in Jobs |-> IF j \in Pending THEN k[j] ELSE None]
    BY <1>5 DEF Startup
  <2>2. ASSUME NEW t \in Tasks
        PROVE  /\ task'[t] \in TaskRecords /\ task'[t].at \notin {"transfer", "hash"}
               /\ task'[t].at # "free" => task'[t].job \in Jobs
    <3>1. CASE \E j \in Pending : k[j] = t
      <4> DEFINE i == CHOOSE j \in Pending : k[j] = t
      <4>1. i \in Jobs BY <3>1 DEF Pending
      <4>2. task'[t] = [Free EXCEPT !.at = "new", !.job = i] BY <2>1, <3>1
      <4> HIDE DEF i
      <4> QED BY <4>1, <4>2, FreeTyped
    <3>2. CASE ~\E j \in Pending : k[j] = t
      <4>1. task'[t] = Free BY <2>1, <3>2
      <4>2. Free \in TaskRecords BY FreeTyped
      <4>3. Free.at = "free" BY DEF Free
      <4> QED BY <4>1, <4>2, <4>3
    <3> QED BY <3>1, <3>2
  <2>3. task' \in [Tasks -> TaskRecords] BY <2>1, <2>2
  <2>5. TasksTyped' BY <2>2, <2>3 DEF TasksTyped, Job
  <2>6. state' \in [Jobs -> States] BY <1>5 DEF Startup, Typed, States
  <2>7. tracked' \in [Jobs -> Tasks \union {None}] BY <2>1
  <2> QED BY <1>5, <2>5, <2>6, <2>7 DEF Startup, Typed, DiskTyped, RestTyped, disk
<1>6. ASSUME NEW k \in Tasks, CrashInPublish(k) PROVE Typed'
  <2>1. Job(k) \in Jobs BY <1>6 DEF CrashInPublish, Runs, Typed, TasksTyped
  <2>2. DiskTyped'
    <3> PICK moved \in SUBSET (staged[Job(k)] \ {Cache}) :
          /\ published' = [published EXCEPT ![Job(k)] = @ \union moved]
          /\ \/ staged' = [staged EXCEPT ![Job(k)] = @ \ moved]
             \/ Discard(Job(k))
      BY <1>6 DEF CrashInPublish
    <3>1. /\ staged \in [Jobs -> SUBSET (Files \union {Cache})] /\ published \in [Jobs -> SUBSET Files]
          /\ moved \subseteq Files
      BY <2>1 DEF Typed, DiskTyped
    <3>2. published' \in [Jobs -> SUBSET Files] BY <2>1, <3>1
    <3>3. staged' \in [Jobs -> SUBSET (Files \union {Cache})] BY <2>1, <3>1 DEF Discard
    <3> QED BY <3>2, <3>3 DEF DiskTyped
  <2>3. bytes' \in [Jobs -> 0..Total] BY <1>6, <2>1, FileEnds DEF CrashInPublish, Typed, RestTyped
  <2> QED BY <1>0, <1>6, <2>2, <2>3, GoneTyped DEF CrashInPublish, Typed, RestTyped
<1> QED BY <1>1, <1>2, <1>3, <1>4, <1>5, <1>6

\* Types, for any number of jobs, tasks, files and stops, and whether or not
\* callbacks are prompt.
LEMMA StepTyped == ASSUME Typed, [Next]_vars PROVE Typed'
<1>1. CASE Next BY <1>1, RequestTyped, WorkerTyped, ProcessTyped DEF Next
<1>2. CASE UNCHANGED vars
  BY <1>2 DEF vars, records, disk, Typed, TasksTyped, DiskTyped, RestTyped, Job
<1> QED BY <1>1, <1>2

\* The types hold at first.
LEMMA InitTyped == Init => Typed
<1> SUFFICES ASSUME Init PROVE Typed OBVIOUS
<1>1. TasksTyped BY FreeTyped DEF Init, TasksTyped, Free, Job
<1>2. 0 \in 0..Total /\ 0 \in 0..MaxStops BY FileEnds, StopsAssumption
<1> QED BY <1>1, <1>2 DEF Init, Typed, States, DiskTyped, RestTyped

\* They are those of TypeOK.
LEMMA TypedIsTypeOK == Typed => TypeOK
BY DEF Typed, TypeOK, States, TasksTyped, TaskRecords, Outcomes, DiskTyped, RestTyped

\* Types hold whether or not callbacks are prompt.
THEOREM DownloadsTyped == Spec => []TypeOK
BY TypedIsTypeOK, InitTyped, StepTyped, PTL DEF Spec

----------------------------------------------------------------------------
(* One worker for each job                                                 *)

\* What a worker of job j at task k relies on: the job's state, the files that
\* are staged, and how far the reported progress can have come.
WorkerOK(j, k) ==
  /\ task[k].at # "free" /\ task[k].job = j /\ state[j] # "none"
  /\ task[k].at = "new" /\ ~task[k].cancel => state[j] = "QUEUED"
  /\ task[k].at \in {"transfer", "hash"} /\ ~task[k].cancel => state[j] = "DOWNLOADING"
  /\ Active(k) /\ state[j] = "CANCELLED" => cancelOn[j] = k
  /\ task[k].at \in {"transfer", "hash"} /\ state[j] = "DOWNLOADING" =>
       /\ 1..(task[k].file - 1) \subseteq staged[j]
       /\ bytes[j] <= task[k].seen \/ bytes[j] <= task[k].file * FileSize
       /\ task[k].at = "transfer" => bytes[j] <= task[k].reported
       /\ task[k].at = "hash" => task[k].file \in staged[j]

\* A cancel() that waits belongs to a cancelled job, and one that is done has
\* cleaned up.
JobOK(j) ==
  /\ tracked[j] # None => WorkerOK(j, tracked[j])
  /\ cancelOn[j] # None => state[j] = "CANCELLED"
  /\ stops = 0 /\ state[j] = "CANCELLED" /\ cancelOn[j] = None => staged[j] = {}
  /\ up = "down" => tracked[j] = None /\ cancelOn[j] = None

AllTracked == \A k \in Tasks : task[k].at # "free" => tracked[Job(k)] = k

JobsInv == Typed /\ AllTracked /\ \A j \in Jobs : JobOK(j)

\* A step that touches one job, its task and no other.
LEMMA OneJob ==
  ASSUME JobsInv, Typed', NEW j \in Jobs,
         \A i \in Jobs \ {j} : /\ state'[i] = state[i] /\ bytes'[i] = bytes[i] /\ staged'[i] = staged[i]
                              /\ tracked'[i] = tracked[i] /\ cancelOn'[i] = cancelOn[i],
         up' = up, stops' = stops,
         \A l \in Tasks : l # tracked[j] /\ l # tracked'[j] => task'[l] = task[l],
         tracked'[j] \in {None, tracked[j]} \/ (tracked[j] = None /\ task[tracked'[j]].at = "free"),
         tracked'[j] = None /\ tracked[j] # None => task'[tracked[j]].at = "free",
         JobOK(j)'
  PROVE  JobsInv'
<1>1. ASSUME NEW i \in Jobs \ {j} PROVE JobOK(i)'
  <2>1. tracked[i] \in Tasks \union {None} BY DEF JobsInv, Typed, RestTyped
  <2>2. ASSUME tracked[i] # None PROVE task'[tracked[i]] = task[tracked[i]]
    <3>1. task[tracked[i]].at # "free" /\ task[tracked[i]].job = i
      BY <2>2 DEF JobsInv, JobOK, WorkerOK
    <3>2. tracked[i] # tracked[j]
      BY <2>2, <3>1 DEF JobsInv, JobOK, WorkerOK
    <3>3. tracked[i] # tracked'[j] BY <2>2, <3>1, <3>2
    <3> QED BY <2>1, <2>2, <3>2, <3>3
  <2>3. JobOK(i) BY DEF JobsInv
  <2> QED BY <2>2, <2>3 DEF JobOK, WorkerOK, Active
<1>2. ASSUME NEW l \in Tasks, task'[l].at # "free" PROVE tracked'[task'[l].job] = l
  <2>1. CASE l = tracked'[j]
    BY <2>1, NamesAssumption DEF JobOK, WorkerOK
  <2>2. CASE l # tracked'[j]
    <3>1. l # tracked[j] BY <1>2, <2>2, NamesAssumption
    <3>2. task'[l] = task[l] BY <2>2, <3>1
    <3>3. task[l].job \in Jobs /\ tracked[task[l].job] = l
      BY <1>2, <3>2 DEF JobsInv, Typed, TasksTyped, AllTracked, Job
    <3>4. task[l].job # j BY <3>1, <3>3
    <3> QED BY <3>2, <3>3, <3>4
  <2> QED BY <2>1, <2>2
<1>3. AllTracked' BY <1>2 DEF AllTracked, Job
<1> QED BY <1>1, <1>3 DEF JobsInv

\* With prompt callbacks a request finds no ended task of its job.
LEMMA RequestFinds ==
  ASSUME JobsInv, Prompt, NEW j \in Jobs, Request(j)
  PROVE  /\ up = "up" /\ (Active(tracked[j]) \/ tracked[j] = None)
         /\ Active(tracked[j]) => tracked[j] \in Tasks
<1>1. up = "up" BY DEF Request
<1>2. tracked[j] \in Tasks \union {None} BY DEF JobsInv, Typed, RestTyped
<1>3. ASSUME tracked[j] # None PROVE Active(tracked[j])
  <2> DEFINE k == tracked[j]
  <2>1. task[k].at # "free" /\ task[k].job = j BY <1>3 DEF JobsInv, JobOK, WorkerOK
  <2>2. k \in Tasks BY <1>2, <1>3
  <2>3. task[k].at # "ended" BY <2>1, <2>2 DEF Request
  <2>4. task[k].at \in {"free", "new", "transfer", "hash", "ended"}
    BY <2>2 DEF JobsInv, Typed, TasksTyped, TaskRecords
  <2> QED BY <1>3, <2>1, <2>3, <2>4 DEF Active
<1> QED BY <1>1, <1>2, <1>3 DEF Active

\* A fresh task for a queued job that has none.
LEMMA StartOK ==
  ASSUME JobsInv, Typed', NEW j \in Jobs, tracked[j] = None, Start(j), up = "up",
         state' = [state EXCEPT ![j] = "QUEUED"], state[j] # "CANCELLED",
         \A i \in Jobs \ {j} : bytes'[i] = bytes[i],
         UNCHANGED <<staged, cancelOn, up, stops>>
  PROVE  JobsInv'
<1> PICK k \in Names :
      /\ task' = [task EXCEPT ![k] = [Free EXCEPT !.at = "new", !.job = j]]
      /\ tracked' = [tracked EXCEPT ![j] = k]
  BY DEF Start
<1>1. k \in Tasks /\ task[k].at = "free" BY DEF Names
<1>2. /\ task'[k].at = "new" /\ task'[k].job = j /\ \A l \in Tasks \ {k} : task'[l] = task[l]
  BY <1>1, FreeTyped DEF JobsInv, Typed, TasksTyped
<1>3. tracked'[j] = k /\ \A i \in Jobs \ {j} : tracked'[i] = tracked[i]
  BY DEF JobsInv, Typed, RestTyped
<1>4. state'[j] = "QUEUED" /\ \A i \in Jobs \ {j} : state'[i] = state[i]
  BY DEF JobsInv, Typed
<1>5. cancelOn[j] = None BY DEF JobsInv, JobOK
<1>6. JobOK(j)' BY <1>1, <1>2, <1>3, <1>4, <1>5 DEF JobOK, WorkerOK
<1> QED BY <1>1, <1>2, <1>3, <1>4, <1>6, OneJob

\* A step that starts and forgets no task.
LEMMA SameTask ==
  ASSUME JobsInv, Typed', NEW j \in Jobs, UNCHANGED <<tracked, up, stops>>,
         \A i \in Jobs \ {j} : state'[i] = state[i] /\ bytes'[i] = bytes[i] /\ staged'[i] = staged[i],
         \A i \in Jobs \ {j} : cancelOn'[i] = cancelOn[i],
         \A l \in Tasks \ {tracked[j]} : task'[l] = task[l],
         JobOK(j)'
  PROVE  JobsInv'
<1>1. \A l \in Tasks : l # tracked[j] /\ l # tracked'[j] => task'[l] = task[l] OBVIOUS
<1>2. tracked' = tracked /\ tracked'[j] \in {None, tracked[j]} OBVIOUS
<1>3. \A i \in Jobs \ {j} : /\ state'[i] = state[i] /\ bytes'[i] = bytes[i] /\ staged'[i] = staged[i]
                            /\ tracked'[i] = tracked[i] /\ cancelOn'[i] = cancelOn[i]
  OBVIOUS
<1>4. /\ up' = up /\ stops' = stops
      /\ tracked'[j] \in {None, tracked[j]} \/ (tracked[j] = None /\ task[tracked'[j]].at = "free")
      /\ tracked'[j] = None /\ tracked[j] # None => task'[tracked[j]].at = "free"
  BY <1>2
<1> QED BY <1>1, <1>3, <1>4, OneJob

\* The requests.  resume() and redownload() start a task only where there is
\* none; pause() and cancel() reach the task there is.
LEMMA RequestKeeps ==
  ASSUME JobsInv, Typed', Prompt, NEW j \in Jobs,
         \/ Create(j) \/ Resume(j) \/ Redownload(j) \/ Pause(j)
         \/ Cancel(j) \/ CancelEnds(j) \/ Delete(j)
  PROVE  JobsInv'
<1>0. /\ tracked[j] # None => WorkerOK(j, tracked[j])
      /\ cancelOn[j] # None => state[j] = "CANCELLED"
      /\ tracked[j] \in Tasks \union {None} /\ JobOK(j)
  BY DEF JobsInv, JobOK, Typed, RestTyped
<1>1. CASE Create(j)
  <2>1. state[j] = "none" /\ tracked[j] = None BY <1>0, <1>1 DEF Create, CreateJob, WorkerOK
  <2> QED BY <1>1, <2>1, StartOK DEF Create, CreateJob, disk
<1>2. CASE Resume(j)
  <2>1. state[j] # "CANCELLED" BY <1>2 DEF Resume, MayBecome
  <2>2. tracked[j] = None /\ up = "up" BY <1>2, RequestFinds DEF Resume
  <2> QED BY <1>2, <2>1, <2>2, StartOK DEF Resume, disk
<1>3. CASE Redownload(j)
  <2>1. tracked[j] = None /\ up = "up" BY <1>3, RequestFinds DEF Redownload
  <2>2. \A i \in Jobs \ {j} : bytes'[i] = bytes[i] BY <1>3 DEF Redownload, JobsInv, Typed, RestTyped
  <2> QED BY <1>3, <2>1, <2>2, StartOK DEF Redownload, disk
<1>4. CASE Pause(j)
  <2>1. /\ state[j] = "DOWNLOADING" /\ state'[j] = "PAUSED"
        /\ \A i \in Jobs \ {j} : state'[i] = state[i]
        /\ UNCHANGED <<bytes, staged, tracked, cancelOn, up, stops>>
    <3>1. MayBecome(state[j], "PAUSED") BY <1>4 DEF Pause
    <3>2. state[j] = "DOWNLOADING" BY <3>1 DEF MayBecome
    <3> QED BY <1>4, <3>2 DEF Pause, JobsInv, Typed, disk
  <2>2. up = "up" /\ cancelOn[j] = None BY <1>0, <1>4, <2>1, RequestFinds DEF Pause
  <2>3. CASE Active(tracked[j])
    <3>1. /\ tracked[j] \in Tasks /\ task' = [task EXCEPT ![tracked[j]].cancel = TRUE]
      BY <1>4, <2>3, RequestFinds DEF Pause
    <3>2. /\ task'[tracked[j]].cancel = TRUE /\ task'[tracked[j]].at = task[tracked[j]].at
          /\ task'[tracked[j]].job = task[tracked[j]].job
          /\ \A l \in Tasks \ {tracked[j]} : task'[l] = task[l]
      BY <3>1 DEF JobsInv, Typed, TasksTyped, TaskRecords
    <3>3. JobOK(j)' BY <1>0, <2>1, <2>2, <3>1, <3>2 DEF JobOK, WorkerOK
    <3> QED BY <2>1, <3>2, <3>3, SameTask
  <2>4. CASE ~Active(tracked[j])
    <3>1. tracked[j] = None /\ task' = task BY <1>4, <2>4, RequestFinds DEF Pause
    <3>2. JobOK(j)' BY <2>1, <2>2, <3>1 DEF JobOK
    <3> QED BY <2>1, <3>1, <3>2, SameTask
  <2> QED BY <2>3, <2>4
<1>5. CASE Cancel(j)
  <2>1. /\ state'[j] = "CANCELLED" /\ state[j] # "CANCELLED"
        /\ \A i \in Jobs \ {j} : state'[i] = state[i]
        /\ UNCHANGED <<bytes, tracked, up, stops>>
    <3>1. MayBecome(state[j], "CANCELLED") BY <1>5 DEF Cancel
    <3>2. state[j] # "CANCELLED" BY <3>1 DEF MayBecome
    <3> QED BY <1>5, <3>2 DEF Cancel, JobsInv, Typed
  <2>2. up = "up" BY <1>5, RequestFinds DEF Cancel
  <2>3. CASE Active(tracked[j])
    <3>1. /\ tracked[j] \in Tasks /\ tracked[j] # None
          /\ task' = [task EXCEPT ![tracked[j]].cancel = TRUE]
          /\ cancelOn' = [cancelOn EXCEPT ![j] = tracked[j]] /\ staged' = staged
      BY <1>5, <2>3, RequestFinds DEF Cancel, Active
    <3>2. /\ task'[tracked[j]].cancel = TRUE /\ task'[tracked[j]].at = task[tracked[j]].at
          /\ task'[tracked[j]].job = task[tracked[j]].job
          /\ \A l \in Tasks \ {tracked[j]} : task'[l] = task[l]
      BY <3>1 DEF JobsInv, Typed, TasksTyped, TaskRecords
    <3>3. cancelOn'[j] = tracked[j] /\ \A i \in Jobs \ {j} : cancelOn'[i] = cancelOn[i]
      BY <3>1 DEF JobsInv, Typed, RestTyped
    <3>4. JobOK(j)' BY <1>0, <2>1, <2>2, <3>1, <3>2, <3>3 DEF JobOK, WorkerOK
    <3> QED BY <2>1, <3>1, <3>2, <3>3, <3>4, SameTask
  <2>4. CASE ~Active(tracked[j])
    <3>1. tracked[j] = None /\ task' = task /\ cancelOn' = cancelOn /\ Discard(j)
      BY <1>5, <2>4, RequestFinds DEF Cancel
    <3>2. staged'[j] = {} /\ \A i \in Jobs \ {j} : staged'[i] = staged[i]
      BY <3>1 DEF Discard, JobsInv, Typed, DiskTyped
    <3>3. JobOK(j)' BY <2>1, <2>2, <3>1, <3>2 DEF JobOK
    <3> QED BY <2>1, <3>1, <3>2, <3>3, SameTask
  <2> QED BY <2>3, <2>4
<1>6. CASE CancelEnds(j)
  <2>1. /\ cancelOn[j] # None /\ task[cancelOn[j]].at = "free" /\ state[j] = "CANCELLED"
        /\ UNCHANGED <<state, bytes, task, tracked, up, stops>>
    BY <1>0, <1>6 DEF CancelEnds, records
  <2>2. /\ staged'[j] = {} /\ \A i \in Jobs \ {j} : staged'[i] = staged[i]
        /\ cancelOn'[j] = None /\ \A i \in Jobs \ {j} : cancelOn'[i] = cancelOn[i]
    BY <1>6 DEF CancelEnds, Discard, JobsInv, Typed, DiskTyped, RestTyped
  <2>3. tracked[j] # None => WorkerOK(j, tracked[j])'
    <3>1. tracked[j] # None => ~Active(tracked[j])
      BY <1>0, <2>1 DEF WorkerOK, Active
    <3> QED BY <1>0, <2>1, <2>2, <3>1 DEF WorkerOK, Active
  <2>4. up # "down" BY <1>0, <2>1 DEF JobOK
  <2>5. JobOK(j)' BY <2>1, <2>2, <2>3, <2>4 DEF JobOK
  <2> QED BY <2>1, <2>2, <2>5, SameTask
<1>7. CASE Delete(j)
  BY <1>7 DEF Delete, JobsInv, JobOK, AllTracked, WorkerOK, Active, Job, records
<1> QED BY <1>1, <1>2, <1>3, <1>4, <1>5, <1>6, <1>7

----------------------------------------------------------------------------
(* The worker                                                              *)

\* A worker is its job's tracked task; unless it is cancelled the job waits
\* for it or downloads.
LEMMA WorkerIs ==
  ASSUME JobsInv, NEW k \in Tasks, task[k].at # "free"
  PROVE  /\ Job(k) \in Jobs /\ tracked[Job(k)] = k /\ k # None
         /\ WorkerOK(Job(k), k) /\ JobOK(Job(k)) /\ up # "down"
<1>1. Job(k) \in Jobs /\ tracked[Job(k)] = k /\ k # None
  BY NamesAssumption DEF JobsInv, Typed, TasksTyped, AllTracked
<1>2. JobOK(Job(k)) BY <1>1 DEF JobsInv
<1> QED BY <1>1, <1>2 DEF JobOK

\* What a step of a worker has to see to.
LEMMA WorkerStep ==
  ASSUME JobsInv, Typed', NEW k \in Tasks, NEW j \in Jobs, j = Job(k), Active(k), UNCHANGED <<tracked, cancelOn, up, stops>>,
         \A l \in Tasks \ {k} : task'[l] = task[l],
         \A i \in Jobs \ {j} : state'[i] = state[i] /\ bytes'[i] = bytes[i] /\ staged'[i] = staged[i],
         state'[j] = "CANCELLED" <=> state[j] = "CANCELLED",
         WorkerOK(j, k)'
  PROVE  JobsInv'
<1>1. tracked[j] = k /\ k # None /\ WorkerOK(j, k) /\ JobOK(j) /\ up # "down"
  BY WorkerIs DEF Active
<1>2. state[j] = "CANCELLED" => cancelOn[j] = k BY <1>1 DEF WorkerOK
<1>3. JobOK(j)' BY <1>1, <1>2 DEF JobOK
<1> QED BY <1>1, <1>3, SameTask

\* A worker that ends leaves nothing to see to.
LEMMA WorkerEnds ==
  ASSUME JobsInv, Typed', NEW k \in Tasks, NEW j \in Jobs, j = Job(k), Active(k), UNCHANGED <<tracked, cancelOn, up, stops>>,
         NEW o, NEW s, Ends(k, o, s), s # "none", s = "CANCELLED" <=> state[j] = "CANCELLED",
         \A i \in Jobs \ {j} : bytes'[i] = bytes[i] /\ staged'[i] = staged[i]
  PROVE  JobsInv' /\ state'[j] = s
<1>1. j \in Jobs OBVIOUS
<1>2. state'[j] = s /\ \A i \in Jobs \ {j} : state'[i] = state[i]
  BY <1>1 DEF Ends, SetState, JobsInv, Typed
<1>3. /\ task'[k].at = "ended" /\ task'[k].job = task[k].job
      /\ \A l \in Tasks \ {k} : task'[l] = task[l]
  BY DEF Ends, JobsInv, Typed, TasksTyped, TaskRecords
<1>4. WorkerOK(j, k)' BY <1>2, <1>3 DEF WorkerOK, Job, Active
<1> QED BY <1>2, <1>3, <1>4, WorkerStep

\* A worker that goes on with a file.
LEMMA WorkerContinues ==
  ASSUME JobsInv, Typed', NEW k \in Tasks, NEW j \in Jobs, j = Job(k), Active(k), ~task[k].cancel,
         UNCHANGED <<tracked, cancelOn, up, stops>>,
         NEW at \in {"transfer", "hash"}, NEW f \in Files,
         NEW seen \in 0..Total, NEW reported \in 0..Total,
         Continues(k, "DOWNLOADING", at, f, seen, reported), state[j] # "CANCELLED",
         \A i \in Jobs \ {j} : bytes'[i] = bytes[i] /\ staged'[i] = staged[i],
         1..(f - 1) \subseteq staged'[j],
         bytes'[j] <= seen \/ bytes'[j] <= f * FileSize,
         at = "transfer" => bytes'[j] <= reported,
         at = "hash" => f \in staged'[j]
  PROVE  JobsInv' /\ state'[j] = "DOWNLOADING"
<1>1. j \in Jobs OBVIOUS
<1>2. state'[j] = "DOWNLOADING" /\ \A i \in Jobs \ {j} : state'[i] = state[i]
  BY <1>1 DEF Continues, SetState, JobsInv, Typed
<1>3. \A l \in Tasks \ {k} : task'[l] = task[l]
  BY DEF Continues, JobsInv, Typed, TasksTyped
<1>4. task'[k] = [task[k] EXCEPT !.at = at, !.file = f, !.seen = seen, !.reported = reported]
  BY DEF Continues, JobsInv, Typed, TasksTyped
<1>5. /\ task'[k].at = at /\ task'[k].job = task[k].job /\ task'[k].file = f /\ task'[k].seen = seen
      /\ task'[k].reported = reported /\ task'[k].cancel = task[k].cancel
  BY <1>4 DEF JobsInv, Typed, TasksTyped, TaskRecords
<1>6. WorkerOK(j, k)' BY <1>2, <1>5 DEF WorkerOK, Job
<1> QED BY <1>2, <1>3, <1>6, WorkerStep

\* The head of the loop for a job that downloads: the files before f are
\* staged, and the progress is what the worker has seen or less.
LEMMA NextFileKeeps ==
  ASSUME JobsInv, Typed', NEW k \in Tasks, NEW j \in Jobs, j = Job(k), Active(k), ~task[k].cancel,
         UNCHANGED <<tracked, cancelOn, up, stops>>,
         NEW f \in 1..(NumFiles + 1), NEW seen \in 0..Total,
         NextFile(k, f, "DOWNLOADING", bytes'[j], seen), state[j] # "CANCELLED",
         \A i \in Jobs \ {j} : bytes'[i] = bytes[i],
         1..(f - 1) \subseteq staged[j], bytes'[j] <= seen
  PROVE  JobsInv' /\ (state'[j] = "COMPLETED" => published'[j] = Files)
<1> DEFINE b == bytes'[j]
<1>1. /\ staged[j] \subseteq Files \union {Cache} /\ published[j] \subseteq Files
      /\ staged \in [Jobs -> SUBSET (Files \union {Cache})]
      /\ published \in [Jobs -> SUBSET Files]
  BY DEF JobsInv, Typed, DiskTyped
<1>2. b \in 0..Total /\ 0 \in 0..Total /\ NumFiles \in Nat
  BY <1>1, FileEnds DEF Typed, RestTyped
<1>3. f <= NumFiles => f \in Files BY <1>2 DEF Files
<1>4. CASE f > NumFiles /\ Publish(j) /\ Ends(k, "returned", "COMPLETED")
  <2>1. \A i \in Jobs \ {j} : staged'[i] = staged[i] BY <1>1, <1>4 DEF Publish, Discard
  <2>2. published'[j] = published[j] \union (staged[j] \ {Cache})
    BY <1>1, <1>4 DEF Publish
  <2>3. Files \subseteq staged[j] \ {Cache}
    <3>1. f - 1 = NumFiles BY <1>2, <1>4
    <3> QED BY <3>1, FileEnds DEF Files, Cache
  <2>4. published'[j] = Files BY <1>1, <2>2, <2>3
  <2> QED BY <1>4, <2>1, <2>4, WorkerEnds
<1>5. CASE Gives(k, "FAILED")
  BY <1>5, WorkerEnds DEF Gives, disk
<1>6. CASE /\ f <= NumFiles /\ Continues(k, "DOWNLOADING", "transfer", f, seen, b)
           /\ staged' = [staged EXCEPT ![j] = @ \union {Cache}]
  <2>1. staged'[j] = staged[j] \union {Cache} /\ \A i \in Jobs \ {j} : staged'[i] = staged[i]
    BY <1>1, <1>6
  <2>2. 1..(f - 1) \subseteq staged'[j] BY <2>1
  <2>3. b <= b BY <1>2
  <2>4. JobsInv' /\ state'[j] = "DOWNLOADING"
    BY <1>2, <1>3, <1>6, <2>1, <2>2, <2>3, WorkerContinues
  <2> QED BY <2>4
<1>7. CASE f \in staged[j] /\ Continues(k, "DOWNLOADING", "hash", f, seen, 0) /\ UNCHANGED disk
  <2>1. f \in Files BY <1>1, <1>7, FileEnds DEF Cache
  <2>2. staged' = staged BY <1>7 DEF disk
  <2>3. JobsInv' /\ state'[j] = "DOWNLOADING"
    BY <1>2, <1>7, <2>1, <2>2, WorkerContinues
  <2> QED BY <2>3
<1> QED BY <1>4, <1>5, <1>6, <1>7 DEF NextFile, Complete, Fails

\* The steps of a worker.  A job they complete has all its files.
LEMMA WorkerKeeps ==
  ASSUME JobsInv, Typed', NEW k \in Tasks,
         \/ Begin(k) \/ Progress(k) \/ TransferDone(k) \/ GoesWrong(k) \/ HashOk(k) \/ Cancelled(k)
  PROVE  /\ JobsInv'
         /\ \A i \in Jobs : state[i] # "COMPLETED" /\ state'[i] = "COMPLETED" => published'[i] = Files
<1>0. task[k].at # "free"
  BY DEF Begin, Progress, TransferDone, GoesWrong, HashOk, Cancelled, Runs, Active
<1> PICK j \in Jobs : j = Job(k) BY <1>0, WorkerIs
<1>1. /\ Active(k) /\ UNCHANGED <<tracked, cancelOn, up, stops>>
  BY NamesAssumption
  DEF Active, Begin, Progress, TransferDone, GoesWrong, HashOk, Cancelled, Runs, Work
<1>2. tracked[j] = k /\ WorkerOK(j, k) BY <1>0, WorkerIs
<1>3. /\ state \in [Jobs -> States] /\ bytes \in [Jobs -> 0..Total]
      /\ staged \in [Jobs -> SUBSET (Files \union {Cache})]
      /\ task[k] \in TaskRecords /\ task[k].seen \in 0..Total /\ task[k].reported \in 0..Total
      /\ bytes[j] \in 0..Total
  BY <1>2 DEF JobsInv, Typed, TasksTyped, DiskTyped, RestTyped, TaskRecords
<1>4. SUFFICES /\ JobsInv'
               /\ state[j] # "COMPLETED" /\ state'[j] = "COMPLETED" => published'[j] = Files
  <2>1. \A i \in Jobs \ {j} : state'[i] = state[i]
    BY <1>3 DEF Begin, Progress, TransferDone, GoesWrong, HashOk, Cancelled, Ends, SetState, Fails,
                Gives, Continues, NextFile, Complete
  <2> QED BY <2>1
<1>5. CASE Begin(k)
  <2>1. state[j] = "QUEUED" BY <1>2, <1>5 DEF Begin, Runs, WorkerOK
  <2>2. MayBecome(state[j], "DOWNLOADING") BY <2>1 DEF MayBecome
  <2>3. CASE /\ DestinationIsComplete(j) /\ bytes' = [bytes EXCEPT ![j] = Total]
             /\ Gives(k, "COMPLETED")
    <3>1. published'[j] = Files
      BY <1>2, <2>3 DEF DestinationIsComplete, Gives, disk, JobsInv, Typed, DiskTyped
    <3>2. \A i \in Jobs \ {j} : bytes'[i] = bytes[i] /\ staged'[i] = staged[i]
      BY <1>3, <2>3 DEF Gives, disk
    <3> QED BY <1>1, <2>1, <2>3, <3>1, <3>2, WorkerEnds DEF Gives
  <2>4. CASE NextFile(k, 1, "DOWNLOADING", bytes[j], bytes[j]) /\ UNCHANGED bytes
    <3>1. 1 \in 1..(NumFiles + 1) /\ 1..(1 - 1) = {} BY FileEnds
    <3>2. ~task[k].cancel BY <1>5 DEF Begin, Runs
    <3>3. bytes'[j] = bytes[j] /\ bytes'[j] <= bytes[j] BY <1>3, <2>4
    <3> QED BY <1>1, <1>3, <2>1, <2>4, <3>1, <3>2, <3>3, NextFileKeeps
  <2> QED BY <1>5, <2>2, <2>3, <2>4 DEF Begin
<1>6. CASE Progress(k)
  <2>1. state[j] = "DOWNLOADING" BY <1>2, <1>6 DEF Progress, Runs, WorkerOK
  <2>2. PICK v \in (task[k].reported + 1)..(task[k].file * FileSize) :
          \/ /\ bytes' = [bytes EXCEPT ![j] = v]
             /\ task' = [task EXCEPT ![k].reported = v]
             /\ UNCHANGED <<state, disk>>
          \/ Fails(k, state[j]) /\ UNCHANGED bytes
    BY <1>6, <2>1 DEF Progress
  <2>3. CASE Fails(k, state[j]) /\ UNCHANGED bytes
    BY <1>1, <2>1, <2>3, WorkerEnds DEF Fails, Gives, disk
  <2>4. CASE /\ bytes' = [bytes EXCEPT ![j] = v]
             /\ task' = [task EXCEPT ![k].reported = v]
             /\ UNCHANGED <<state, disk>>
    <3>1. task[k].file \in Files BY <1>6 DEF Progress, Runs, JobsInv, Typed, TasksTyped
    <3>2. v \in Int /\ v <= task[k].file * FileSize
      <4>1. task[k].file * FileSize \in 0..Total BY <3>1, FileEnds
      <4> QED BY <1>3, <4>1, FileEnds
    <3>3. /\ task'[k] = [task[k] EXCEPT !.reported = v] /\ \A l \in Tasks \ {k} : task'[l] = task[l]
      BY <2>4 DEF JobsInv, Typed, TasksTyped
    <3>4. /\ task'[k].at = task[k].at /\ task'[k].job = task[k].job /\ task'[k].file = task[k].file
          /\ task'[k].seen = task[k].seen /\ task'[k].reported = v
          /\ task'[k].cancel = task[k].cancel
      BY <1>3, <3>3 DEF TaskRecords
    <3>5. bytes'[j] = v /\ \A i \in Jobs \ {j} : bytes'[i] = bytes[i]
      BY <1>2, <1>3, <2>4
    <3>6. task[k].at = "transfer" BY <1>6 DEF Progress, Runs
    <3>7. v <= v BY <3>2
    <3>8. WorkerOK(j, k)'
      BY <1>1, <1>2, <2>1, <2>4, <3>2, <3>4, <3>5, <3>6, <3>7 DEF WorkerOK, disk
    <3>9. task'[k].job = j BY <3>4 DEF Job
    <3> QED BY <1>1, <2>1, <2>4, <3>3, <3>5, <3>8, <3>9, WorkerStep DEF disk
  <2> QED BY <2>2, <2>3, <2>4
<1>7. CASE TransferDone(k)
  <2>1. state[j] = "DOWNLOADING" /\ ~task[k].cancel /\ task[k].at = "transfer"
    BY <1>2, <1>7 DEF TransferDone, Runs, WorkerOK
  <2>2. /\ Continues(k, "DOWNLOADING", "hash", task[k].file, task[k].seen, 0)
        /\ staged' = [staged EXCEPT ![j] = @ \union {Cache, task[k].file}]
        /\ UNCHANGED bytes
    BY <1>7, <2>1 DEF TransferDone
  <2>3. task[k].file \in Files /\ 0 \in 0..Total
    BY <2>1, FileEnds DEF JobsInv, Typed, TasksTyped
  <2>4. /\ staged'[j] = staged[j] \union {Cache, task[k].file}
        /\ \A i \in Jobs \ {j} : staged'[i] = staged[i]
    BY <1>2, <1>3, <2>2
  <2>5. /\ 1..(task[k].file - 1) \subseteq staged'[j] /\ task[k].file \in staged'[j]
        /\ bytes[j] <= task[k].seen \/ bytes[j] <= task[k].file * FileSize
    BY <1>2, <2>1, <2>4 DEF WorkerOK
  <2>6. JobsInv' /\ state'[j] = "DOWNLOADING"
    BY <1>1, <1>3, <2>1, <2>2, <2>3, <2>4, <2>5, WorkerContinues
  <2> QED BY <2>6
<1>8. CASE GoesWrong(k)
  <2>1. state[j] = "DOWNLOADING" BY <1>2, <1>8 DEF GoesWrong, Runs, WorkerOK
  <2> QED BY <1>1, <1>8, <2>1, WorkerEnds DEF GoesWrong, Fails, Gives, disk
<1>9. CASE HashOk(k)
  <2> DEFINE c == task[k].file * FileSize
             ahead == c > task[k].seen
             seen == IF ahead THEN bytes'[j] ELSE task[k].seen
  <2>1. state[j] = "DOWNLOADING" /\ ~task[k].cancel /\ task[k].at = "hash"
    BY <1>2, <1>9 DEF HashOk, Runs, WorkerOK
  <2>2. CASE Fails(k, state[j]) /\ UNCHANGED bytes
    BY <1>1, <2>1, <2>2, WorkerEnds DEF Fails, Gives, disk
  <2>3. CASE /\ bytes' = IF ahead /\ state[j] = "DOWNLOADING" THEN [bytes EXCEPT ![j] = c] ELSE bytes
             /\ NextFile(k, task[k].file + 1, state[j], bytes'[j], seen)
    <3>1. task[k].file \in Files /\ c \in 0..Total
      BY <2>1, FileEnds DEF JobsInv, Typed, TasksTyped
    <3>2. /\ task[k].file + 1 \in 1..(NumFiles + 1) /\ task[k].file \in Nat
          /\ (task[k].file + 1) - 1 = task[k].file
      BY <3>1, FileEnds DEF Files
    <3>3. 1..((task[k].file + 1) - 1) \subseteq staged[j]
      <4>1. 1..(task[k].file - 1) \subseteq staged[j] /\ task[k].file \in staged[j]
        BY <1>2, <2>1 DEF WorkerOK
      <4> QED BY <3>2, <4>1
    <3>4. /\ bytes'[j] = IF ahead THEN c ELSE bytes[j]
          /\ \A i \in Jobs \ {j} : bytes'[i] = bytes[i]
      BY <1>2, <1>3, <2>1, <2>3
    <3>5. bytes[j] <= task[k].seen \/ bytes[j] <= c BY <1>2, <2>1 DEF WorkerOK
    <3>6. seen \in 0..Total /\ bytes'[j] <= seen
      <4> HIDE DEF c
      <4> QED BY <1>3, <3>1, <3>4, <3>5
    <3> HIDE DEF seen, c
    <3> QED BY <1>1, <2>1, <2>3, <3>2, <3>3, <3>4, <3>6, NextFileKeeps
  <2> QED BY <1>9, <2>2, <2>3 DEF HashOk
<1>10. CASE Cancelled(k)
  <2>1. \A i \in Jobs \ {j} : bytes'[i] = bytes[i] /\ staged'[i] = staged[i]
    BY <1>3, <1>10 DEF Cancelled
  <2>2. Ends(k, "cancelled", state[j]) /\ state[j] # "none" BY <1>2, <1>10 DEF Cancelled, WorkerOK
  <2>3. JobsInv' /\ state'[j] = state[j] BY <1>1, <2>1, <2>2, WorkerEnds
  <2> QED BY <2>3
<1> QED BY <1>5, <1>6, <1>7, <1>8, <1>9, <1>10

\* The done callback.
LEMMA FinishedKeeps ==
  ASSUME JobsInv, Typed', NEW k \in Tasks, Finished(k)
  PROVE  JobsInv' /\ \A i \in Jobs : state'[i] = "COMPLETED" => state[i] = "COMPLETED"
<1>0. task[k].at # "free" BY DEF Finished
<1> PICK j \in Jobs : j = Job(k) BY <1>0, WorkerIs
<1>1. /\ task[k].at = "ended" /\ task' = [task EXCEPT ![k] = Free]
      /\ tracked' = [tracked EXCEPT ![j] = None]
      /\ state' = IF task[k].outcome = "raised"
                    THEN [state EXCEPT ![j] = AfterRaising(@)] ELSE state
      /\ UNCHANGED <<bytes, staged, cancelOn, up, stops>>
  BY DEF Finished, disk
<1>2. tracked[j] = k /\ WorkerOK(j, k) /\ JobOK(j) /\ up # "down"
  BY <1>1, WorkerIs
<1>3. /\ \A i \in Jobs \ {j} : state'[i] = state[i] /\ tracked'[i] = tracked[i]
      /\ state'[j] \in {state[j], AfterRaising(state[j])} /\ tracked'[j] = None
  BY <1>1, <1>2 DEF JobsInv, Typed, RestTyped
<1>4. /\ state'[j] = "CANCELLED" <=> state[j] = "CANCELLED"
      /\ state'[j] = "COMPLETED" => state[j] = "COMPLETED"
  BY <1>3 DEF AfterRaising
<1>5. task'[k].at = "free" /\ \A l \in Tasks \ {k} : task'[l] = task[l]
  <2>1. Free.at = "free" BY DEF Free
  <2> QED BY <1>1, <2>1 DEF JobsInv, Typed, TasksTyped
<1>6. JobOK(j)' BY <1>1, <1>2, <1>3, <1>4 DEF JobOK
<1>7. /\ \A i \in Jobs \ {j} : /\ state'[i] = state[i] /\ bytes'[i] = bytes[i] /\ staged'[i] = staged[i]
                               /\ tracked'[i] = tracked[i] /\ cancelOn'[i] = cancelOn[i]
      /\ \A l \in Tasks : l # tracked[j] /\ l # tracked'[j] => task'[l] = task[l]
      /\ tracked'[j] \in {None, tracked[j]} \/ (tracked[j] = None /\ task[tracked'[j]].at = "free")
      /\ tracked'[j] = None /\ tracked[j] # None => task'[tracked[j]].at = "free"
      /\ up' = up /\ stops' = stops
  BY <1>1, <1>2, <1>3, <1>5
<1>8. JobsInv' BY <1>6, <1>7, OneJob
<1> QED BY <1>3, <1>4, <1>8

----------------------------------------------------------------------------
(* The process                                                             *)

\* Without tasks only the files of cancelled jobs are left to see to.
LEMMA GoneKeeps ==
  ASSUME JobsInv, Typed', Gone,
         \A j \in Jobs : stops' = 0 /\ state'[j] = "CANCELLED" => staged'[j] = {}
  PROVE  JobsInv'
BY DEF Gone, JobsInv, JobOK, AllTracked, Free, Job

\* A restart, a shutdown or a crash of the application keeps the jobs and their tasks apart.
LEMMA ProcessKeeps ==
  ASSUME JobsInv, Typed',
         ClearFinished \/ Crash \/ Shutdown \/ Exit \/ Startup \/ \E k \in Tasks : CrashInPublish(k)
  PROVE  JobsInv' /\ \A j \in Jobs : state'[j] = "COMPLETED" => state[j] = "COMPLETED"
<1>0. stops \in Nat /\ stops + 1 # 0 BY StopsAssumption DEF JobsInv, Typed, RestTyped
<1>1. CASE ClearFinished
  <2>1. /\ \A j \in Jobs : staged'[j] = IF state[j] = "FAILED" /\ ~hidden[j] THEN {} ELSE staged[j]
        /\ UNCHANGED <<state, bytes, task, tracked, cancelOn, up, stops>>
    BY <1>1 DEF ClearFinished
  <2>2. \A j \in Jobs : JobOK(j)' BY <2>1 DEF JobsInv, JobOK, WorkerOK, Active
  <2>3. AllTracked' BY <2>1 DEF JobsInv, AllTracked, Job
  <2> QED BY <2>1, <2>2, <2>3 DEF JobsInv
<1>2. CASE Crash BY <1>0, <1>2, GoneKeeps DEF Crash, records
<1>3. CASE \E k \in Tasks : CrashInPublish(k) BY <1>0, <1>3, GoneKeeps DEF CrashInPublish
<1>4. CASE Exit
  <2>1. \A j \in Jobs : stops' = 0 /\ state'[j] = "CANCELLED" => staged'[j] = {}
    BY <1>4 DEF Exit, records, disk, JobsInv, JobOK
  <2> QED BY <1>4, <2>1, GoneKeeps DEF Exit, records
<1>5. CASE Shutdown
  <2> DEFINE stopped == {j \in Jobs : Active(tracked[j])}
  <2>1. /\ up' = "closing" /\ stops' = stops + 1
        /\ \A j \in Jobs : state'[j] = IF j \in stopped /\ state[j] = "DOWNLOADING"
                                       THEN "PAUSED" ELSE state[j]
        /\ task' = [k \in Tasks |-> [task[k] EXCEPT !.cancel =
                      @ \/ \E j \in stopped : tracked[j] = k]]
        /\ UNCHANGED <<bytes, staged, tracked, cancelOn>>
    BY <1>5 DEF Shutdown, disk
  <2>2. ASSUME NEW k \in Tasks
        PROVE  /\ task'[k].at = task[k].at /\ task'[k].job = task[k].job /\ task'[k].file = task[k].file
               /\ task'[k].seen = task[k].seen /\ task'[k].reported = task[k].reported
               /\ task'[k].cancel <=> task[k].cancel \/ \E j \in stopped : tracked[j] = k
    BY <2>1 DEF JobsInv, Typed, TasksTyped, TaskRecords
  <2>3. AllTracked' BY <2>1, <2>2 DEF JobsInv, AllTracked, Job
  <2>4. ASSUME NEW j \in Jobs, tracked[j] # None PROVE WorkerOK(j, tracked[j])'
    <3>1. tracked[j] \in Tasks /\ WorkerOK(j, tracked[j])
      BY <2>4 DEF JobsInv, JobOK, Typed, RestTyped
    <3>2. Active(tracked[j]) => task'[tracked[j]].cancel /\ state'[j] # "DOWNLOADING"
      BY <2>1, <2>2, <3>1
    <3>3. Active(tracked[j])' <=> Active(tracked[j]) BY <2>1, <2>2, <3>1 DEF Active
    <3>4. task[tracked[j]].at \in {"new", "transfer", "hash"} => Active(tracked[j])
      BY <2>4 DEF Active
    <3> QED BY <2>1, <2>2, <3>1, <3>2, <3>3, <3>4 DEF WorkerOK
  <2>5. \A j \in Jobs : JobOK(j)' BY <1>0, <2>1, <2>4 DEF JobsInv, JobOK
  <2> QED BY <2>1, <2>3, <2>5 DEF JobsInv
<1>6. CASE Startup
  <2>1. PICK k \in [Pending -> Tasks] :
          /\ \A i, j \in Pending : i # j => k[i] # k[j]
          /\ task' = [t \in Tasks |->
                     IF \E j \in Pending : k[j] = t
                       THEN [Free EXCEPT !.at = "new", !.job = CHOOSE j \in Pending : k[j] = t]
                       ELSE Free]
          /\ tracked' = [j \in Jobs |-> IF j \in Pending THEN k[j] ELSE None]
    BY <1>6 DEF Startup
  <2>2. /\ up = "down" /\ up' = "up" /\ UNCHANGED <<bytes, staged, cancelOn, stops>>
        /\ \A j \in Jobs : state'[j] = IF state[j] = "DOWNLOADING" THEN "PAUSED" ELSE state[j]
    BY <1>6 DEF Startup, disk
  <2>3. \A j \in Jobs : tracked[j] = None /\ cancelOn[j] = None BY <2>2 DEF JobsInv, JobOK
  <2>4. ASSUME NEW j \in Pending
        PROVE  task'[k[j]].at = "new" /\ task'[k[j]].job = j /\ tracked'[j] = k[j] /\ j \in Jobs
    <3>1. j \in Jobs BY DEF Pending
    <3>2. (CHOOSE i \in Pending : k[i] = k[j]) = j BY <2>1
    <3>3. task'[k[j]] = [Free EXCEPT !.at = "new", !.job = j] BY <2>1, <3>2
    <3> QED BY <2>1, <3>1, <3>3, FreeTyped
  <2>5. ASSUME NEW t \in Tasks, task'[t].at # "free" PROVE tracked'[task'[t].job] = t
    <3>1. CASE \E j \in Pending : k[j] = t BY <2>4, <3>1
    <3>2. CASE ~\E j \in Pending : k[j] = t
      <4>1. task'[t] = Free BY <2>1, <3>2
      <4> QED BY <2>5, <4>1 DEF Free
    <3> QED BY <3>1, <3>2
  <2>6. AllTracked' BY <2>5 DEF AllTracked, Job
  <2>7. ASSUME NEW j \in Jobs PROVE JobOK(j)'
    <3>1. CASE j \in Pending
      <4>1. state'[j] = "QUEUED" BY <2>2, <3>1 DEF Pending
      <4>2. WorkerOK(j, k[j])' BY <2>4, <3>1, <4>1 DEF WorkerOK, Active
      <4>3. tracked'[j] = k[j] BY <2>4, <3>1
      <4> QED BY <2>2, <2>3, <4>1, <4>2, <4>3 DEF JobOK
    <3>2. CASE j \notin Pending
      <4>1. tracked'[j] = None BY <2>1, <3>2
      <4>2. JobOK(j) BY DEF JobsInv
      <4> QED BY <2>2, <2>3, <4>1, <4>2 DEF JobOK
    <3> QED BY <3>1, <3>2
  <2> QED BY <2>2, <2>6, <2>7 DEF JobsInv
<1> QED BY <1>1, <1>2, <1>3, <1>4, <1>5, <1>6

----------------------------------------------------------------------------
(* Theorems                                                                *)

\* A step of the application, of its process or of a worker keeps the
\* invariant, and completes a job only with all its files at the destination.
LEMMA StepKeeps ==
  ASSUME JobsInv, Prompt, [Next]_vars
  PROVE  /\ JobsInv'
         /\ \A j \in Jobs : state[j] # "COMPLETED" /\ state'[j] = "COMPLETED" => published'[j] = Files
<1>0. Typed' BY StepTyped DEF JobsInv
<1>1. ASSUME NEW j \in Jobs,
             \/ Create(j) \/ Resume(j) \/ Redownload(j) \/ Pause(j)
             \/ Cancel(j) \/ CancelEnds(j) \/ Delete(j)
      PROVE  JobsInv' /\ \A i \in Jobs : state'[i] = "COMPLETED" => state[i] = "COMPLETED"
  <2>1. JobsInv' BY <1>0, <1>1, RequestKeeps
  <2>2. \A i \in Jobs : state'[i] = "COMPLETED" => state[i] = "COMPLETED"
    BY <1>1 DEF Create, CreateJob, Resume, Redownload, Pause, Cancel, CancelEnds, Delete, records,
                JobsInv, Typed
  <2> QED BY <2>1, <2>2
<1>2. CASE \E k \in Tasks : \/ Begin(k) \/ Progress(k) \/ TransferDone(k) \/ GoesWrong(k)
                            \/ HashOk(k) \/ Cancelled(k)
  BY <1>0, <1>2, WorkerKeeps
<1>3. CASE \E k \in Tasks : Finished(k) BY <1>0, <1>3, FinishedKeeps
<1>4. CASE ClearFinished \/ Crash \/ Shutdown \/ Exit \/ Startup \/ \E k \in Tasks : CrashInPublish(k)
  BY <1>0, <1>4, ProcessKeeps
<1>5. CASE UNCHANGED vars
  BY <1>0, <1>5 DEF vars, records, disk, JobsInv, JobOK, WorkerOK, AllTracked, Active, Job
<1> QED BY <1>1, <1>2, <1>3, <1>4, <1>5 DEF Next

\* The inductive invariant, for any number of jobs, tasks, files and stops.
THEOREM DownloadsInvariant == Prompt => (Spec => []JobsInv)
<1>1. Init => JobsInv
  BY InitTyped DEF Init, JobsInv, JobOK, AllTracked, Free, Job
<1>2. JobsInv /\ Prompt /\ [Next]_vars => JobsInv' BY StepKeeps
<1>3. CASE Prompt
  <2>1. JobsInv /\ [Next]_vars => JobsInv' BY <1>2, <1>3
  <2> QED BY <1>1, <2>1, PTL DEF Spec
<1> QED BY <1>3

\* A job has one worker at a time, and it runs only for a job that is queued or
\* downloading, or has been told to stop.
THEOREM WorkersFollowJobs == Prompt => (Spec => []WorkersMatchJobs)
<1>1. JobsInv => WorkersMatchJobs
  <2> SUFFICES ASSUME JobsInv PROVE WorkersMatchJobs OBVIOUS
  <2>1. ASSUME NEW k \in Tasks, Active(k)
        PROVE  tracked[Job(k)] = k /\ WorkerOK(Job(k), k) /\ task[k].at \in {"new", "transfer", "hash"}
    BY <2>1, WorkerIs DEF Active
  <2>2. TypeOK
    BY TypedIsTypeOK DEF JobsInv
  <2> QED BY <2>1, <2>2 DEF WorkersMatchJobs, OneWorkerPerJob, WorkerOK
<1> QED BY <1>1, DownloadsInvariant, PTL

\* update_progress() refuses nothing a worker reports.
THEOREM ProgressIsAccepted == Prompt => (Spec => []ProgressAccepted)
<1>1. JobsInv => ProgressAccepted
  <2> SUFFICES ASSUME JobsInv, NEW k \in Tasks, Job(k) # None, state[Job(k)] = "DOWNLOADING"
               PROVE  /\ task[k].at = "transfer" => bytes[Job(k)] <= task[k].reported
                      /\ task[k].at = "hash" /\ task[k].file * FileSize > task[k].seen
                           => bytes[Job(k)] <= task[k].file * FileSize
    BY DEF ProgressAccepted
  <2>1. CASE task[k].at = "transfer" BY <2>1, WorkerIs DEF WorkerOK
  <2>2. CASE task[k].at = "hash"
    <3> DEFINE c == task[k].file * FileSize
    <3>1. Job(k) \in Jobs /\ (bytes[Job(k)] <= task[k].seen \/ bytes[Job(k)] <= c)
      BY <2>2, WorkerIs DEF WorkerOK
    <3>2. bytes[Job(k)] \in 0..Total /\ task[k].seen \in 0..Total /\ task[k].file \in Files
      BY <2>2, <3>1 DEF JobsInv, Typed, TasksTyped, RestTyped, TaskRecords
    <3>3. c \in 0..Total /\ Total \in Nat BY <3>2, FileEnds
    <3> HIDE DEF c
    <3>4. c > task[k].seen => bytes[Job(k)] <= c BY <3>1, <3>2, <3>3
    <3> QED BY <2>2, <3>4 DEF c
  <2> QED BY <2>1, <2>2
<1> QED BY <1>1, DownloadsInvariant, PTL

\* A cancelled job leaves nothing staged, and a completed one has its files.
THEOREM EndsAreTrue == Prompt => (Spec => EndIsTrue)
<1> DEFINE Clean == \A j \in Jobs :
             /\ stops = 0 /\ state[j] = "CANCELLED" /\ cancelOn[j] = None
             /\ \A k \in Tasks : Job(k) = j => ~Active(k)
             => staged[j] = {}
           Whole == \A j \in Jobs : state[j] # "COMPLETED" /\ state'[j] = "COMPLETED"
                                      => published'[j] = Files
<1>1. JobsInv => Clean BY DEF JobsInv, JobOK
<1>2. JobsInv /\ Prompt /\ [Next]_vars => Whole BY StepKeeps
<1>3. CASE Prompt
  <2>1. Spec => []JobsInv BY <1>3, DownloadsInvariant
  <2>2. JobsInv /\ [Next]_vars => [Whole]_vars BY <1>2, <1>3
  <2>3. Spec => []Clean BY <1>1, <2>1, PTL
  <2>4. Spec => [][Whole]_vars BY <2>1, <2>2, PTL DEF Spec
  <2> QED BY <2>3, <2>4 DEF EndIsTrue
<1> QED BY <1>3
=============================================================================
