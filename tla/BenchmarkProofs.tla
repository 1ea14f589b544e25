--------------------------- MODULE BenchmarkProofs ---------------------------
(***************************************************************************)
(* Theorems about benchmarks and conversations: the runs of                *)
(* BenchmarkRunner, for any runs, requests, cancellations and restarts,    *)
(* the conversations of BenchmarkAgent, for histories of every length, all *)
(* sizes and limits, and the records of AssistantHistory, for              *)
(* conversations of every length.  They share no variable.                 *)
(***************************************************************************)
EXTENDS MCBenchmarks, FiniteSetTheorems, WellFoundedInduction, TLAPS

(***************************************************************************)
(* BenchmarkRunner.  NoRouterLeft and SavedIsFinal are not inductive: the  *)
(* first needs to know that requests of the operator release no lock but   *)
(* their own, the second that the run under way is the one whose record is *)
(* written.                                                                *)
(***************************************************************************)

\* The operator's request holds the lock while it is carried out, and only
\* then.
OperatorHolds == lock = "operator" <=> operator \in {"starting", "stopping"}

\* A task that is under way is one of a run, of an application that is not
\* down; and its record is open, or was deleted with its profile.
TaskHasRecord ==
  /\ Live => /\ latest \in Runs /\ record[latest] \in {"running", "deleted"}
             /\ outcome \in Saved
  /\ app = "down" => ~Live

RunnerInv == RunnerTypeOK /\ NoRouterLeft /\ OperatorHolds /\ TaskHasRecord

----------------------------------------------------------------------------

\* The initial states satisfy it.
LEMMA RunnerStarts == RunnerInit => RunnerInv
BY NoRunAssumption
   DEF RunnerInit, RunnerInv, RunnerTypeOK, NoRouterLeft, OperatorHolds, TaskHasRecord, Live,
       Awaits, Saved

\* The types, request by request.
LEMMA RunnerTypes ==
  ASSUME RunnerInv, [RunnerNext]_RunnerVars
  PROVE  RunnerTypeOK'
<1> USE DEF RunnerInv, RunnerTypeOK, Awaits, Saved, counts
<1>1. ASSUME NEW r \in Runs, Start(r) \/ Delete(r) \/ ThreadEnds(r) PROVE RunnerTypeOK'
  <2>1. CASE Start(r)
    BY <2>1 DEF Start, CreateRun
  <2>2. CASE Delete(r)
    BY <2>2 DEF Delete
  <2>3. CASE ThreadEnds(r)
    <3>1. /\ threads' = threads \ {r} /\ folder' \in {folder, folder \cup {r}}
          /\ UNCHANGED <<record, active, at, latest, outcome, cancelling, lock, router,
                         operator, app, left>>
      BY <2>3 DEF ThreadEnds
    <3>2. threads' \subseteq Runs /\ folder' \subseteq Runs
      BY <3>1
    <3> QED BY <3>1, <3>2
  <2> QED BY <1>1, <2>1, <2>2, <2>3
<1>2. CASE Cancel \/ DeleteProfile \/ RouterDies
  BY <1>2 DEF Cancel, DeleteProfile, RouterDies
<1>3. ASSUME NEW what \in {"start", "stop"}, OperatorAsks(what) PROVE RunnerTypeOK'
  BY <1>3 DEF OperatorAsks
<1>4. CASE OperatorSteps
  BY <1>4 DEF OperatorSteps, OperatorLocks, OperatorDone
<1>5. CASE Closes \/ Closed \/ Crashes
  BY <1>5, NoRunAssumption DEF Closes, Closed, Crashes, Gone
<1>6. CASE Boots
  BY <1>6 DEF Boots
<1>7. CASE RunSteps
  <2>1. CASE Begins \/ LocksToStart \/ Loaded \/ LoadFails \/ CallsTool \/ LocksToStop
    BY <2>1 DEF Begins, LocksToStart, Loaded, LoadFails, CallsTool, LocksToStop, Step, EndsAs
  <2>2. CASE Started \/ Generated \/ WatcherEnds
    BY <2>2 DEF Started, Generated, WatcherEnds, Step, EndsAs
  <2>3. CASE ToolReturns
    BY <2>3 DEF ToolReturns, Step, TaskHasRecord, Live
  <2>4. CASE Saves
    <3>1. Live /\ latest \in Runs /\ outcome \in Saved
      BY <2>4 DEF Saves, Step, TaskHasRecord, Live
    <3> QED BY <2>4, <3>1, NoRunAssumption DEF Saves, Step
  <2>5. CASE Cancelled
    <3>1. latest \in Runs
      BY <2>5 DEF Cancelled, TaskHasRecord
    <3>2. UNCHANGED <<record, folder, active, latest, operator, app>>
      BY <2>5 DEF Cancelled
    <3>3. left' \in {left, left \cup {latest}} /\ threads' \in {threads, threads \cup {latest}}
      BY <2>5 DEF Cancelled
    <3>4. /\ record' \in [Runs -> Saved \cup {"none", "running", "deleted"}]
          /\ {active', latest'} \subseteq Runs \cup {NoRun}
          /\ operator' \in {"idle", "start", "stop", "starting", "stopping"}
          /\ app' \in {"up", "closing", "down"}
      BY <3>2
    <3>5. folder' \subseteq Runs /\ left' \subseteq Runs /\ threads' \subseteq Runs
      BY <3>1, <3>2, <3>3
    <3>6. /\ at' \in {"ended", "lockStop"} /\ outcome' \in {outcome, "cancelled"}
          /\ router' \in {"stopped", "run", router} /\ lock' \in {"free", lock}
          /\ cancelling' = FALSE
      BY <2>5 DEF Cancelled, EndsAs
    <3>7. /\ at' \in Awaits \cup {"none", "ended"} /\ outcome' \in Saved \cup {"none"}
          /\ lock' \in {"free", "run", "operator"} /\ router' \in {"stopped", "run", "operator"}
          /\ cancelling' \in BOOLEAN
      BY <3>6
    <3> QED BY ONLY <3>4, <3>5, <3>7 DEF RunnerTypeOK
  <2> QED BY <1>7, <2>1, <2>2, <2>3, <2>4, <2>5 DEF RunSteps
<1>8. CASE UNCHANGED RunnerVars
  BY <1>8 DEF RunnerVars
<1> QED BY <1>1, <1>2, <1>3, <1>4, <1>5, <1>6, <1>7, <1>8 DEF RunnerNext

\* Who holds the lock, and who stops the router.
LEMMA RouterKept ==
  ASSUME RunnerInv, [RunnerNext]_RunnerVars
  PROVE  NoRouterLeft' /\ OperatorHolds'
<1> USE DEF RunnerInv, NoRouterLeft, OperatorHolds, Live, Awaits
<1>1. ASSUME NEW r \in Runs, Start(r) \/ Delete(r) \/ ThreadEnds(r)
      PROVE  NoRouterLeft' /\ OperatorHolds'
  BY <1>1 DEF Start, Delete, ThreadEnds
<1>2. CASE Cancel \/ DeleteProfile \/ RouterDies
  BY <1>2 DEF Cancel, DeleteProfile, RouterDies
<1>3. ASSUME NEW what \in {"start", "stop"}, OperatorAsks(what)
      PROVE  NoRouterLeft' /\ OperatorHolds'
  BY <1>3 DEF OperatorAsks
<1>4. CASE OperatorSteps
  BY <1>4 DEF OperatorSteps, OperatorLocks, OperatorDone
<1>5. CASE Closes \/ Closed \/ Crashes \/ Boots
  BY <1>5 DEF Closes, Closed, Crashes, Gone, Boots
<1>6. CASE RunSteps
  <2>1. CASE Begins \/ LocksToStart \/ LocksToStop
    BY <2>1 DEF Begins, LocksToStart, LocksToStop, Step
  <2>2. CASE Started
    BY <2>2 DEF Started, EndsAs
  <2>3. CASE Loaded \/ LoadFails \/ CallsTool \/ ToolReturns \/ Generated \/ WatcherEnds
    BY <2>3 DEF Loaded, LoadFails, CallsTool, ToolReturns, Generated, WatcherEnds, Step, EndsAs
  <2>4. CASE Saves
    BY <2>4 DEF Saves, Step
  <2>5. CASE Cancelled
    <3>1. CASE at \in {"created", "lockStop", "stopping"}
      BY <2>5, <3>1 DEF Cancelled
    <3>2. CASE at \notin {"created", "lockStop", "stopping"}
      BY <2>5, <3>2 DEF Cancelled, EndsAs
    <3> QED BY <3>1, <3>2
  <2> QED BY <1>6, <2>1, <2>2, <2>3, <2>4, <2>5 DEF RunSteps
<1>7. CASE UNCHANGED RunnerVars
  BY <1>7 DEF RunnerVars
<1> QED BY <1>1, <1>2, <1>3, <1>4, <1>5, <1>6, <1>7 DEF RunnerNext

\* The run under way keeps a record that is open or deleted.
LEMMA RecordKept ==
  ASSUME RunnerInv, [RunnerNext]_RunnerVars
  PROVE  TaskHasRecord'
<1> USE DEF RunnerInv, TaskHasRecord, Live, Awaits, Saved
<1>1. ASSUME NEW r \in Runs, Start(r) PROVE TaskHasRecord'
  BY <1>1 DEF Start, CreateRun, RunnerTypeOK
<1>2. ASSUME NEW r \in Runs, Delete(r) PROVE TaskHasRecord'
  BY <1>2 DEF Delete, RunnerTypeOK
<1>3. ASSUME NEW r \in Runs, ThreadEnds(r) PROVE TaskHasRecord'
  BY <1>3 DEF ThreadEnds
<1>4. CASE Cancel \/ RouterDies
  BY <1>4 DEF Cancel, RouterDies
<1>5. CASE DeleteProfile
  BY <1>5 DEF DeleteProfile
<1>6. ASSUME NEW what \in {"start", "stop"}, OperatorAsks(what) PROVE TaskHasRecord'
  BY <1>6 DEF OperatorAsks
<1>7. CASE OperatorSteps
  BY <1>7 DEF OperatorSteps, OperatorLocks, OperatorDone
<1>8. CASE Closes \/ Closed \/ Crashes \/ Boots
  BY <1>8 DEF Closes, Closed, Crashes, Gone, Boots
<1>9. CASE RunSteps
  <2>1. CASE Begins \/ LocksToStart \/ LocksToStop \/ Started
    BY <2>1 DEF Begins, LocksToStart, LocksToStop, Step, Started, EndsAs
  <2>2. CASE Loaded \/ LoadFails \/ CallsTool \/ ToolReturns \/ Generated \/ WatcherEnds
    BY <2>2 DEF Loaded, LoadFails, CallsTool, ToolReturns, Generated, WatcherEnds, Step, EndsAs
  <2>3. CASE Saves
    BY <2>3 DEF Saves, Step
  <2>4. CASE Cancelled
    BY <2>4 DEF Cancelled, EndsAs
  <2> QED BY <1>9, <2>1, <2>2, <2>3, <2>4 DEF RunSteps
<1>10. CASE UNCHANGED RunnerVars
  BY <1>10 DEF RunnerVars
<1> QED BY <1>1, <1>2, <1>3, <1>4, <1>5, <1>6, <1>7, <1>8, <1>9, <1>10 DEF RunnerNext

\* A step leaves a saved record as it is, or deletes it.
LEMMA SavedStays ==
  ASSUME RunnerInv, [RunnerNext]_RunnerVars, NEW s \in Runs, record[s] \in Saved
  PROVE  record'[s] \in {record[s], "deleted"}
<1> USE DEF RunnerInv, RunnerTypeOK, Saved, counts
<1>1. ASSUME NEW r \in Runs, Start(r) \/ Delete(r) \/ ThreadEnds(r)
      PROVE  record'[s] \in {record[s], "deleted"}
  BY <1>1 DEF Start, CreateRun, Delete, ThreadEnds
<1>2. CASE Cancel \/ DeleteProfile \/ RouterDies \/ OperatorSteps \/ Closes
  BY <1>2 DEF Cancel, DeleteProfile, RouterDies, OperatorSteps, OperatorLocks, OperatorDone, Closes
<1>3. ASSUME NEW what \in {"start", "stop"}, OperatorAsks(what)
      PROVE  record'[s] \in {record[s], "deleted"}
  BY <1>3 DEF OperatorAsks
<1>4. CASE Closed \/ Crashes \/ Boots
  BY <1>4 DEF Closed, Crashes, Boots
<1>5. CASE RunSteps
  <2>1. CASE Saves
    <3>1. latest \in Runs /\ record[latest] \in {"running", "deleted"}
      BY <2>1 DEF Saves, Step, TaskHasRecord, Live, Awaits
    <3>2. s # latest
      BY <3>1
    <3>3. record' = [record EXCEPT ![latest] = IF @ = "deleted" THEN @ ELSE outcome]
      BY <2>1 DEF Saves
    <3> QED BY <3>2, <3>3
  <2>2. CASE ~Saves
    <3>1. UNCHANGED record
      BY <1>5, <2>2
         DEF RunSteps, Begins, LocksToStart, Started, Loaded, LoadFails, CallsTool, ToolReturns,
             Generated, WatcherEnds, LocksToStop, Cancelled
    <3> QED BY <3>1
  <2> QED BY <2>1, <2>2
<1>6. CASE UNCHANGED RunnerVars
  BY <1>6 DEF RunnerVars
<1> QED BY <1>1, <1>2, <1>3, <1>4, <1>5, <1>6 DEF RunnerNext

----------------------------------------------------------------------------

\* The inductive invariant, and with it the types.
THEOREM RunnerInvariant == RunnerSpec => []RunnerInv
<1>1. RunnerInv /\ [RunnerNext]_RunnerVars => RunnerInv'
  BY RunnerTypes, RouterKept, RecordKept DEF RunnerInv
<1> QED BY <1>1, RunnerStarts, PTL DEF RunnerSpec

\* A run holds the lock exactly while it starts or stops the router, and the
\* router it started is stopped when it is over, unless stopping it failed or
\* was interrupted: with requests of the operator, cancellations, a router that
\* dies and ends of the application in between.
THEOREM RouterIsStopped == RunnerSpec => []NoRouterLeft
<1>1. RunnerInv => NoRouterLeft
  BY DEF RunnerInv
<1> QED BY <1>1, RunnerInvariant, PTL

\* What a run was saved as is never written again, only deleted.
THEOREM SavedRunsStay == RunnerSpec => SavedIsFinal
<1> DEFINE Stays == \A r \in Runs : record[r] \in Saved => record'[r] \in {record[r], "deleted"}
<1>1. RunnerInv /\ [RunnerNext]_RunnerVars => [Stays]_RunnerVars
  BY SavedStays
<1> QED BY <1>1, RunnerInvariant, PTL DEF RunnerSpec, SavedIsFinal

(***************************************************************************)
(* BenchmarkAgent.  What chat templates accept is stated with the last     *)
(* reply before each result; a history is kept by a property that can be   *)
(* joined and cut instead (Paired): a result stands right behind a reply,  *)
(* and the results there answer its calls once.  While calls are run the   *)
(* history is not like that; it is once their results are put in the       *)
(* places kept for them (Completed).                                       *)
(***************************************************************************)

Message == [role : {"system", "user", "assistant", "tool"}, calls : SUBSET Int, size : Int]

\* What chat templates look at: the roles and the calls.
Shape(h) == [i \in DOMAIN h |-> [role |-> h[i].role, calls |-> h[i].calls]]
Shapes(n) == [1..n -> [role : {"system", "user", "assistant", "tool"}, calls : SUBSET Int]]

\* The results that follow a reply with nothing in between.
Follows(s, r, i) ==
  /\ r \in DOMAIN s /\ i \in DOMAIN s /\ r < i /\ s[r].role = "assistant"
  /\ \A k \in DOMAIN s : r < k /\ k <= i => s[k].role = "tool"

\* A result follows a reply.
AnswersOne(s, i) ==
  (\E r \in DOMAIN s : Follows(s, r, i)) /\ (\E id \in Int : s[i].calls = {id})

\* The results that follow a reply answer each of its calls once.
AnsweredOnce(s, r) ==
  /\ \A i \in DOMAIN s : Follows(s, r, i) => s[i].calls \subseteq s[r].calls
  /\ \A id \in s[r].calls : \E i \in DOMAIN s : Follows(s, r, i) /\ s[i].calls = {id}
  /\ \A i, k \in DOMAIN s : Follows(s, r, i) /\ Follows(s, r, k) /\ s[i].calls = s[k].calls => i = k

Paired(s) ==
  /\ \A i \in DOMAIN s : s[i].role = "tool" => AnswersOne(s, i)
  /\ \A r \in DOMAIN s : s[r].role = "assistant" => AnsweredOnce(s, r)

HasTask(s) == \E i \in DOMAIN s : s[i].role = "user"

----------------------------------------------------------------------------
(* What the chat templates accept                                          *)

\* A set of natural numbers has a first one.
LEMMA First ==
  ASSUME NEW S \in SUBSET Nat, S # {}
  PROVE  \E i \in S : \A k \in S : i <= k
<1> DEFINE R == OpToRel(<, Nat)
<1>1. \A i, k \in Nat : <<k, i>> \in R <=> k < i
  BY DEF OpToRel
<1>2. IsWellFoundedOn(R, Nat)
  BY NatLessThanWellFounded
<1> HIDE DEF R
<1>3. PICK i \in S : \A k \in S : ~(<<k, i>> \in R)
  BY <1>2, WFMin
<1>4. ASSUME NEW k \in S PROVE i <= k
  <2>1. k \in Nat /\ i \in Nat /\ ~(<<k, i>> \in R)
    BY <1>3
  <2>2. ~(k < i)
    BY <1>1, <2>1
  <2> QED BY <2>1, <2>2
<1> QED BY <1>4

\* A set of numbers of a sequence has a first and a last one.
LEMMA FirstAndLast ==
  ASSUME NEW n \in Nat, NEW S \in SUBSET (1..n), S # {}
  PROVE  /\ \E i \in S : \A k \in S : i <= k
         /\ \E i \in S : \A k \in S : k <= i
<1>1. S \in SUBSET Nat
  OBVIOUS
<1>2. \E i \in S : \A k \in S : i <= k
  BY <1>1, First
<1>3. \E i \in S : \A k \in S : k <= i
  <2> DEFINE T == {n - i : i \in S}
  <2>1. T \in SUBSET Nat
    <3> SUFFICES ASSUME NEW i \in S PROVE n - i \in Nat
      OBVIOUS
    <3>1. i \in 1..n
      OBVIOUS
    <3> QED BY <3>1
  <2>2. T # {}
    OBVIOUS
  <2> HIDE DEF T
  <2>3. PICK t \in T : \A u \in T : t <= u
    BY <2>1, <2>2, First
  <2>4. PICK i \in S : t = n - i
    BY DEF T
  <2>5. ASSUME NEW k \in S PROVE k <= i
    <3>1. n - k \in T
      BY DEF T
    <3>2. t <= n - k /\ k \in 1..n /\ i \in 1..n
      BY <2>3, <3>1
    <3> QED BY <2>4, <3>2
  <2> QED BY <2>5
<1> QED BY <1>2, <1>3

\* The shape of a history, message by message.
LEMMA ShapeTyped ==
  ASSUME NEW h \in Seq(Message)
  PROVE  /\ Len(h) \in Nat /\ DOMAIN h = 1..Len(h)
         /\ Shape(h) \in Shapes(Len(h)) /\ DOMAIN Shape(h) = 1..Len(h)
         /\ \A i \in 1..Len(h) : /\ h[i] \in Message /\ Shape(h)[i].role = h[i].role
                                 /\ Shape(h)[i].calls = h[i].calls
<1>1. Len(h) \in Nat /\ DOMAIN h = 1..Len(h)
  OBVIOUS
<1>2. ASSUME NEW i \in 1..Len(h)
      PROVE  /\ h[i] \in Message /\ Shape(h)[i].role = h[i].role
             /\ Shape(h)[i].calls = h[i].calls
             /\ Shape(h)[i] \in [role : {"system", "user", "assistant", "tool"}, calls : SUBSET Int]
  <2>1. h[i] \in Message
    BY <1>1
  <2>2. Shape(h)[i] = [role |-> h[i].role, calls |-> h[i].calls]
    BY <1>1 DEF Shape
  <2> QED BY <2>1, <2>2 DEF Message
<1>3. Shape(h) \in Shapes(Len(h))
  BY <1>1, <1>2 DEF Shape, Shapes
<1> QED BY <1>1, <1>2, <1>3 DEF Shapes

\* The reply before a result is the one that it follows.
LEMMA RepliesTo ==
  ASSUME NEW n \in Nat, NEW s \in Shapes(n), NEW i \in 1..n, NEW r \in 1..n, Follows(s, r, i)
  PROVE  LET Before == {k \in 1..(i - 1) : s[k].role = "assistant"}
         IN  /\ r \in Before /\ \A k \in Before : k <= r
             /\ \A k \in Before : (\A m \in Before : m <= k) => k = r
<1>1. r \in 1..(i - 1) /\ s[r].role = "assistant"
  BY DEF Follows, Shapes
<1>2. ASSUME NEW k \in 1..(i - 1), s[k].role = "assistant"
      PROVE  k <= r
  BY <1>2 DEF Follows, Shapes
<1>3. ASSUME NEW k \in 1..(i - 1), r <= k, k <= r
      PROVE  k = r
  BY <1>3
<1> QED BY <1>1, <1>2, <1>3

\* A paired conversation with a task is one that the chat templates accept.
LEMMA PairedIsValid ==
  ASSUME NEW h \in Seq(Message), Paired(Shape(h)), HasTask(Shape(h))
  PROVE  ValidHistory(h)
<1> DEFINE n == Len(h)
           s == Shape(h)
           Before(i) == {r \in 1..(i - 1) : h[r].role = "assistant"}
           ReplyTo(i) == CHOOSE r \in Before(i) : \A k \in Before(i) : k <= r
           Results(r) == {i \in DOMAIN h : h[i].role = "tool" /\ i > r /\ ReplyTo(i) = r}
<1>1. /\ n \in Nat /\ DOMAIN h = 1..n /\ s \in Shapes(n) /\ DOMAIN s = 1..n
      /\ \A i \in 1..n : /\ h[i] \in Message /\ s[i].role = h[i].role
                         /\ s[i].calls = h[i].calls
  BY ShapeTyped
<1> HIDE DEF s
<1>2. \A i \in 1..n : Before(i) = {k \in 1..(i - 1) : s[k].role = "assistant"}
  BY <1>1
<1> HIDE DEF n
<1>3. ASSUME NEW i \in 1..n, NEW r \in 1..n, Follows(s, r, i)
      PROVE  r \in Before(i) /\ ReplyTo(i) = r
  <2>1. /\ r \in Before(i) /\ \A k \in Before(i) : k <= r
        /\ \A k \in Before(i) : (\A m \in Before(i) : m <= k) => k = r
    BY <1>1, <1>2, <1>3, RepliesTo
  <2> HIDE DEF Before
  <2> QED BY <2>1
<1>4. ASSUME NEW i \in 1..n, h[i].role = "tool"
      PROVE  \E r \in 1..n : Follows(s, r, i)
  BY <1>1, <1>4 DEF Paired, AnswersOne, AnsweredOnce, s
<1>5. \A r \in 1..n : h[r].role = "assistant" => Results(r) = {i \in 1..n : Follows(s, r, i)}
  <2> SUFFICES ASSUME NEW r \in 1..n, NEW i \in 1..n
               PROVE  i \in Results(r) <=> Follows(s, r, i)
    BY <1>1
  <2>1. ASSUME Follows(s, r, i) PROVE i \in Results(r)
    BY <1>1, <1>3, <2>1 DEF Follows
  <2>2. ASSUME i \in Results(r) PROVE Follows(s, r, i)
    <3>1. h[i].role = "tool" /\ ReplyTo(i) = r
      BY <2>2
    <3>2. PICK q \in 1..n : Follows(s, q, i)
      BY <1>4, <3>1
    <3>3. ReplyTo(i) = q
      BY <1>3, <3>2
    <3> HIDE DEF ReplyTo
    <3> QED BY <3>1, <3>2, <3>3
  <2> QED BY <2>1, <2>2
<1> HIDE DEF Results
<1>6. ASSUME NEW r \in 1..n, h[r].role = "assistant"
      PROVE  /\ h[r].calls = UNION {h[i].calls : i \in Results(r)}
             /\ Cardinality(Results(r)) = Cardinality(h[r].calls)
  <2>1. /\ \A i \in Results(r) : i \in 1..n /\ Follows(s, r, i) /\ s[i].calls \subseteq s[r].calls
        /\ \A id \in s[r].calls : \E i \in Results(r) : s[i].calls = {id}
        /\ \A i, k \in Results(r) : s[i].calls = s[k].calls => i = k
    <3>1. Results(r) = {i \in 1..n : Follows(s, r, i)} /\ s[r].role = "assistant"
      BY <1>1, <1>5, <1>6
    <3>2. /\ \A i \in DOMAIN s : Follows(s, r, i) => s[i].calls \subseteq s[r].calls
          /\ \A id \in s[r].calls : \E i \in DOMAIN s : Follows(s, r, i) /\ s[i].calls = {id}
          /\ \A i, k \in DOMAIN s :
               Follows(s, r, i) /\ Follows(s, r, k) /\ s[i].calls = s[k].calls => i = k
      BY <1>1, <3>1 DEF Paired, AnswersOne, AnsweredOnce, s
    <3> QED BY <1>1, <3>1, <3>2
  <2>2. \A i \in Results(r) : \E id \in Int : s[i].calls = {id}
    <3>1. \A i \in Results(r) : s[i].role = "tool"
      BY <1>1, <2>1 DEF Follows
    <3> QED BY <1>1, <2>1, <3>1 DEF Paired, AnswersOne, AnsweredOnce, s
  <2>3. h[r].calls = UNION {h[i].calls : i \in Results(r)}
    <3>1. ASSUME NEW id \in h[r].calls PROVE \E i \in Results(r) : id \in h[i].calls
      BY <1>1, <2>1, <3>1
    <3>2. ASSUME NEW i \in Results(r), NEW id \in h[i].calls PROVE id \in h[r].calls
      BY <1>1, <2>1, <3>2
    <3> QED BY <3>1, <3>2
  <2>4. Cardinality(Results(r)) = Cardinality(h[r].calls)
    <3> DEFINE f == [i \in Results(r) |-> CHOOSE id \in Int : s[i].calls = {id}]
    <3>1. \A i \in Results(r) : s[i].calls = {f[i]}
      BY <2>2
    <3> HIDE DEF f
    <3>2. f \in [Results(r) -> h[r].calls]
      <4>1. \A i \in Results(r) : f[i] \in h[r].calls
        BY <1>1, <2>1, <3>1
      <4>2. f = [i \in Results(r) |-> f[i]]
        BY DEF f
      <4> QED BY <4>1, <4>2
    <3>3. f \in Injection(Results(r), h[r].calls)
      BY <2>1, <3>1, <3>2 DEF Injection, IsInjective
    <3>4. f \in Surjection(Results(r), h[r].calls)
      <4>1. \A id \in h[r].calls : \E i \in Results(r) : f[i] = id
        <5> SUFFICES ASSUME NEW id \in h[r].calls
                     PROVE  \E i \in Results(r) : f[i] = id
          OBVIOUS
        <5>1. PICK i \in Results(r) : s[i].calls = {id}
          BY <1>1, <2>1
        <5>2. f[i] \in {id}
          BY <3>1, <5>1
        <5> QED BY <5>2
      <4> QED BY <3>2, <4>1 DEF Surjection
    <3>5. ExistsBijection(Results(r), h[r].calls)
      BY <3>3, <3>4 DEF ExistsBijection, Bijection
    <3>6. IsFiniteSet(Results(r))
      <4>1. IsFiniteSet(1..n)
        BY <1>1, FS_Interval
      <4> QED BY <2>1, <4>1, FS_Subset
    <3> QED BY <3>5, <3>6, FS_Bijection
  <2> QED BY <2>3, <2>4
<1>7. \E i \in DOMAIN h : h[i].role = "user"
  BY <1>1 DEF HasTask, s
<1>8. \A i \in DOMAIN h : h[i].role = "tool" => Before(i) # {}
  BY <1>1, <1>3, <1>4
<1> QED BY <1>1, <1>6, <1>7, <1>8 DEF ValidHistory, Results

----------------------------------------------------------------------------
(* Joining and splitting conversations                                     *)

\* w is u and then v, which does not begin in the middle of a round.
Cut(m, n, u, v, w) ==
  /\ m \in Nat /\ n \in Nat /\ u \in Shapes(m) /\ v \in Shapes(n) /\ w \in Shapes(m + n)
  /\ n = 0 \/ v[1].role # "tool"
  /\ \A i \in 1..m : w[i] = u[i]
  /\ \A i \in 1..n : w[m + i] = v[i]

\* What follows a reply is on the same side of the cut.
LEMMA FollowsAcross ==
  ASSUME NEW m, NEW n, NEW u, NEW v, NEW w, Cut(m, n, u, v, w)
  PROVE  /\ DOMAIN u = 1..m /\ DOMAIN v = 1..n /\ DOMAIN w = 1..(m + n)
         /\ \A i \in 1..(m + n) : i \in 1..m \/ (i - m \in 1..n /\ w[i] = v[i - m])
         /\ \A r \in 1..m, i \in 1..m : Follows(w, r, i) <=> Follows(u, r, i)
         /\ \A r \in 1..n, i \in 1..n : Follows(w, m + r, m + i) <=> Follows(v, r, i)
         /\ \A r \in 1..m, i \in 1..(m + n) : Follows(w, r, i) => i \in 1..m
<1> USE DEF Cut
<1>1. DOMAIN u = 1..m /\ DOMAIN v = 1..n /\ DOMAIN w = 1..(m + n)
  BY DEF Shapes
<1>2. \A i \in 1..(m + n) : i \in 1..m \/ (i - m \in 1..n /\ w[i] = v[i - m])
  <2> SUFFICES ASSUME NEW i \in 1..(m + n), i \notin 1..m
               PROVE  i - m \in 1..n /\ w[i] = v[i - m]
    OBVIOUS
  <2>1. i - m \in 1..n /\ m + (i - m) = i
    OBVIOUS
  <2> QED BY <2>1
<1>3. ASSUME NEW r \in 1..m, NEW i \in 1..m
      PROVE  Follows(w, r, i) <=> Follows(u, r, i)
  BY <1>1, <1>3 DEF Follows
<1>4. ASSUME NEW r \in 1..n, NEW i \in 1..n
      PROVE  Follows(w, m + r, m + i) <=> Follows(v, r, i)
  <2>1. m + r \in 1..(m + n) /\ m + i \in 1..(m + n) /\ w[m + r] = v[r] /\ w[m + i] = v[i]
    OBVIOUS
  <2>2. ASSUME Follows(w, m + r, m + i) PROVE Follows(v, r, i)
    <3>1. ASSUME NEW k \in 1..n, r < k, k <= i PROVE v[k].role = "tool"
      <4>1. m + k \in 1..(m + n) /\ m + r < m + k /\ m + k <= m + i
        BY <3>1
      <4> QED BY <1>1, <2>2, <4>1 DEF Follows
    <3> QED BY <1>1, <2>1, <2>2, <3>1 DEF Follows
  <2>3. ASSUME Follows(v, r, i) PROVE Follows(w, m + r, m + i)
    <3>1. ASSUME NEW k \in 1..(m + n), m + r < k, k <= m + i PROVE w[k].role = "tool"
      <4>1. k - m \in 1..n /\ w[k] = v[k - m] /\ r < k - m /\ k - m <= i
        BY <1>2, <3>1
      <4> QED BY <1>1, <2>3, <4>1 DEF Follows
    <3> QED BY <1>1, <2>1, <2>3, <3>1 DEF Follows
  <2> QED BY <2>2, <2>3
<1>5. ASSUME NEW r \in 1..m, NEW i \in 1..(m + n), Follows(w, r, i)
      PROVE  i \in 1..m
  <2> SUFFICES ASSUME i \notin 1..m PROVE FALSE
    OBVIOUS
  <2>1. n # 0 /\ m + 1 \in 1..(m + n) /\ r < m + 1 /\ m + 1 <= i /\ 1 \in 1..n
    BY <1>5
  <2>2. w[m + 1].role = "tool"
    BY <1>1, <1>5, <2>1 DEF Follows
  <2> QED BY <2>1, <2>2
<1> QED BY <1>1, <1>2, <1>3, <1>4, <1>5

\* Two paired conversations in a row are one.
LEMMA Joins ==
  ASSUME NEW m, NEW n, NEW u, NEW v, NEW w, Cut(m, n, u, v, w), Paired(u), Paired(v)
  PROVE  Paired(w)
<1>0. m \in Nat /\ n \in Nat /\ (\A i \in 1..m : w[i] = u[i]) /\ (\A i \in 1..n : w[m + i] = v[i])
  BY DEF Cut
<1>1. DOMAIN u = 1..m /\ DOMAIN v = 1..n /\ DOMAIN w = 1..(m + n)
  BY FollowsAcross
<1>2. \A i \in 1..(m + n) : i \in 1..m \/ (i - m \in 1..n /\ w[i] = v[i - m])
  BY FollowsAcross
<1>3. \A r \in 1..m, i \in 1..m : Follows(w, r, i) <=> Follows(u, r, i)
  BY FollowsAcross
<1>4. \A r \in 1..n, i \in 1..n : Follows(w, m + r, m + i) <=> Follows(v, r, i)
  BY FollowsAcross
<1>5. \A r \in 1..m, i \in 1..(m + n) : Follows(w, r, i) => i \in 1..m
  BY FollowsAcross
<1>6. ASSUME NEW i \in 1..(m + n), w[i].role = "tool"
      PROVE  AnswersOne(w, i)
  <2>1. CASE i \in 1..m
    <3>1. PICK r \in 1..m : Follows(u, r, i)
      BY <1>0, <1>1, <1>6, <2>1 DEF Paired, AnswersOne, AnsweredOnce
    <3>2. Follows(w, r, i) /\ r \in 1..(m + n)
      BY <1>0, <1>3, <2>1, <3>1
    <3>3. u[i].role = "tool" /\ w[i] = u[i]
      BY <1>0, <1>6, <2>1
    <3>4. \E id \in Int : w[i].calls = {id}
      BY <1>1, <2>1, <3>3 DEF Paired, AnswersOne
    <3> QED BY <1>1, <3>2, <3>4 DEF AnswersOne
  <2>2. CASE i \notin 1..m
    <3>1. i - m \in 1..n /\ w[i] = v[i - m]
      BY <1>0, <1>2, <2>2
    <3>2. PICK r \in 1..n : Follows(v, r, i - m)
      BY <1>0, <1>1, <1>6, <3>1 DEF Paired, AnswersOne, AnsweredOnce
    <3>3. Follows(w, m + r, m + (i - m)) /\ m + r \in 1..(m + n) /\ m + (i - m) = i
      BY <1>0, <1>4, <3>1, <3>2
    <3>4. \E id \in Int : w[i].calls = {id}
      <4>1. v[i - m].role = "tool"
        BY <1>6, <3>1
      <4> QED BY <1>1, <3>1, <4>1 DEF Paired, AnswersOne
    <3> QED BY <1>1, <3>3, <3>4 DEF AnswersOne
  <2> QED BY <2>1, <2>2
<1>7. ASSUME NEW r \in 1..(m + n), w[r].role = "assistant"
      PROVE  AnsweredOnce(w, r)
  <2>1. CASE r \in 1..m
    <3>1. /\ u[r].role = "assistant"
          /\ \A i \in 1..(m + n) : Follows(w, r, i) => i \in 1..m /\ Follows(u, r, i)
      BY <1>0, <1>3, <1>5, <1>7, <2>1
    <3>2. /\ \A i \in 1..m : Follows(u, r, i) => u[i].calls \subseteq u[r].calls
          /\ \A id \in u[r].calls : \E i \in 1..m : Follows(u, r, i) /\ u[i].calls = {id}
          /\ \A i, k \in 1..m : Follows(u, r, i) /\ Follows(u, r, k) /\ u[i].calls = u[k].calls => i = k
      BY <1>0, <1>1, <2>1, <3>1 DEF Paired, AnswersOne, AnsweredOnce
    <3>3. \A id \in w[r].calls : \E i \in 1..(m + n) : Follows(w, r, i) /\ w[i].calls = {id}
      <4> SUFFICES ASSUME NEW id \in u[r].calls
                   PROVE  \E i \in 1..(m + n) : Follows(w, r, i) /\ w[i].calls = {id}
        BY <1>0, <2>1
      <4>1. PICK i \in 1..m : Follows(u, r, i) /\ u[i].calls = {id}
        BY <3>2
      <4>2. i \in 1..(m + n) /\ w[i] = u[i]
        BY <1>0
      <4> QED BY <1>3, <2>1, <4>1, <4>2
    <3>4. w[r] = u[r] /\ \A i \in 1..(m + n) : Follows(w, r, i) => Follows(u, r, i) /\ w[i] = u[i] /\ i \in 1..m
      BY <1>0, <2>1, <3>1
    <3>5. \A i \in 1..(m + n) : Follows(w, r, i) => w[i].calls \subseteq w[r].calls
      BY <3>2, <3>4
    <3>6. \A i, k \in 1..(m + n) :
            Follows(w, r, i) /\ Follows(w, r, k) /\ w[i].calls = w[k].calls => i = k
      BY <3>2, <3>4
    <3> QED BY <1>1, <3>3, <3>5, <3>6 DEF AnsweredOnce
  <2>2. CASE r \notin 1..m
    <3>1. r - m \in 1..n /\ w[r] = v[r - m] /\ m + (r - m) = r
      BY <1>0, <1>2, <2>2
    <3>2. \A i \in 1..(m + n) : Follows(w, r, i) =>
            i - m \in 1..n /\ w[i] = v[i - m] /\ Follows(v, r - m, i - m)
      <4> SUFFICES ASSUME NEW i \in 1..(m + n), Follows(w, r, i)
                   PROVE  i - m \in 1..n /\ w[i] = v[i - m] /\ Follows(v, r - m, i - m)
        OBVIOUS
      <4>1. i \notin 1..m
        <5>1. r < i /\ r \in 1..(m + n)
          BY DEF Follows
        <5> QED BY <1>0, <2>2, <5>1
      <4>2. i - m \in 1..n /\ w[i] = v[i - m] /\ m + (i - m) = i
        BY <1>0, <1>2, <4>1
      <4> QED BY <1>0, <1>4, <3>1, <4>2
    <3>3. /\ \A i \in 1..n : Follows(v, r - m, i) => v[i].calls \subseteq v[r - m].calls
          /\ \A id \in v[r - m].calls : \E i \in 1..n : Follows(v, r - m, i) /\ v[i].calls = {id}
          /\ \A i, k \in 1..n :
               Follows(v, r - m, i) /\ Follows(v, r - m, k) /\ v[i].calls = v[k].calls => i = k
      <4>1. v[r - m].role = "assistant"
        BY <1>7, <3>1
      <4> QED BY <1>1, <3>1, <4>1 DEF Paired, AnsweredOnce
    <3>4. \A id \in w[r].calls : \E i \in 1..(m + n) : Follows(w, r, i) /\ w[i].calls = {id}
      <4> SUFFICES ASSUME NEW id \in v[r - m].calls
                   PROVE  \E i \in 1..(m + n) : Follows(w, r, i) /\ w[i].calls = {id}
        BY <3>1
      <4>1. PICK i \in 1..n : Follows(v, r - m, i) /\ v[i].calls = {id}
        BY <3>3
      <4>2. Follows(w, m + (r - m), m + i) /\ m + i \in 1..(m + n) /\ w[m + i] = v[i]
        BY <1>0, <1>4, <3>1, <4>1
      <4> QED BY <3>1, <4>1, <4>2
    <3>5. \A i, k \in 1..(m + n) :
            Follows(w, r, i) /\ Follows(w, r, k) /\ w[i].calls = w[k].calls => i = k
      <4> SUFFICES ASSUME NEW i \in 1..(m + n), NEW k \in 1..(m + n), Follows(w, r, i),
                          Follows(w, r, k), w[i].calls = w[k].calls
                   PROVE  i = k
        OBVIOUS
      <4>1. i - m = k - m
        BY <3>2, <3>3
      <4>2. i \in Int /\ k \in Int /\ m \in Int
        BY <1>0
      <4> QED BY <4>1, <4>2
    <3>6. \A i \in 1..(m + n) : Follows(w, r, i) => w[i].calls \subseteq w[r].calls
      BY <3>1, <3>2, <3>3
    <3> QED BY <1>1, <3>4, <3>5, <3>6 DEF AnsweredOnce
  <2> QED BY <2>1, <2>2
<1> QED BY <1>1, <1>6, <1>7 DEF Paired

\* A paired conversation that is cut where no result follows is paired on
\* either side of the cut.
LEMMA Splits ==
  ASSUME NEW m, NEW n, NEW u, NEW v, NEW w, Cut(m, n, u, v, w), Paired(w)
  PROVE  Paired(u) /\ Paired(v)
<1>0. m \in Nat /\ n \in Nat /\ (\A i \in 1..m : w[i] = u[i]) /\ (\A i \in 1..n : w[m + i] = v[i])
  BY DEF Cut
<1>1. DOMAIN u = 1..m /\ DOMAIN v = 1..n /\ DOMAIN w = 1..(m + n)
  BY FollowsAcross
<1>2. \A i \in 1..(m + n) : i \in 1..m \/ (i - m \in 1..n /\ w[i] = v[i - m])
  BY FollowsAcross
<1>3. \A r \in 1..m, i \in 1..m : Follows(w, r, i) <=> Follows(u, r, i)
  BY FollowsAcross
<1>4. \A r \in 1..n, i \in 1..n : Follows(w, m + r, m + i) <=> Follows(v, r, i)
  BY FollowsAcross
<1>5. \A r \in 1..m, i \in 1..(m + n) : Follows(w, r, i) => i \in 1..m
  BY FollowsAcross
<1>6. ASSUME NEW i \in 1..(m + n), w[i].role = "tool"
      PROVE  (\E r \in 1..(m + n) : Follows(w, r, i)) /\ (\E id \in Int : w[i].calls = {id})
  BY <1>1, <1>6 DEF Paired, AnswersOne, AnsweredOnce
<1>7. ASSUME NEW r \in 1..(m + n), w[r].role = "assistant"
      PROVE  /\ \A i \in 1..(m + n) : Follows(w, r, i) => w[i].calls \subseteq w[r].calls
             /\ \A id \in w[r].calls : \E i \in 1..(m + n) : Follows(w, r, i) /\ w[i].calls = {id}
             /\ \A i, k \in 1..(m + n) :
                  Follows(w, r, i) /\ Follows(w, r, k) /\ w[i].calls = w[k].calls => i = k
  BY <1>1, <1>7 DEF Paired, AnswersOne, AnsweredOnce
<1>8. 1..m \subseteq 1..(m + n) /\ \A i \in 1..n : m + i \in 1..(m + n) /\ m + i \notin 1..m
  BY <1>0
<1>9. Paired(u)
  <2>1. ASSUME NEW i \in 1..m, u[i].role = "tool"
        PROVE  AnswersOne(u, i)
    <3>1. PICK r \in 1..(m + n) : Follows(w, r, i)
      BY <1>0, <1>6, <1>8, <2>1
    <3>2. r \in 1..m
      BY <1>0, <3>1 DEF Follows
    <3>3. \E id \in Int : u[i].calls = {id}
      BY <1>0, <1>6, <1>8, <2>1
    <3> QED BY <1>1, <1>3, <3>1, <3>2, <3>3 DEF AnswersOne
  <2>2. ASSUME NEW r \in 1..m, u[r].role = "assistant"
        PROVE  AnsweredOnce(u, r)
    <3>1. w[r] = u[r] /\ r \in 1..(m + n)
      BY <1>0, <1>8
    <3>2. \A i \in 1..m : w[i] = u[i] /\ i \in 1..(m + n) /\ (Follows(u, r, i) <=> Follows(w, r, i))
      BY <1>0, <1>3, <1>8
    <3>3. \A id \in u[r].calls : \E i \in 1..m : Follows(u, r, i) /\ u[i].calls = {id}
      <4> SUFFICES ASSUME NEW id \in u[r].calls
                   PROVE  \E i \in 1..m : Follows(u, r, i) /\ u[i].calls = {id}
        OBVIOUS
      <4>1. PICK i \in 1..(m + n) : Follows(w, r, i) /\ w[i].calls = {id}
        BY <1>7, <2>2, <3>1
      <4>2. i \in 1..m
        BY <1>5, <4>1
      <4> QED BY <3>2, <4>1, <4>2
    <3>4. \A i \in 1..m : Follows(u, r, i) => u[i].calls \subseteq u[r].calls
      BY <1>7, <2>2, <3>1, <3>2
    <3>5. \A i, k \in 1..m : Follows(u, r, i) /\ Follows(u, r, k) /\ u[i].calls = u[k].calls => i = k
      BY <1>7, <2>2, <3>1, <3>2
    <3> QED BY <1>1, <3>3, <3>4, <3>5 DEF AnsweredOnce
  <2> QED BY <1>1, <2>1, <2>2 DEF Paired
<1>10. Paired(v)
  <2>1. ASSUME NEW i \in 1..n, v[i].role = "tool"
        PROVE  AnswersOne(v, i)
    <3>1. PICK r \in 1..(m + n) : Follows(w, r, m + i)
      BY <1>0, <1>6, <1>8, <2>1
    <3>2. r \notin 1..m
      BY <1>5, <1>8, <3>1
    <3>3. r - m \in 1..n /\ m + (r - m) = r
      BY <1>0, <1>2, <3>2
    <3>4. Follows(v, r - m, i)
      BY <1>4, <3>1, <3>3
    <3>5. \E id \in Int : v[i].calls = {id}
      BY <1>0, <1>6, <1>8, <2>1
    <3> QED BY <1>1, <3>3, <3>4, <3>5 DEF AnswersOne
  <2>2. ASSUME NEW r \in 1..n, v[r].role = "assistant"
        PROVE  AnsweredOnce(v, r)
    <3>1. w[m + r] = v[r] /\ m + r \in 1..(m + n)
      BY <1>0, <1>8
    <3>2. \A i \in 1..n : /\ w[m + i] = v[i] /\ m + i \in 1..(m + n)
                          /\ Follows(v, r, i) <=> Follows(w, m + r, m + i)
      BY <1>0, <1>4, <1>8
    <3>3. \A id \in v[r].calls : \E i \in 1..n : Follows(v, r, i) /\ v[i].calls = {id}
      <4> SUFFICES ASSUME NEW id \in v[r].calls
                   PROVE  \E i \in 1..n : Follows(v, r, i) /\ v[i].calls = {id}
        OBVIOUS
      <4>1. PICK i \in 1..(m + n) : Follows(w, m + r, i) /\ w[i].calls = {id}
        BY <1>7, <2>2, <3>1
      <4>2. i \notin 1..m
        BY <1>0, <4>1 DEF Follows
      <4>3. i - m \in 1..n /\ m + (i - m) = i
        BY <1>0, <1>2, <4>2
      <4> QED BY <3>2, <4>1, <4>3
    <3>4. \A i \in 1..n : Follows(v, r, i) => v[i].calls \subseteq v[r].calls
      BY <1>7, <2>2, <3>1, <3>2
    <3>5. \A i, k \in 1..n : Follows(v, r, i) /\ Follows(v, r, k) /\ v[i].calls = v[k].calls => i = k
      <4> SUFFICES ASSUME NEW i \in 1..n, NEW k \in 1..n, Follows(v, r, i), Follows(v, r, k),
                          v[i].calls = v[k].calls
                   PROVE  i = k
        OBVIOUS
      <4>1. m + i = m + k
        BY <1>7, <2>2, <3>1, <3>2
      <4> QED BY <1>0, <4>1
    <3> QED BY <1>1, <3>3, <3>4, <3>5 DEF AnsweredOnce
  <2> QED BY <1>1, <2>1, <2>2 DEF Paired
<1> QED BY <1>9, <1>10
----------------------------------------------------------------------------
(* Histories                                                               *)

\* A function on the first numbers is a sequence.
LEMMA FunctionIsSeq ==
  ASSUME NEW S, NEW n \in Nat, NEW f \in [1..n -> S]
  PROVE  f \in Seq(S) /\ Len(f) = n
OBVIOUS

\* A conversation without results, in which no reply calls a tool, is paired.
LEMMA WithoutCalls ==
  ASSUME NEW n \in Nat, NEW s \in Shapes(n), \A i \in 1..n : s[i].role # "tool",
         \A i \in 1..n : s[i].role = "assistant" => s[i].calls = {}
  PROVE  Paired(s)
<1>1. DOMAIN s = 1..n
  BY DEF Shapes
<1>2. \A r, i \in 1..n : ~Follows(s, r, i)
  BY <1>1 DEF Follows, Shapes
<1> QED BY <1>1, <1>2 DEF Paired, AnsweredOnce

\* Two histories in a row.
LEMMA Concatenates ==
  ASSUME NEW g \in Seq(Message), NEW h \in Seq(Message), Paired(Shape(g)), Paired(Shape(h)),
         h = <<>> \/ h[1].role # "tool"
  PROVE  /\ g \o h \in Seq(Message) /\ Paired(Shape(g \o h))
         /\ HasTask(Shape(g)) \/ HasTask(Shape(h)) => HasTask(Shape(g \o h))
<1> DEFINE m == Len(g)
           n == Len(h)
<1>1. /\ g \o h \in Seq(Message) /\ Len(g \o h) = m + n /\ m \in Nat /\ n \in Nat
      /\ \A i \in 1..m : i \in 1..(m + n) /\ (g \o h)[i] = g[i]
      /\ \A i \in 1..n : m + i \in 1..(m + n) /\ (g \o h)[m + i] = h[i]
  OBVIOUS
<1>2. PICK f : f = g \o h
  OBVIOUS
<1> HIDE DEF m, n
<1>3. /\ Shape(f) \in Shapes(m + n) /\ DOMAIN Shape(f) = 1..(m + n)
      /\ \A i \in 1..(m + n) : /\ Shape(f)[i].role = f[i].role
                              /\ Shape(f)[i].calls = f[i].calls
  BY <1>1, <1>2, ShapeTyped
<1>4. Shape(g) \in Shapes(m) /\ Shape(h) \in Shapes(n) /\ DOMAIN g = 1..m /\ DOMAIN h = 1..n
  BY ShapeTyped DEF m, n
<1>5. n = 0 \/ Shape(h)[1].role # "tool"
  BY ShapeTyped DEF n
<1>6. DOMAIN f = 1..(m + n)
  BY <1>1, <1>2
<1>7. \A i \in 1..m : Shape(f)[i] = Shape(g)[i]
  BY <1>1, <1>2, <1>4, <1>6 DEF Shape
<1>8. \A i \in 1..n : Shape(f)[m + i] = Shape(h)[i]
  BY <1>1, <1>2, <1>4, <1>6 DEF Shape
<1>9. Cut(m, n, Shape(g), Shape(h), Shape(f))
  BY <1>1, <1>3, <1>4, <1>5, <1>7, <1>8 DEF Cut
<1>10. Paired(Shape(f))
  BY <1>9, Joins
<1>11. HasTask(Shape(g)) \/ HasTask(Shape(h)) => HasTask(Shape(f))
  BY <1>1, <1>3, <1>4, <1>7, <1>8 DEF HasTask, Shapes
<1> QED BY <1>1, <1>2, <1>10, <1>11

\* A history that is cut where no result follows.
LEMMA Divides ==
  ASSUME NEW h \in Seq(Message), NEW c \in 1..(Len(h) + 1), Paired(Shape(h)),
         c = Len(h) + 1 \/ h[c].role # "tool"
  PROVE  /\ SubSeq(h, 1, c - 1) \in Seq(Message) /\ Paired(Shape(SubSeq(h, 1, c - 1)))
         /\ SubSeq(h, c, Len(h)) \in Seq(Message) /\ Paired(Shape(SubSeq(h, c, Len(h))))
         /\ c <= Len(h) => SubSeq(h, c, Len(h)) # <<>> /\ SubSeq(h, c, Len(h))[1] = h[c]
<1> DEFINE m == c - 1
           n == Len(h) - m
<1>1. PICK g : g = SubSeq(h, 1, m)
  OBVIOUS
<1>2. PICK f : f = SubSeq(h, c, Len(h))
  OBVIOUS
<1>3. m \in Nat /\ n \in Nat /\ m + n = Len(h) /\ c = m + 1
  OBVIOUS
<1>4. g \in Seq(Message) /\ Len(g) = m /\ \A i \in 1..m : g[i] = h[i]
  BY <1>1
<1>5. f \in Seq(Message) /\ Len(f) = n /\ \A i \in 1..n : f[i] = h[m + i]
  BY <1>2
<1> HIDE DEF m, n
<1>6. /\ Shape(h) \in Shapes(m + n) /\ Shape(g) \in Shapes(m) /\ Shape(f) \in Shapes(n)
      /\ DOMAIN h = 1..(m + n) /\ DOMAIN g = 1..m /\ DOMAIN f = 1..n
  BY <1>3, <1>4, <1>5, ShapeTyped
<1>7. (\A i \in 1..m : i \in 1..(m + n)) /\ (\A i \in 1..n : m + i \in 1..(m + n))
  BY <1>3
<1>8. \A i \in 1..m : Shape(h)[i] = Shape(g)[i]
  BY <1>4, <1>6, <1>7 DEF Shape
<1>9. \A i \in 1..n : Shape(h)[m + i] = Shape(f)[i]
  BY <1>5, <1>6, <1>7 DEF Shape
<1>10. n = 0 \/ (1 \in 1..n /\ f[1] = h[c] /\ Shape(f)[1].role # "tool")
  <2>1. CASE n = 0
    BY <2>1
  <2>2. CASE n # 0
    <3>1. 1 \in 1..n /\ c # Len(h) + 1
      BY <1>3, <2>2
    <3>2. f[1] = h[c]
      BY <1>3, <1>5, <3>1
    <3> QED BY <1>6, <3>1, <3>2 DEF Shape
  <2> QED BY <2>1, <2>2
<1>11. Cut(m, n, Shape(g), Shape(f), Shape(h))
  BY <1>3, <1>6, <1>8, <1>9, <1>10 DEF Cut
<1>12. Paired(Shape(g)) /\ Paired(Shape(f))
  BY <1>11, Splits
<1>13. c <= Len(h) => n # 0
  BY <1>3
<1> QED BY <1>1, <1>2, <1>4, <1>5, <1>10, <1>12, <1>13 DEF m

----------------------------------------------------------------------------
(* Compaction                                                              *)

\* Pruning shortens messages and changes nothing else.
LEMMA PruneKeepsShape ==
  ASSUME NEW h \in Seq(Message)
  PROVE  Prune(h) \in Seq(Message) /\ Len(Prune(h)) = Len(h) /\ Shape(Prune(h)) = Shape(h)
<1>1. Len(h) \in Nat /\ DOMAIN h = 1..Len(h) /\ \A i \in 1..Len(h) : h[i] \in Message
  BY ShapeTyped
<1>2. DOMAIN Prune(h) = 1..Len(h)
  BY <1>1 DEF Prune
<1>3. ASSUME NEW i \in 1..Len(h)
      PROVE  /\ Prune(h)[i] \in Message /\ Prune(h)[i].role = h[i].role
             /\ Prune(h)[i].calls = h[i].calls
  <2>1. h[i] \in Message /\ Least(h[i].size, Short) \in Int
    BY <1>1, ShortAssumption DEF Message, Least
  <2>2. Prune(h)[i] = IF Old(h, i) THEN [h[i] EXCEPT !.size = Least(h[i].size, Short)] ELSE h[i]
    BY <1>1, <2>1 DEF Prune, Message
  <2> QED BY <2>1, <2>2 DEF Message
<1>4. Prune(h) \in [1..Len(h) -> Message]
  <2>1. Prune(h) = [i \in 1..Len(h) |-> Prune(h)[i]]
    BY <1>1 DEF Prune
  <2> QED BY <1>3, <2>1
<1>5. Prune(h) \in Seq(Message) /\ Len(Prune(h)) = Len(h)
  BY <1>1, <1>4, FunctionIsSeq
<1>6. Shape(Prune(h)) = Shape(h)
  BY <1>1, <1>2, <1>3 DEF Shape
<1> QED BY <1>5, <1>6

\* A text is a message that calls nothing.
LEMMA TextIsMessage ==
  ASSUME NEW role \in {"system", "user", "assistant"}, NEW n \in Int
  PROVE  /\ Text(role, n) \in Message /\ Text(role, n).role = role
         /\ Text(role, n).calls = {}
<1>1. Text(role, n) = [role |-> role, calls |-> {}, size |-> n]
  BY DEF Text
<1>2. {} \in SUBSET Int /\ role \in {"system", "user", "assistant", "tool"}
  OBVIOUS
<1> QED BY <1>1, <1>2 DEF Message

\* A single message that is no result and calls nothing.
LEMMA Single ==
  ASSUME NEW m \in Message, m.role # "tool", m.role = "assistant" => m.calls = {}
  PROVE  /\ <<m>> \in Seq(Message) /\ Paired(Shape(<<m>>))
         /\ m.role = "user" => HasTask(Shape(<<m>>))
<1>1. PICK h : h = <<m>>
  OBVIOUS
<1>2. h \in Seq(Message) /\ Len(h) = 1 /\ h[1] = m
  BY <1>1
<1>3. /\ Shape(h) \in Shapes(1) /\ DOMAIN Shape(h) = 1..1
      /\ Shape(h)[1].role = m.role /\ Shape(h)[1].calls = m.calls
  BY <1>2, ShapeTyped
<1>4. Paired(Shape(h))
  <2>1. \A i \in 1..1 : i = 1
    OBVIOUS
  <2>2. \A i \in 1..1 : Shape(h)[i].role # "tool"
    BY <1>3, <2>1
  <2>3. \A i \in 1..1 : Shape(h)[i].role = "assistant" => Shape(h)[i].calls = {}
    BY <1>3, <2>1
  <2>4. 1 \in Nat
    OBVIOUS
  <2> QED BY <1>3, <2>2, <2>3, <2>4, WithoutCalls
<1> QED BY <1>1, <1>2, <1>3, <1>4 DEF HasTask

\* A history with a task.
Sendable(h) == h \in Seq(Message) /\ Paired(Shape(h)) /\ HasTask(Shape(h))

\* The summary of a history stands for all but its prompt and its task.
LEMMA CompactedSendable ==
  ASSUME NEW h, Sendable(h), NEW summary \in Int
  PROVE  Sendable(Compacted(h, summary))
<1> DEFINE users == {i \in DOMAIN h : h[i].role = "user"}
           task == CHOOSE i \in users : \A k \in users : i <= k
           rest == <<h[task], Text("assistant", summary), Text("user", 1)>>
           head == IF h[1].role = "system" THEN <<h[1]>> ELSE <<>>
<1>1. Len(h) \in Nat /\ DOMAIN h = 1..Len(h) /\ \A i \in 1..Len(h) : h[i] \in Message
  BY ShapeTyped DEF Sendable
<1>2. users \in SUBSET (1..Len(h)) /\ users # {}
  BY <1>1, ShapeTyped DEF Sendable, HasTask
<1>3. task \in users
  <2>1. \E i \in users : \A k \in users : i <= k
    BY <1>1, <1>2, FirstAndLast
  <2> HIDE DEF users
  <2> QED BY <2>1
<1>4. h[task] \in Message /\ h[task].role = "user" /\ 1 \in 1..Len(h)
  BY <1>1, <1>2, <1>3
<1>5. PICK first : first = h[task]
  OBVIOUS
<1>6. /\ rest = <<first, Text("assistant", summary), Text("user", 1)>>
      /\ first \in Message /\ first.role = "user"
  BY <1>4, <1>5
<1> HIDE DEF task, users
<1>7. /\ rest \in Seq(Message) /\ Len(rest) = 3 /\ rest[1] = first
      /\ rest[2] = Text("assistant", summary) /\ rest[3] = Text("user", 1)
  <2>1. Text("assistant", summary) \in Message
    <3>1. "assistant" \in {"system", "user", "assistant"}
      OBVIOUS
    <3> QED BY <3>1, TextIsMessage
  <2>2. Text("user", 1) \in Message
    <3>1. "user" \in {"system", "user", "assistant"} /\ 1 \in Int
      OBVIOUS
    <3> QED BY <3>1, TextIsMessage
  <2> QED BY <1>6, <2>1, <2>2
<1> HIDE DEF rest
<1>8. Paired(Shape(rest)) /\ HasTask(Shape(rest)) /\ rest # <<>> /\ rest[1].role # "tool"
  <2>1. /\ Shape(rest) \in Shapes(3) /\ DOMAIN Shape(rest) = 1..3
        /\ \A i \in 1..3 : Shape(rest)[i].role = rest[i].role /\ Shape(rest)[i].calls = rest[i].calls
    BY <1>7, ShapeTyped
  <2>2. \A i \in 1..3 : /\ rest[i].role \in {"user", "assistant"}
                        /\ rest[i].role = "assistant" => rest[i].calls = {}
    <3>1. Text("assistant", summary).calls = {} /\ Text("assistant", summary).role = "assistant"
          /\ Text("user", 1).role = "user"
      BY DEF Text
    <3>2. \A i \in 1..3 : i = 1 \/ i = 2 \/ i = 3
      OBVIOUS
    <3> QED BY <1>6, <1>7, <3>1, <3>2
  <2>3. Paired(Shape(rest))
    BY <2>1, <2>2, WithoutCalls
  <2>4. 1 \in 1..3
    OBVIOUS
  <2> QED BY <1>6, <1>7, <2>1, <2>3, <2>4 DEF HasTask
<1>9. CASE h[1].role = "system"
  <2>1. head = <<h[1]>> /\ h[1] \in Message
    BY <1>1, <1>4, <1>9
  <2>2. <<h[1]>> \in Seq(Message) /\ Paired(Shape(<<h[1]>>))
    BY <1>9, <2>1, Single
  <2>3. Compacted(h, summary) = <<h[1]>> \o rest
    BY <1>9 DEF Compacted, rest, task, users
  <2> QED BY <1>7, <1>8, <2>2, <2>3, Concatenates DEF Sendable
<1>10. CASE h[1].role # "system"
  <2>1. Compacted(h, summary) = <<>> \o rest
    BY <1>10 DEF Compacted, rest, task, users
  <2>2. <<>> \o rest = rest
    BY <1>7
  <2> QED BY <1>7, <1>8, <2>1, <2>2 DEF Sendable
<1> QED BY <1>9, <1>10

\* The head of a history ends where its first round starts.
LEMMA HeadEndsAtARound ==
  ASSUME NEW h \in Seq(Message)
  PROVE  /\ HeadLength(h) \in 0..Len(h)
         /\ HeadLength(h) = Len(h) \/ h[HeadLength(h) + 1].role = "assistant"
<1> DEFINE first == {i \in DOMAIN h : HasCalls(h[i])}
           least == CHOOSE i \in first : \A k \in first : i <= k
<1>1. Len(h) \in Nat /\ DOMAIN h = 1..Len(h)
  OBVIOUS
<1>2. HeadLength(h) = IF first = {} THEN Len(h) ELSE least - 1
  BY DEF HeadLength
<1>3. first \in SUBSET (1..Len(h)) /\ \A i \in first : h[i].role = "assistant"
  BY <1>1 DEF HasCalls
<1> HIDE DEF first
<1>4. ASSUME first # {} PROVE least \in first
  <2>1. \E i \in first : \A k \in first : i <= k
    BY <1>1, <1>3, <1>4, FirstAndLast
  <2> QED BY <2>1
<1> HIDE DEF least
<1>5. CASE first = {}
  BY <1>1, <1>2, <1>5
<1>6. CASE first # {}
  <2>1. least \in 1..Len(h) /\ h[least].role = "assistant" /\ HeadLength(h) = least - 1
    BY <1>2, <1>3, <1>4, <1>6
  <2>2. HeadLength(h) + 1 = least /\ HeadLength(h) \in 0..Len(h)
    BY <1>1, <2>1
  <2> QED BY <2>1, <2>2
<1> QED BY <1>5, <1>6

\* Pruning leaves the rounds where they are.
LEMMA PruneKeepsRounds ==
  ASSUME NEW h \in Seq(Message)
  PROVE  RoundStarts(Prune(h)) = RoundStarts(h)
<1>1. PICK g : g = Prune(h)
  OBVIOUS
<1>2. g \in Seq(Message) /\ Len(g) = Len(h) /\ Shape(g) = Shape(h)
  BY <1>1, PruneKeepsShape
<1>3. /\ DOMAIN g = 1..Len(h) /\ DOMAIN h = 1..Len(h)
      /\ \A i \in 1..Len(h) : g[i].role = h[i].role /\ g[i].calls = h[i].calls
  <2>1. /\ DOMAIN g = 1..Len(g)
        /\ \A i \in 1..Len(g) : Shape(g)[i].role = g[i].role /\ Shape(g)[i].calls = g[i].calls
    BY <1>2, ShapeTyped
  <2>2. /\ DOMAIN h = 1..Len(h)
        /\ \A i \in 1..Len(h) : Shape(h)[i].role = h[i].role /\ Shape(h)[i].calls = h[i].calls
    BY ShapeTyped
  <2> QED BY <1>2, <2>1, <2>2
<1>4. {i \in DOMAIN g : HasCalls(g[i])} = {i \in DOMAIN h : HasCalls(h[i])}
  BY <1>3 DEF HasCalls
<1>5. HeadLength(g) = HeadLength(h)
  <2> DEFINE Length(x, s) == IF s = {} THEN Len(x) ELSE (CHOOSE i \in s : \A k \in s : i <= k) - 1
  <2>1. HeadLength(g) = Length(g, {i \in DOMAIN g : HasCalls(g[i])})
    BY DEF HeadLength
  <2>2. HeadLength(h) = Length(h, {i \in DOMAIN h : HasCalls(h[i])})
    BY DEF HeadLength
  <2>3. \A s : Length(g, s) = Length(h, s)
    BY <1>2
  <2> HIDE DEF Length
  <2> QED BY <1>4, <2>1, <2>2, <2>3
<1>6. RoundStarts(g) = RoundStarts(h)
  BY <1>3, <1>5 DEF RoundStarts
<1> QED BY <1>1, <1>6

\* A request for a summary is a history with a task, whichever rounds it leaves
\* out.
LEMMA SummaryRequestSendable ==
  ASSUME NEW h, Sendable(h), Compactable(h), NEW room
  PROVE  Sendable(SummaryRequest(h, room))
<1> DEFINE starts == RoundStarts(h)
           note == <<Text("user", 1)>>
           head == SubSeq(h, 1, HeadLength(h))
           From(s) == SubSeq(h, s, Len(h))
           With(s) ==
             IF \A k \in starts : s <= k THEN h
             ELSE SubSeq(h, 1, HeadLength(h)) \o <<Text("user", 1)>> \o From(s)
           Fits(s) == HistorySize(With(s)) + 1 <= room
           last == CHOOSE s \in starts : \A k \in starts : k <= s
           first == CHOOSE s \in starts : Fits(s) /\ \A k \in starts : Fits(k) => s <= k
           cut == IF \E s \in starts : Fits(s) THEN first ELSE last
<1>1. h \in Seq(Message) /\ Paired(Shape(h)) /\ Len(h) \in Nat /\ DOMAIN h = 1..Len(h)
  BY DEF Sendable
<1>2. /\ starts \in SUBSET (1..Len(h)) /\ starts # {}
      /\ \A s \in starts : h[s].role = "assistant"
  BY <1>1 DEF Compactable, RoundStarts
<1>3. SummaryRequest(h, room) = Append(With(cut), Text("user", 1))
  BY DEF SummaryRequest
<1>4. cut \in starts
  <2> HIDE DEF starts, Fits
  <2>1. last \in starts
    <3>1. \E s \in starts : \A k \in starts : k <= s
      BY <1>1, <1>2, FirstAndLast
    <3> QED BY <3>1
  <2>2. ASSUME \E s \in starts : Fits(s) PROVE first \in starts
    <3>1. PICK fitting : fitting = {s \in starts : Fits(s)}
      OBVIOUS
    <3>2. fitting \in SUBSET (1..Len(h)) /\ fitting # {}
      BY <1>2, <2>2, <3>1
    <3>3. \E s \in fitting : \A k \in fitting : s <= k
      BY <1>1, <3>2, FirstAndLast
    <3>4. \E s \in starts : Fits(s) /\ \A k \in starts : Fits(k) => s <= k
      BY <3>1, <3>3
    <3> QED BY <3>4
  <2> QED BY <2>1, <2>2
<1>5. PICK c : c = cut
  OBVIOUS
<1>6. c \in 1..Len(h) /\ h[c].role = "assistant"
  BY <1>2, <1>4, <1>5
<1>7. With(c) = h \/ With(c) = (head \o note) \o From(c)
  OBVIOUS
<1>8. Text("user", 1) \in Message /\ Text("user", 1).role = "user"
  <2>1. "user" \in {"system", "user", "assistant"} /\ 1 \in Int
    OBVIOUS
  <2> QED BY <2>1, TextIsMessage
<1>9. /\ note \in Seq(Message) /\ Paired(Shape(note)) /\ HasTask(Shape(note))
      /\ note # <<>> /\ note[1].role # "tool"
  <2>1. PICK m : m = Text("user", 1)
    OBVIOUS
  <2>2. <<m>> \in Seq(Message) /\ Paired(Shape(<<m>>)) /\ HasTask(Shape(<<m>>))
    BY <1>8, <2>1, Single
  <2> QED BY <1>8, <2>1, <2>2
<1>10. head \in Seq(Message) /\ Paired(Shape(head))
  <2>1. PICK e : e = HeadLength(h) + 1
    OBVIOUS
  <2>2. e \in 1..(Len(h) + 1) /\ e - 1 = HeadLength(h) /\ (e = Len(h) + 1 \/ h[e].role # "tool")
    BY <1>1, <2>1, HeadEndsAtARound
  <2> QED BY <1>1, <2>2, Divides
<1>11. /\ From(c) \in Seq(Message) /\ Paired(Shape(From(c)))
       /\ From(c) # <<>> /\ From(c)[1].role # "tool"
  <2>1. c \in 1..(Len(h) + 1) /\ h[c].role # "tool" /\ c <= Len(h)
    BY <1>1, <1>6
  <2> QED BY <1>1, <1>6, <2>1, Divides
<1>12. With(c) \in Seq(Message) /\ Paired(Shape(With(c)))
  <2> HIDE DEF With, head, note, From
  <2>1. head \o note \in Seq(Message) /\ Paired(Shape(head \o note))
    BY <1>9, <1>10, Concatenates
  <2>2. (head \o note) \o From(c) \in Seq(Message) /\ Paired(Shape((head \o note) \o From(c)))
    BY <1>11, <2>1, Concatenates
  <2> QED BY <1>1, <1>7, <2>2
<1>13. PICK g : g = With(c)
  OBVIOUS
<1>14. g \o note \in Seq(Message) /\ Paired(Shape(g \o note)) /\ HasTask(Shape(g \o note))
  <2>1. g \in Seq(Message) /\ Paired(Shape(g))
    BY <1>12, <1>13
  <2> HIDE DEF note
  <2> QED BY <1>9, <2>1, Concatenates
<1>15. SummaryRequest(h, room) = g \o note
  <2>1. SummaryRequest(h, room) = Append(g, Text("user", 1))
    BY <1>3, <1>5, <1>13
  <2>2. g \in Seq(Message)
    BY <1>12, <1>13
  <2>3. Append(g, Text("user", 1)) = g \o note
    BY <1>8, <2>2
  <2> QED BY <2>1, <2>3
<1> QED BY <1>14, <1>15 DEF Sendable

----------------------------------------------------------------------------
(* A round                                                                 *)

\* The shape of a round of n calls, the last of which is answered first.
Round(n, base) ==
  [i \in 1..(n + 1) |->
     IF i = 1 THEN [role |-> "assistant", calls |-> {base + k : k \in 1..n}]
     ELSE [role |-> "tool", calls |-> {base + (n + 2 - i)}]]

\* The shape a history will have when its last t calls are answered.
Completed(h, t, base) ==
  [i \in 1..(Len(h) + t) |->
     IF i <= Len(h) THEN Shape(h)[i]
     ELSE [role |-> "tool", calls |-> {base + (t + 1 - (i - Len(h)))}]]

\* A round answers its calls.
LEMMA RoundIsPaired ==
  ASSUME NEW n \in Nat, NEW base \in Int
  PROVE  Round(n, base) \in Shapes(n + 1) /\ Paired(Round(n, base))
<1> DEFINE s == Round(n, base)
<1>1. DOMAIN s = 1..(n + 1) /\ 1 \in 1..(n + 1)
  BY DEF Round
<1>2. s[1].role = "assistant" /\ s[1].calls = {base + k : k \in 1..n}
  BY <1>1 DEF Round
<1>3. \A i \in 1..(n + 1) : i # 1 => s[i].role = "tool" /\ s[i].calls = {base + (n + 2 - i)}
  BY <1>1 DEF Round
<1>4. s \in Shapes(n + 1)
  <2>1. \A i \in 1..(n + 1) :
          s[i] \in [role : {"system", "user", "assistant", "tool"}, calls : SUBSET Int]
    <3>1. {base + k : k \in 1..n} \in SUBSET Int
      OBVIOUS
    <3>2. \A i \in 1..(n + 1) : {base + (n + 2 - i)} \in SUBSET Int
      OBVIOUS
    <3> QED BY <3>1, <3>2 DEF Round
  <2>2. s = [i \in 1..(n + 1) |-> s[i]]
    BY DEF Round
  <2> QED BY <2>1, <2>2 DEF Shapes
<1> HIDE DEF s
<1>5. \A i \in 1..(n + 1) : Follows(s, 1, i) <=> i # 1
  BY <1>1, <1>2, <1>3 DEF Follows
<1>6. ASSUME NEW i \in 1..(n + 1), s[i].role = "tool"
      PROVE  AnswersOne(s, i)
  <2>1. i # 1
    BY <1>2, <1>6
  <2>2. base + (n + 2 - i) \in Int
    OBVIOUS
  <2> QED BY <1>1, <1>3, <1>5, <2>1, <2>2 DEF AnswersOne
<1>7. AnsweredOnce(s, 1)
  <2>1. ASSUME NEW i \in 1..(n + 1), i # 1
        PROVE  s[i].calls \subseteq s[1].calls
    <3>1. n + 2 - i \in 1..n
      BY <2>1
    <3>2. base + (n + 2 - i) \in {base + k : k \in 1..n}
      BY <3>1
    <3> QED BY <1>2, <1>3, <2>1, <3>2
  <2>2. ASSUME NEW id \in s[1].calls
        PROVE  \E i \in 1..(n + 1) : i # 1 /\ s[i].calls = {id}
    <3>1. PICK k \in 1..n : id = base + k
      BY <1>2
    <3>2. n + 2 - k \in 1..(n + 1) /\ n + 2 - k # 1 /\ n + 2 - (n + 2 - k) = k
      OBVIOUS
    <3> QED BY <1>3, <3>1, <3>2
  <2>3. ASSUME NEW i \in 1..(n + 1), NEW k \in 1..(n + 1), i # 1, k # 1, s[i].calls = s[k].calls
        PROVE  i = k
    <3>1. base + (n + 2 - i) \in {base + (n + 2 - k)}
      BY <1>3, <2>3
    <3>2. base + (n + 2 - i) = base + (n + 2 - k)
      BY <3>1
    <3> QED BY <3>2
  <2> QED BY <1>1, <1>5, <2>1, <2>2, <2>3 DEF AnsweredOnce
<1>8. \A r \in 1..(n + 1) : s[r].role = "assistant" => r = 1
  BY <1>3
<1>9. Paired(s)
  BY <1>1, <1>6, <1>7, <1>8 DEF Paired
<1> QED BY <1>4, <1>9 DEF s

\* With no call left, the history has the shape it will have.
LEMMA NothingPending ==
  ASSUME NEW h \in Seq(Message), NEW base
  PROVE  Completed(h, 0, base) = Shape(h)
<1>1. Len(h) \in Nat /\ DOMAIN h = 1..Len(h) /\ Len(h) + 0 = Len(h)
  OBVIOUS
<1>2. \A i \in 1..Len(h) : i <= Len(h)
  BY <1>1
<1>3. Completed(h, 0, base) = [i \in 1..Len(h) |-> Shape(h)[i]]
  BY <1>1, <1>2 DEF Completed
<1>4. Shape(h) = [i \in 1..Len(h) |-> Shape(h)[i]]
  BY <1>1 DEF Shape
<1> QED BY <1>3, <1>4

\* A message more.
LEMMA Appends ==
  ASSUME NEW h \in Seq(Message), NEW m \in Message
  PROVE  /\ Append(h, m) \in Seq(Message) /\ Len(Append(h, m)) = Len(h) + 1
         /\ \A i \in 1..Len(h) : Shape(Append(h, m))[i] = Shape(h)[i]
         /\ Shape(Append(h, m))[Len(h) + 1] = [role |-> m.role, calls |-> m.calls]
         /\ HasTask(Shape(h)) => HasTask(Shape(Append(h, m)))
<1>1. PICK g : g = Append(h, m)
  OBVIOUS
<1>2. /\ g \in Seq(Message) /\ Len(g) = Len(h) + 1 /\ Len(h) \in Nat
      /\ (\A i \in 1..Len(h) : g[i] = h[i]) /\ g[Len(h) + 1] = m
      /\ DOMAIN g = 1..(Len(h) + 1) /\ DOMAIN h = 1..Len(h)
  BY <1>1
<1>3. \A i \in 1..Len(h) : Shape(g)[i] = Shape(h)[i]
  BY <1>2 DEF Shape
<1>4. Shape(g)[Len(h) + 1] = [role |-> m.role, calls |-> m.calls]
  BY <1>2 DEF Shape
<1>5. HasTask(Shape(h)) => HasTask(Shape(g))
  <2>1. DOMAIN Shape(h) = 1..Len(h) /\ DOMAIN Shape(g) = 1..(Len(h) + 1)
    BY <1>2 DEF Shape
  <2> QED BY <1>2, <1>3, <2>1 DEF HasTask
<1> QED BY <1>1, <1>2, <1>3, <1>4, <1>5

\* A result takes the place that was kept for it.
LEMMA ResultArrives ==
  ASSUME NEW h \in Seq(Message), NEW t \in Nat \ {0}, NEW base \in Int, NEW m \in Message,
         m.role = "tool", m.calls = {base + t}
  PROVE  Completed(Append(h, m), t - 1, base) = Completed(h, t, base)
<1>1. PICK g : g = Append(h, m)
  OBVIOUS
<1>2. PICK n : n = Len(h)
  OBVIOUS
<1>3. /\ n \in Nat /\ Len(g) = n + 1 /\ \A i \in 1..n : Shape(g)[i] = Shape(h)[i]
      /\ Shape(g)[n + 1] = [role |-> "tool", calls |-> {base + t}]
  <2>1. n \in Nat
    BY <1>2
  <2>2. /\ Len(g) = n + 1 /\ \A i \in 1..n : Shape(g)[i] = Shape(h)[i]
        /\ Shape(g)[n + 1] = [role |-> m.role, calls |-> m.calls]
    BY ONLY <1>1, <1>2, Appends, h \in Seq(Message), m \in Message
  <2> QED BY <2>1, <2>2
<1>4. (n + 1) + (t - 1) = n + t /\ t \in Nat
  BY <1>3
<1>5. Completed(g, t - 1, base) =
        [i \in 1..(n + t) |->
           IF i <= n + 1 THEN Shape(g)[i]
           ELSE [role |-> "tool", calls |-> {base + ((t - 1) + 1 - (i - (n + 1)))}]]
  BY <1>3, <1>4 DEF Completed
<1>6. Completed(h, t, base) =
        [i \in 1..(n + t) |->
           IF i <= n THEN Shape(h)[i]
           ELSE [role |-> "tool", calls |-> {base + (t + 1 - (i - n))}]]
  BY <1>2 DEF Completed
<1>7. ASSUME NEW i \in 1..(n + t)
      PROVE  (IF i <= n + 1 THEN Shape(g)[i]
              ELSE [role |-> "tool", calls |-> {base + ((t - 1) + 1 - (i - (n + 1)))}])
             = (IF i <= n THEN Shape(h)[i]
                ELSE [role |-> "tool", calls |-> {base + (t + 1 - (i - n))}])
  <2>1. CASE i <= n
    BY <1>3, <2>1
  <2>2. CASE i = n + 1
    <3>1. t + 1 - (i - n) = t /\ ~(i <= n) /\ i <= n + 1
      BY <1>3, <1>4, <2>2
    <3> QED BY <1>3, <2>2, <3>1
  <2>3. CASE i > n + 1
    <3>1. (t - 1) + 1 - (i - (n + 1)) = t + 1 - (i - n) /\ ~(i <= n) /\ ~(i <= n + 1)
      BY <1>3, <1>4, <2>3
    <3> QED BY <3>1
  <2> QED BY <1>3, <1>4, <2>1, <2>2, <2>3
<1> QED BY <1>1, <1>5, <1>6, <1>7

\* A reply that calls tools starts a round.
LEMMA RoundStarted ==
  ASSUME NEW h \in Seq(Message), Paired(Shape(h)), NEW n \in Nat, NEW base \in Int,
         NEW m \in Message, m.role = "assistant", m.calls = {base + k : k \in 1..n}
  PROVE  Paired(Completed(Append(h, m), n, base))
<1>1. PICK g : g = Append(h, m)
  OBVIOUS
<1>2. PICK l : l = Len(h)
  OBVIOUS
<1>3. PICK s : s = Completed(g, n, base)
  OBVIOUS
<1>0. l \in Nat
  BY <1>2
<1>4. /\ l \in Nat /\ Len(g) = l + 1 /\ \A i \in 1..l : Shape(g)[i] = Shape(h)[i]
      /\ Shape(g)[l + 1] = [role |-> "assistant", calls |-> {base + k : k \in 1..n}]
  <2>1. /\ Len(g) = l + 1 /\ \A i \in 1..l : Shape(g)[i] = Shape(h)[i]
        /\ Shape(g)[l + 1] = [role |-> m.role, calls |-> m.calls]
    BY ONLY <1>1, <1>2, Appends, h \in Seq(Message), m \in Message
  <2> QED BY <1>0, <2>1
<1>5. (l + 1) + n = l + (n + 1) /\ n + 1 \in Nat
  BY <1>0
<1>6. s = [i \in 1..(l + (n + 1)) |->
             IF i <= l + 1 THEN Shape(g)[i]
             ELSE [role |-> "tool", calls |-> {base + (n + 1 - (i - (l + 1)))}]]
  BY <1>3, <1>4, <1>5 DEF Completed
<1>7. Shape(h) \in Shapes(l) /\ Round(n, base) \in Shapes(n + 1) /\ Paired(Round(n, base))
  BY <1>2, ShapeTyped, RoundIsPaired
<1>8. \A i \in 1..l : s[i] = Shape(h)[i]
  BY <1>4, <1>5, <1>6
<1>9. ASSUME NEW i \in 1..(n + 1) PROVE s[l + i] = Round(n, base)[i]
  <2>1. CASE i = 1
    <3>1. l + i = l + 1 /\ l + 1 \in 1..(l + (n + 1)) /\ l + 1 <= l + 1
      BY <1>4, <2>1
    <3>2. s[l + 1] = Shape(g)[l + 1]
      BY <1>6, <3>1
    <3>3. Round(n, base)[i] = [role |-> "assistant", calls |-> {base + k : k \in 1..n}]
      BY <2>1 DEF Round
    <3> QED BY <1>4, <3>1, <3>2, <3>3
  <2>2. CASE i # 1
    <3>1. l + i \in 1..(l + (n + 1)) /\ ~(l + i <= l + 1)
          /\ n + 1 - ((l + i) - (l + 1)) = n + 2 - i
      BY <1>4, <2>2
    <3>2. s[l + i] = [role |-> "tool", calls |-> {base + (n + 2 - i)}]
      BY <1>6, <3>1
    <3>3. Round(n, base)[i] = [role |-> "tool", calls |-> {base + (n + 2 - i)}]
      BY <2>2 DEF Round
    <3> QED BY <3>2, <3>3
  <2> QED BY <2>1, <2>2
<1>10. \A i \in 1..(l + (n + 1)) : i \in 1..l \/ (i - l \in 1..(n + 1) /\ l + (i - l) = i)
  BY <1>4
<1>11. s \in Shapes(l + (n + 1))
  <2>1. ASSUME NEW i \in 1..(l + (n + 1))
        PROVE  s[i] \in [role : {"system", "user", "assistant", "tool"}, calls : SUBSET Int]
    <3>1. CASE i \in 1..l
      BY <1>7, <1>8, <3>1 DEF Shapes
    <3>2. CASE i \notin 1..l
      <4>1. i - l \in 1..(n + 1) /\ s[i] = Round(n, base)[i - l]
        BY <1>9, <1>10, <3>2
      <4> QED BY <1>7, <4>1 DEF Shapes
    <3> QED BY <3>1, <3>2
  <2>2. s = [i \in 1..(l + (n + 1)) |-> s[i]]
    BY <1>6
  <2> QED BY <2>1, <2>2 DEF Shapes
<1>12. Round(n, base)[1].role # "tool"
  BY DEF Round
<1>13. Cut(l, n + 1, Shape(h), Round(n, base), s)
  BY <1>4, <1>5, <1>7, <1>8, <1>9, <1>11, <1>12 DEF Cut
<1>14. Paired(s)
  BY <1>7, <1>13, Joins
<1> QED BY <1>1, <1>3, <1>14

----------------------------------------------------------------------------
(* The conversation                                                        *)

\* The history is one that can be sent as soon as its pending calls, t of
\* round r, are answered, and calls are only pending while they are run.
Conversation(h, t, r, s) ==
  /\ h \in Seq(Message) /\ HasTask(Shape(h)) /\ t \in Nat /\ r \in Nat
  /\ s # "calls" => t = 0
  /\ Paired(Completed(h, t, r * (MaxCalls + 1)))

ConversationInv == Conversation(history, todo, round, step)

\* Between rounds it can be sent as it is.
LEMMA BetweenRounds ==
  ASSUME NEW h, NEW r \in Nat, NEW s
  PROVE  Conversation(h, 0, r, s) <=> Sendable(h)
BY NothingPending DEF Conversation, Sendable

\* Numbers of calls are integers.
LEMMA CallIdsTyped ==
  ASSUME NEW r \in Nat
  PROVE  r * (MaxCalls + 1) \in Int
<1>1. MaxCalls + 1 \in Int /\ r \in Int
  BY AgentAssumption
<1> QED BY <1>1

\* So are sizes.
LEMMA SizesAreNumbers == \A n \in Sizes \cup {1} : n \in Int
<1>1. Sizes \subseteq Nat \ {0}
  BY AgentAssumption
<1> QED BY <1>1

\* Whatever a compaction leaves can be sent.
LEMMA CompactionOutcomeSendable ==
  ASSUME Sendable(history), NEW known, NEW keep, NEW c \in CompactionOutcomes(known, keep)
  PROVE  Sendable(c.history)
<1>1. Sendable(Prune(history))
  BY PruneKeepsShape DEF Sendable
<1>2. \A n \in Sizes : n \in Int
  BY SizesAreNumbers
<1>3. PICK pruned : pruned = Prune(history)
  OBVIOUS
<1>4. \A n \in Sizes : Sendable(Compacted(pruned, n))
  BY <1>1, <1>2, <1>3, CompactedSendable
<1>5. \/ c.history = history \/ c.history = pruned
      \/ \E n \in Sizes : c.history = Compacted(pruned, n)
  BY <1>3 DEF CompactionOutcomes
<1> QED BY <1>1, <1>3, <1>4, <1>5

\* A reply that calls tools is a message.
LEMMA CallsAreMessages ==
  ASSUME NEW ids \in SUBSET Int, NEW n \in Int
  PROVE  /\ CallsOf(ids, n) \in Message /\ CallsOf(ids, n).role = "assistant"
         /\ CallsOf(ids, n).calls = ids
BY DEF CallsOf, Message

\* A result is a message.
LEMMA ResultsAreMessages ==
  ASSUME NEW id \in Int, NEW n \in Int
  PROVE  /\ ResultOf(id, n) \in Message /\ ResultOf(id, n).role = "tool"
         /\ ResultOf(id, n).calls = {id}
<1>1. {id} \in SUBSET Int
  OBVIOUS
<1> QED BY <1>1 DEF ResultOf, Message

\* The conversation of a run is kept up to its pending calls.
LEMMA ConversationStep ==
  ASSUME ConversationInv, [AgentNext]_AgentVars
  PROVE  ConversationInv'
<1>1. /\ history \in Seq(Message) /\ HasTask(Shape(history)) /\ todo \in Nat /\ round \in Nat
      /\ step # "calls" => todo = 0
      /\ Paired(Completed(history, todo, round * (MaxCalls + 1)))
  BY DEF ConversationInv, Conversation
<1>2. todo = 0 => Sendable(history)
  BY <1>1, BetweenRounds DEF ConversationInv
<1>3. ASSUME Sendable(history'), todo' = 0, round' \in Nat
      PROVE  ConversationInv'
  BY <1>3, BetweenRounds DEF ConversationInv
<1>4. CASE NextRound
  <2>1. Sendable(history) /\ todo' = 0 /\ round' \in Nat
    BY <1>1, <1>2, <1>4 DEF NextRound
  <2>2. history' = history \/ \E c \in CompactionOutcomes(size, Keep) : history' = c.history
    BY <1>4 DEF NextRound, Replaces
  <2>3. Sendable(history')
    BY <2>1, <2>2, CompactionOutcomeSendable
  <2> QED BY <1>3, <2>1, <2>3
<1>5. CASE OutOfRounds
  BY <1>1, <1>2, <1>3, <1>5 DEF OutOfRounds
<1>6. ASSUME NEW end, RunsOutOfRoom(end), todo = 0, todo' = todo, round' = round
      PROVE  ConversationInv'
  <2>1. \/ history' = history
        \/ \E c \in CompactionOutcomes(ContextSize, Reserve(ContextSize, ReserveFloor, largest')) :
             history' = c.history
    BY <1>6 DEF RunsOutOfRoom, Replaces
  <2>2. Sendable(history')
    BY <1>2, <1>6, <2>1, CompactionOutcomeSendable
  <2> QED BY <1>1, <1>3, <1>6, <2>2
<1>7. CASE Exhausted
  BY <1>1, <1>6, <1>7 DEF Exhausted
<1>8. CASE CutOff
  <2>1. todo = 0 /\ todo' = todo /\ round' = round
    BY <1>1, <1>8 DEF CutOff
  <2>2. history' = history \/ \E end \in {"length", "context"} : RunsOutOfRoom(end)
    BY <1>8 DEF CutOff
  <2> QED BY <1>1, <1>2, <1>3, <1>6, <2>1, <2>2
<1>9. CASE Answers
  BY <1>1, <1>2, <1>3, <1>9 DEF Answers
<1>10. CASE CallsTools
  <2>1. /\ Sendable(history) /\ round' = round /\ step' = "calls"
        /\ \E n \in Replies, calls \in 1..MaxCalls :
             /\ history' = Append(history, CallsOf({CallId(k) : k \in 1..calls}, n))
             /\ todo' = calls
    BY <1>1, <1>2, <1>10 DEF CallsTools
  <2>2. PICK n \in Replies, calls \in 1..MaxCalls :
             /\ history' = Append(history, CallsOf({CallId(k) : k \in 1..calls}, n))
             /\ todo' = calls
    BY <2>1
  <2>3. PICK base : base = round * (MaxCalls + 1)
    OBVIOUS
  <2>4. base \in Int /\ calls \in Nat /\ n \in Int
    BY <1>1, <2>3, CallIdsTyped, AgentAssumption DEF Replies
  <2>5. PICK m : m = CallsOf({CallId(k) : k \in 1..calls}, n)
    OBVIOUS
  <2>6. {CallId(k) : k \in 1..calls} = {base + k : k \in 1..calls}
    BY <2>3 DEF CallId
  <2>7. m \in Message /\ m.role = "assistant" /\ m.calls = {base + k : k \in 1..calls}
    <3>1. {base + k : k \in 1..calls} \in SUBSET Int
      BY <2>4
    <3>2. PICK ids : ids = {base + k : k \in 1..calls}
      OBVIOUS
    <3>3. m = CallsOf(ids, n) /\ ids \in SUBSET Int
      BY <2>5, <2>6, <3>1, <3>2
    <3>4. m \in Message /\ m.role = "assistant" /\ m.calls = ids
      BY <2>4, <3>3, CallsAreMessages
    <3> QED BY <3>2, <3>4
  <2>8. Paired(Completed(Append(history, m), calls, base))
    BY <2>1, <2>4, <2>7, RoundStarted DEF Sendable
  <2>9. Append(history, m) \in Seq(Message) /\ HasTask(Shape(Append(history, m)))
    BY <2>1, <2>7, Appends DEF Sendable
  <2> QED BY <1>1, <2>1, <2>2, <2>3, <2>4, <2>5, <2>8, <2>9 DEF ConversationInv, Conversation
<1>11. CASE RunCall
  <2>1. /\ step = "calls" /\ step' = step /\ round' = round /\ todo > 0 /\ todo' = todo - 1
        /\ \E n \in Sizes \cup {1} : history' = Append(history, ResultOf(CallId(todo), n))
    BY <1>11 DEF RunCall
  <2>2. PICK n \in Sizes \cup {1} : history' = Append(history, ResultOf(CallId(todo), n))
    BY <2>1
  <2>3. PICK base : base = round * (MaxCalls + 1)
    OBVIOUS
  <2>4. base \in Int /\ todo \in Nat \ {0} /\ n \in Int /\ todo' \in Nat /\ base + todo \in Int
    <3>1. base \in Int /\ n \in Int
      BY <1>1, <2>3, CallIdsTyped, SizesAreNumbers
    <3>2. todo \in Nat /\ todo > 0 /\ todo' = todo - 1
      BY <1>1, <2>1
    <3> QED BY <3>1, <3>2
  <2>5. PICK m : m = ResultOf(CallId(todo), n)
    OBVIOUS
  <2>6. m \in Message /\ m.role = "tool" /\ m.calls = {base + todo}
    <3>1. CallId(todo) = base + todo
      BY <2>3 DEF CallId
    <3> QED BY <2>4, <2>5, <3>1, ResultsAreMessages
  <2>7. Completed(Append(history, m), todo - 1, base) = Completed(history, todo, base)
    BY <1>1, <2>4, <2>6, ResultArrives
  <2>8. Append(history, m) \in Seq(Message) /\ HasTask(Shape(Append(history, m)))
    BY <1>1, <2>6, Appends
  <2> QED BY <1>1, <2>1, <2>2, <2>3, <2>4, <2>5, <2>7, <2>8 DEF ConversationInv, Conversation
<1>12. CASE CallsDone
  BY <1>1, <1>2, <1>3, <1>12 DEF CallsDone
<1>13. CASE UNCHANGED AgentVars
  BY <1>13 DEF AgentVars, ConversationInv
<1> QED BY <1>4, <1>5, <1>7, <1>8, <1>9, <1>10, <1>11, <1>12, <1>13 DEF AgentNext

\* What can be sent is a valid history, and so are its summary requests and
\* its summaries.
LEMMA ConversationIsValid ==
  ASSUME ConversationInv
  PROVE  HistoryValid
<1>1. step \in {"head", "reply"} => Sendable(history)
  BY BetweenRounds DEF ConversationInv, Conversation
<1>2. \A h : Sendable(h) => ValidHistory(h)
  BY PairedIsValid DEF Sendable
<1>3. ASSUME step \in {"head", "reply"}, Compactable(history)
      PROVE  /\ ValidHistory(SummaryRequest(Prune(history), ContextSize - SummarySize))
             /\ ValidHistory(Compacted(Prune(history), 1))
  <2>1. Sendable(history)
    BY <1>1, <1>3
  <2>2. Sendable(Prune(history))
    BY <2>1, PruneKeepsShape DEF Sendable
  <2>3. Compactable(Prune(history))
    BY <1>3, <2>1, PruneKeepsRounds DEF Sendable, Compactable
  <2>4. Sendable(SummaryRequest(Prune(history), ContextSize - SummarySize))
    BY <2>2, <2>3, SummaryRequestSendable
  <2>5. Sendable(Compacted(Prune(history), 1))
    <3>1. 1 \in Int
      OBVIOUS
    <3> QED BY <2>2, <3>1, CompactedSendable
  <2> QED BY <1>2, <2>4, <2>5
<1> QED BY <1>1, <1>2, <1>3 DEF HistoryValid

----------------------------------------------------------------------------
(* The token limit and repeated calls                                      *)

\* What is left of the limit is what has not been generated, and no request
\* is made when nothing is left.
BudgetInv ==
  /\ limit \in Nat /\ budget \in Int /\ spent \in Int
  /\ limit # 0 => spent + budget = limit /\ budget >= 0
  /\ limit # 0 /\ step \in {"head", "reply"} => budget >= 1

\* A reply takes at most what is left.
LEMMA BudgetStep ==
  ASSUME BudgetInv, [AgentNext]_AgentVars
  PROVE  BudgetInv'
<1> USE DEF BudgetInv
<1>1. ASSUME NEW n \in Replies, Replied(n), limit' = limit, step = "reply"
      PROVE  /\ budget' \in Int /\ spent' \in Int
             /\ limit # 0 => spent' + budget' = limit /\ budget' >= 0
  BY <1>1, AgentAssumption DEF Replies, Replied, Most
<1>2. CASE NextRound
  BY <1>2 DEF NextRound
<1>3. CASE OutOfRounds
  BY <1>3 DEF OutOfRounds, Ends
<1>4. CASE Exhausted
  BY <1>4 DEF Exhausted, Replied
<1>5. CASE CutOff
  <2>1. /\ \E n \in Replies : Replied(n)
        /\ limit' = limit /\ step = "reply" /\ (limit # 0 => step' = "ended")
    BY <1>5 DEF CutOff, Ends
  <2> QED BY <1>1, <2>1
<1>6. CASE Answers
  BY <1>1, <1>6 DEF Answers, Ends
<1>7. CASE CallsTools
  BY <1>1, <1>7 DEF CallsTools
<1>8. CASE RunCall
  BY <1>8 DEF RunCall
<1>9. CASE CallsDone
  BY <1>9 DEF CallsDone, Ends
<1>10. CASE UNCHANGED AgentVars
  BY <1>10 DEF AgentVars
<1> QED BY <1>2, <1>3, <1>4, <1>5, <1>6, <1>7, <1>8, <1>9, <1>10 DEF AgentNext

\* A tool that changes something is one of CHANGING_TOOLS.
LEMMA ChangingTools ==
  ASSUME NEW call, NEW w, call[1] \notin CHANGING_TOOLS
  PROVE  After(call, w) = w
BY DEF After, CHANGING_TOOLS

\* A call of which a repeat is refused is one whose result still holds.
LEMMA SeenStep ==
  ASSUME seen \subseteq current, [AgentNext]_AgentVars
  PROVE  seen' \subseteq current'
<1>1. CASE RunCall
  <2>1. \/ UNCHANGED <<seen, current>>
        \/ \E call \in Calls :
             /\ world' = After(call, world)
             /\ seen' = {call} \cup IF call[1] \in CHANGING_TOOLS THEN {} ELSE seen
             /\ current' = {call} \cup IF world' = world THEN current ELSE {}
    BY <1>1 DEF RunCall
  <2> QED BY <2>1, ChangingTools
<1>2. CASE CallsTools \/ CallsDone
  BY <1>2 DEF CallsTools, CallsDone
<1>3. CASE NextRound \/ OutOfRounds \/ Exhausted \/ CutOff \/ Answers \/ UNCHANGED AgentVars
  BY <1>3 DEF NextRound, OutOfRounds, Exhausted, CutOff, Answers, AgentVars
<1> QED BY <1>1, <1>2, <1>3 DEF AgentNext

AgentInv == ConversationInv /\ BudgetInv /\ seen \subseteq current

\* A run starts with the system prompt and its task, its whole limit left.
LEMMA AgentStart ==
  ASSUME AgentInit
  PROVE  AgentInv
<1>1. Sendable(history)
  <2>1. history = <<Text("system", 1), Text("user", 1)>>
    BY DEF AgentInit
  <2>2. /\ Text("system", 1) \in Message /\ Text("system", 1).role = "system"
        /\ Text("user", 1) \in Message /\ Text("user", 1).role = "user"
    <3>1. {"system", "user"} \subseteq {"system", "user", "assistant"} /\ 1 \in Int
      OBVIOUS
    <3>2. \A role \in {"system", "user"} : Text(role, 1) \in Message /\ Text(role, 1).role = role
      BY <3>1, TextIsMessage
    <3> QED BY <3>2
  <2>3. /\ history \in Seq(Message) /\ Len(history) = 2
        /\ history[1].role = "system" /\ history[2].role = "user"
    BY <2>1, <2>2
  <2>4. /\ Shape(history) \in Shapes(2) /\ DOMAIN Shape(history) = 1..2
        /\ Shape(history)[1].role = "system" /\ Shape(history)[2].role = "user"
    BY <2>3, ShapeTyped
  <2>5. \A i \in 1..2 : Shape(history)[i].role \in {"system", "user"}
    <3>1. \A i \in 1..2 : i = 1 \/ i = 2
      OBVIOUS
    <3> QED BY <2>4, <3>1
  <2>6. Paired(Shape(history))
    <3>1. 2 \in Nat
      OBVIOUS
    <3> QED BY <2>4, <2>5, <3>1, WithoutCalls
  <2> QED BY <2>3, <2>4, <2>6 DEF Sendable, HasTask
<1>2. ConversationInv
  <2>1. todo = 0 /\ round \in Nat
    BY DEF AgentInit
  <2> QED BY <1>1, <2>1, BetweenRounds DEF ConversationInv
<1>3. BudgetInv /\ seen \subseteq current
  BY AgentAssumption DEF AgentInit, BudgetInv
<1> QED BY <1>2, <1>3 DEF AgentInv

\* BenchmarkRunner._generate: every request of a run is a conversation that
\* the chat templates accept, a repeated call is only refused while its result
\* holds, and the replies stay within the token limit; for histories of every
\* length, all sizes and limits, and any numbers of rounds and calls.
THEOREM RequestsAreSound == AgentSpec => []ConversationSound
<1>1. AgentInit => AgentInv
  BY AgentStart
<1>2. AgentInv /\ [AgentNext]_AgentVars => AgentInv'
  BY ConversationStep, BudgetStep, SeenStep DEF AgentInv
<1>3. AgentInv => ConversationSound
  <2> SUFFICES ASSUME AgentInv PROVE ConversationSound
    OBVIOUS
  <2>1. HistoryValid
    BY ConversationIsValid DEF AgentInv
  <2>2. TokenLimitKept
    BY DEF AgentInv, BudgetInv, TokenLimitKept
  <2> QED BY <2>1, <2>2 DEF AgentInv, ConversationSound, DuplicatesAreCurrent
<1> QED BY <1>1, <1>2, <1>3, PTL DEF AgentSpec

(***************************************************************************)
(* AssistantHistory.  The records hold the results of a reply behind it,   *)
(* in the order of its calls (Ordered), so that those without one are the  *)
(* last calls (FirstCallsGiven) and history, which says right behind the   *)
(* reply that they were not run, completes the answer when the results     *)
(* that are there have been told (Partial).  What has been told of the     *)
(* first records, and the notes that wait, are kept at every record        *)
(* (WellRead).                                                             *)
(***************************************************************************)

----------------------------------------------------------------------------
(* Picked                                                                  *)

\* What is picked from the first n elements of s, for each number up to n.
Picks(u, s, S, n) ==
  u = [k \in 0..n |-> IF k = 0 THEN <<>>
                      ELSE IF s[k] \in S THEN Append(u[k - 1], s[k]) ELSE u[k - 1]]

\* It is defined, and picks sequences.
LEMMA PicksExist ==
  ASSUME NEW X, NEW s \in Seq(X), NEW S, NEW n \in 0..Len(s)
  PROVE  \E u \in [0..n -> Seq(X)] : Picks(u, s, S, n)
<1> DEFINE Bad == {m \in 0..Len(s) : ~\E u \in [0..m -> Seq(X)] : Picks(u, s, S, m)}
<1>0. Bad \subseteq 0..Len(s) /\ Len(s) \in Nat
  OBVIOUS
<1>1. ASSUME NEW m \in Bad, \A k \in Bad : m <= k PROVE FALSE
  <2>1. m # 0
    <3> DEFINE u == [k \in 0..0 |-> <<>>]
    <3>1. u \in [0..0 -> Seq(X)] /\ Picks(u, s, S, 0)
      BY DEF Picks
    <3> QED BY <3>1, <1>1
  <2>2. m - 1 \in 0..Len(s) /\ m \in 1..Len(s) /\ m - 1 \notin Bad
    <3> HIDE DEF Bad
    <3> QED BY <2>1, <1>0, <1>1
  <2>3. PICK v \in [0..m - 1 -> Seq(X)] : Picks(v, s, S, m - 1)
    BY <2>2
  <2> DEFINE u == [k \in 0..m |-> IF k = m THEN IF s[m] \in S THEN Append(v[m - 1], s[m]) ELSE v[m - 1]
                                  ELSE v[k]]
  <2>4. s[m] \in X /\ v[m - 1] \in Seq(X)
    BY <2>2, <2>3
  <2>5. u \in [0..m -> Seq(X)]
    BY <2>2, <2>3, <2>4
  <2>6. \A k \in 0..m - 1 : v[k] = IF k = 0 THEN <<>>
                                   ELSE IF s[k] \in S THEN Append(v[k - 1], s[k]) ELSE v[k - 1]
    BY <2>3 DEF Picks
  <2>7. ASSUME NEW k \in 0..m
        PROVE  u[k] = IF k = 0 THEN <<>>
                      ELSE IF s[k] \in S THEN Append(u[k - 1], s[k]) ELSE u[k - 1]
    <3>1. CASE k = m
      <4>1. u[m] = (IF s[m] \in S THEN Append(v[m - 1], s[m]) ELSE v[m - 1]) /\ u[m - 1] = v[m - 1] /\ m # 0
        BY <2>2
      <4> QED BY <3>1, <4>1
    <3>2. CASE k # m
      <4>1. k \in 0..m - 1 /\ u[k] = v[k] /\ (k # 0 => u[k - 1] = v[k - 1])
        BY <2>2, <3>2
      <4> QED BY <2>6, <4>1
    <3> QED BY <3>1, <3>2
  <2>8. Picks(u, s, S, m)
    BY <2>5, <2>7 DEF Picks
  <2> QED BY <2>5, <2>8, <1>1
<1> HIDE DEF Bad
<1>2. Bad \subseteq Nat
  BY <1>0
<1>3. Bad = {}
  BY <1>1, <1>2, First
<1> QED BY <1>3 DEF Bad

\* Two sequences that start alike are picked from alike.
Alike(u, s, n, v, t, m, S) ==
  /\ n \in Nat /\ m \in Nat /\ n <= m
  /\ Picks(u, s, S, n) /\ Picks(v, t, S, m)
  /\ \A k \in 1..n : s[k] = t[k]

\* Element by element, what is picked from both is the same.
LEMMA PicksAlike ==
  ASSUME NEW u, NEW s, NEW n, NEW v, NEW t, NEW m, NEW S, Alike(u, s, n, v, t, m, S)
  PROVE  \A k \in 0..n : u[k] = v[k]
<1>4. n \in Nat /\ m \in Nat /\ n <= m /\ \A k \in 1..n : s[k] = t[k]
  BY DEF Alike
<1> DEFINE Bad == {k \in 0..n : u[k] # v[k]}
<1>0. /\ \A k \in 0..n : u[k] = IF k = 0 THEN <<>>
                                ELSE IF s[k] \in S THEN Append(u[k - 1], s[k]) ELSE u[k - 1]
      /\ \A k \in 0..m : v[k] = IF k = 0 THEN <<>>
                                ELSE IF t[k] \in S THEN Append(v[k - 1], t[k]) ELSE v[k - 1]
  BY DEF Picks, Alike
<1>1. ASSUME NEW k \in Bad, \A j \in Bad : k <= j PROVE FALSE
  <2>1. CASE k = 0
    BY <2>1, <1>0, <1>1, <1>4
  <2>2. CASE k # 0
    <3>1. k \in 1..n /\ k \in 0..n /\ k \in 0..m /\ k - 1 \in 0..n /\ k - 1 \notin Bad
      BY <2>2, <1>1, <1>4
    <3>2. u[k - 1] = v[k - 1] /\ s[k] = t[k]
      BY <3>1, <1>4
    <3>3. u[k] = v[k]
      BY <3>1, <3>2, <1>0, <2>2
    <3> QED BY <3>3
  <2> QED BY <2>1, <2>2
<1>2. Bad \subseteq Nat
  OBVIOUS
<1> HIDE DEF Bad
<1>3. Bad = {}
  BY <1>1, <1>2, First
<1> QED BY <1>3 DEF Bad

\* Picked is the last of what is picked on the way.
LEMMA PickedIs ==
  ASSUME NEW X, NEW s \in Seq(X), NEW S, NEW u, Picks(u, s, S, Len(s))
  PROVE  Picked(s, S) = u[Len(s)]
<1> DEFINE c == CHOOSE v : Picks(v, s, S, Len(s))
<1>1. Picks(c, s, S, Len(s))
  OBVIOUS
<1>2. Picked(s, S) = c[Len(s)]
  BY DEF Picked, Picks
<1> HIDE DEF c
<1>3. Len(s) \in 0..Len(s) /\ Alike(c, s, Len(s), u, s, Len(s), S)
  BY <1>1 DEF Alike
<1>4. \A k \in 0..Len(s) : c[k] = u[k]
  BY <1>3, PicksAlike
<1> QED BY <1>2, <1>3, <1>4

\* What is picked is a sequence of the same elements; nothing of nothing.
LEMMA PickedTyped ==
  ASSUME NEW X, NEW s \in Seq(X), NEW S
  PROVE  Picked(s, S) \in Seq(X) /\ Picked(<<>>, S) = <<>>
<1>0. Len(s) \in 0..Len(s) /\ <<>> \in Seq(X) /\ Len(<<>>) = 0 /\ 0 \in 0..Len(<<>>)
  OBVIOUS
<1>1. PICK u \in [0..Len(s) -> Seq(X)] : Picks(u, s, S, Len(s))
  BY <1>0, PicksExist
<1>2. Picked(s, S) = u[Len(s)]
  BY <1>1, PickedIs
<1>3. PICK w \in [0..0 -> Seq(X)] : Picks(w, <<>>, S, 0)
  BY <1>0, PicksExist
<1>4. w[0] = <<>>
  BY <1>3 DEF Picks
<1>5. Picked(<<>>, S) = w[0]
  BY <1>0, <1>3, PickedIs
<1> QED BY <1>0, <1>1, <1>2, <1>4, <1>5

\* What is picked from a sequence with one more element.
LEMMA PickedNext ==
  ASSUME NEW X, NEW s \in Seq(X), NEW x \in X, NEW S
  PROVE  Picked(Append(s, x), S) = IF x \in S THEN Append(Picked(s, S), x) ELSE Picked(s, S)
<1>0. PICK n, t, m : n = Len(s) /\ t = Append(s, x) /\ m = n + 1
  OBVIOUS
<1>1. /\ n \in Nat /\ m \in Nat /\ t \in Seq(X) /\ Len(t) = m /\ t[m] = x
      /\ n \in 0..Len(s) /\ m \in 0..Len(t) /\ n <= m /\ m # 0 /\ m - 1 = n
      /\ \A k \in 1..n : s[k] = t[k]
  BY <1>0
<1>2. PICK u : Picks(u, s, S, n)
  BY <1>1, PicksExist
<1>3. PICK v : Picks(v, t, S, m)
  BY <1>1, PicksExist
<1>4. Picked(s, S) = u[n] /\ Picked(t, S) = v[m]
  <2>1. Picked(s, S) = u[n]
    BY <1>0, <1>2, PickedIs
  <2>2. Picked(t, S) = v[m]
    BY <1>3, <1>1, PickedIs
  <2> QED BY <2>1, <2>2
<1>5. u[n] = v[n]
  <2>1. \A k \in 0..n : u[k] = v[k]
    <3>1. Alike(u, s, n, v, t, m, S)
      BY <1>1, <1>2, <1>3 DEF Alike
    <3> QED BY <3>1, PicksAlike
  <2>2. n \in 0..n
    BY <1>1
  <2> QED BY <2>1, <2>2
<1>6. v[m] = IF x \in S THEN Append(v[n], x) ELSE v[n]
  <2>1. \A k \in 0..m : v[k] = IF k = 0 THEN <<>>
                               ELSE IF t[k] \in S THEN Append(v[k - 1], t[k]) ELSE v[k - 1]
    BY <1>3 DEF Picks
  <2>2. v[m] = IF m = 0 THEN <<>> ELSE IF t[m] \in S THEN Append(v[m - 1], t[m]) ELSE v[m - 1]
    <3>1. m \in 0..m
      BY <1>1
    <3> QED BY <2>1, <3>1
  <2> QED BY <2>2, <1>1
<1> QED BY <1>0, <1>4, <1>5, <1>6

\* The first n elements of a sequence.
FirstOf(s, n) == [k \in 1..n |-> s[k]]

\* A start is a sequence, and each one adds an element to the one before.
LEMMA Starts ==
  ASSUME NEW X, NEW s \in Seq(X)
  PROVE  /\ FirstOf(s, Len(s)) = s /\ FirstOf(s, 0) = <<>>
         /\ \A n \in 0..Len(s) : FirstOf(s, n) \in Seq(X) /\ Len(FirstOf(s, n)) = n
         /\ \A n \in 1..Len(s) : FirstOf(s, n) = Append(FirstOf(s, n - 1), s[n])
<1>1. ASSUME NEW n \in 0..Len(s) PROVE FirstOf(s, n) \in Seq(X) /\ Len(FirstOf(s, n)) = n
  BY DEF FirstOf
<1>2. FirstOf(s, Len(s)) = s /\ FirstOf(s, 0) = <<>>
  BY DEF FirstOf
<1>3. ASSUME NEW n \in 1..Len(s) PROVE FirstOf(s, n) = Append(FirstOf(s, n - 1), s[n])
  <2>1. n - 1 \in 0..Len(s) /\ n \in 0..Len(s) /\ s[n] \in X
    OBVIOUS
  <2>2. Append(FirstOf(s, n - 1), s[n]) \in Seq(X) /\ Len(Append(FirstOf(s, n - 1), s[n])) = n
    BY <1>1, <2>1
  <2>3. \A k \in 1..n : Append(FirstOf(s, n - 1), s[n])[k] = s[k]
    BY <1>1, <2>1 DEF FirstOf
  <2> QED BY <2>2, <2>3, <1>1, <2>1 DEF FirstOf
<1> QED BY <1>1, <1>2, <1>3

\* An element appended to the second of two sequences.
LEMMA AppendLast ==
  ASSUME NEW X, NEW e \in Seq(X), NEW f \in Seq(X), NEW x \in X
  PROVE  e \o Append(f, x) = Append(e \o f, x)
<1> DEFINE a == e \o Append(f, x)
           b == Append(e \o f, x)
<1>1. a \in Seq(X) /\ b \in Seq(X) /\ Len(a) = Len(e) + Len(f) + 1 /\ Len(b) = Len(e) + Len(f) + 1
  OBVIOUS
<1>2. ASSUME NEW k \in 1..Len(e) + Len(f) + 1 PROVE a[k] = b[k]
  <2>1. CASE k <= Len(e)
    BY <2>1
  <2>2. CASE k > Len(e)
    BY <2>2
  <2> QED BY <2>1, <2>2
<1> HIDE DEF a, b
<1>3. a = b
  BY <1>1, <1>2
<1> QED BY <1>3 DEF a, b

\* What is picked from two sequences in a row.
LEMMA PickedBoth ==
  ASSUME NEW X, NEW s \in Seq(X), NEW t \in Seq(X), NEW S
  PROVE  Picked(s \o t, S) = Picked(s, S) \o Picked(t, S)
<1> DEFINE Bad == {n \in 0..Len(t) : Picked(s \o FirstOf(t, n), S) # Picked(s, S) \o Picked(FirstOf(t, n), S)}
<1>0. Bad \subseteq 0..Len(t) /\ Len(t) \in Nat
  OBVIOUS
<1>4. Picked(<<>>, S) = <<>> /\ Picked(s, S) \in Seq(X)
  BY PickedTyped
<1>1. ASSUME NEW n \in Bad, \A k \in Bad : n <= k PROVE FALSE
  <2>1. n # 0
    <3>1. ASSUME NEW e \in Seq(X) PROVE e \o <<>> = e
      OBVIOUS
    <3>2. FirstOf(t, 0) = <<>>
      BY Starts
    <3>3. Picked(s \o FirstOf(t, 0), S) = Picked(s, S) \o Picked(FirstOf(t, 0), S)
      BY <3>1, <3>2, <1>4
    <3> QED BY <3>3
  <2>2. n \in 1..Len(t) /\ n - 1 \in 0..Len(t) /\ n - 1 \notin Bad /\ t[n] \in X
    <3> HIDE DEF Bad
    <3> QED BY <2>1, <1>0, <1>1
  <2>3. PICK r, x : r = FirstOf(t, n - 1) /\ x = t[n]
    OBVIOUS
  <2>4. /\ r \in Seq(X) /\ x \in X /\ FirstOf(t, n) = Append(r, x)
        /\ Picked(s \o r, S) = Picked(s, S) \o Picked(r, S)
    BY <2>2, <2>3, Starts
  <2> HIDE DEF Bad
  <2>5. Picked(Append(r, x), S) = IF x \in S THEN Append(Picked(r, S), x) ELSE Picked(r, S)
    BY <2>4, PickedNext
  <2>6. Picked(Append(s \o r, x), S) = IF x \in S THEN Append(Picked(s \o r, S), x) ELSE Picked(s \o r, S)
    <3>1. PICK q : q = s \o r
      OBVIOUS
    <3>2. q \in Seq(X) /\ x \in X
      BY <2>4, <3>1
    <3>3. Picked(Append(q, x), S) = IF x \in S THEN Append(Picked(q, S), x) ELSE Picked(q, S)
      BY ONLY <3>2, PickedNext
    <3> QED BY <3>1, <3>3
  <2>7. Picked(r, S) \in Seq(X)
    BY <2>4, PickedTyped
  <2>8. /\ s \o Append(r, x) = Append(s \o r, x)
        /\ Append(Picked(s, S) \o Picked(r, S), x) = Picked(s, S) \o Append(Picked(r, S), x)
    <3>1. s \o Append(r, x) = Append(s \o r, x)
      BY <2>4, AppendLast
    <3>2. Picked(s, S) \o Append(Picked(r, S), x) = Append(Picked(s, S) \o Picked(r, S), x)
      <4>1. PICK e, f : e = Picked(s, S) /\ f = Picked(r, S)
        OBVIOUS
      <4>2. e \in Seq(X) /\ f \in Seq(X) /\ x \in X
        BY <2>4, <2>7, <1>4, <4>1
      <4>3. e \o Append(f, x) = Append(e \o f, x)
        BY ONLY <4>2, AppendLast
      <4> QED BY <4>1, <4>3
    <3> QED BY <3>1, <3>2
  <2>9. Picked(s \o FirstOf(t, n), S) = Picked(s, S) \o Picked(FirstOf(t, n), S)
    BY <2>4, <2>5, <2>6, <2>8
  <2> QED BY <2>9 DEF Bad
<1> HIDE DEF Bad
<1>2. Bad \subseteq Nat
  BY <1>0
<1>3. Bad = {}
  BY <1>1, <1>2, First
<1>5. Len(t) \in 0..Len(t) /\ FirstOf(t, Len(t)) = t
  BY Starts
<1> QED BY <1>3, <1>5 DEF Bad

\* What is picked from a sequence all of whose elements are in S, and none.
LEMMA PickedAllOrNone ==
  ASSUME NEW X, NEW s \in Seq(X), NEW S
  PROVE  /\ (\A k \in 1..Len(s) : s[k] \in S) => Picked(s, S) = s
         /\ (\A k \in 1..Len(s) : s[k] \notin S) => Picked(s, S) = <<>>
<1> DEFINE Ok(n) ==
      /\ (\A k \in 1..Len(s) : s[k] \in S) => Picked(FirstOf(s, n), S) = FirstOf(s, n)
      /\ (\A k \in 1..Len(s) : s[k] \notin S) => Picked(FirstOf(s, n), S) = <<>>
           Bad == {n \in 0..Len(s) : ~Ok(n)}
<1>0. Bad \subseteq 0..Len(s) /\ Len(s) \in Nat
  OBVIOUS
<1>1. ASSUME NEW n \in Bad, \A k \in Bad : n <= k PROVE FALSE
  <2>1. Ok(0)
    BY PickedTyped, Starts
  <2>2. n \in 1..Len(s) /\ n - 1 \in 0..Len(s) /\ n - 1 \notin Bad
    <3>1. 0 \notin Bad
      BY <2>1
    <3> HIDE DEF Bad
    <3> QED BY <3>1, <1>0, <1>1
  <2>3. PICK r, x : r = FirstOf(s, n - 1) /\ x = s[n]
    OBVIOUS
  <2>4. r \in Seq(X) /\ x \in X /\ FirstOf(s, n) = Append(r, x)
    <3> HIDE DEF Ok, Bad
    <3>1. s[n] \in X
      BY <2>2
    <3>2. FirstOf(s, n - 1) \in Seq(X)
      BY <2>2, Starts
    <3>3. FirstOf(s, n) = Append(FirstOf(s, n - 1), s[n])
      BY <2>2, Starts
    <3> QED BY <2>3, <3>1, <3>2, <3>3
  <2>5. Picked(Append(r, x), S) = IF x \in S THEN Append(Picked(r, S), x) ELSE Picked(r, S)
    BY ONLY <2>4, PickedNext
  <2>6. Ok(n - 1)
    BY <2>2
  <2>7. Ok(n)
    BY <2>2, <2>3, <2>4, <2>5, <2>6
  <2> QED BY <2>7, <1>1
<1>2. Bad = {}
  <2> HIDE DEF Bad
  <2>1. Bad \subseteq Nat
    BY <1>0
  <2> QED BY <1>1, <2>1, First
<1>3. Ok(Len(s))
  <2> HIDE DEF Ok
  <2> QED BY <1>0, <1>2
<1> QED BY <1>3, Starts

----------------------------------------------------------------------------
(* The records                                                             *)

Roles == {"user", "assistant", "check", "notification", "tool"}
Messages == MessagesOf(Roles)

\* Record n may be followed by a result of reply i.
AwaitsAt(rs, i, n) ==
  /\ i \in 1..n /\ rs[i].role = "assistant"
  /\ \A k \in i + 1..n : rs[k].role \in {"tool", "notification"}

\* The calls of reply i that have a result among the first n records.
Given(rs, i, n) ==
  {k \in 1..Len(rs[i].calls) : \E j \in 1..n : rs[j].role = "tool" /\ rs[j].id = <<i, k>>}

\* Results come in the order of the calls of the reply before them.
IsNext(rs, j, i, k) ==
  /\ i \in 1..j /\ AwaitsAt(rs, i, j)
  /\ k \in 1..Len(rs[i].calls) /\ rs[j].id = <<i, k>>
  /\ Given(rs, i, j - 1) = 1..k - 1

CallsMade(i, c) == [k \in 1..c |-> <<i, k>>]

Sound(rs, j) ==
  /\ rs[j].role = "assistant" => rs[j].calls = CallsMade(j, Len(rs[j].calls))
  /\ rs[j].role # "assistant" => rs[j].calls = <<>>
  /\ rs[j].role = "tool" => \E i, k \in Nat : IsNext(rs, j, i, k)

Ordered(rs) == rs \in Seq(Messages) /\ \A j \in 1..Len(rs) : Sound(rs, j)

\* While calls are run, those of the last reply without a result are queued.
Waiting(i, t) ==
  LET c == Len(records[i].calls)
  IN  /\ AwaitsAt(records, i, Len(records)) /\ t < c
      /\ Given(records, i, Len(records)) = 1..t
      /\ queue = [k \in 1..c - t |-> <<i, t + k>>]
Queued == \E i \in 1..Len(records), t \in Nat : Waiting(i, t)

HistoryIInv ==
  /\ Ordered(records) /\ attempts \in Nat
  /\ turn = "tools" => Queued

\* The calls with a result, counting one more record.
LEMMA GivenNext ==
  ASSUME NEW rs, NEW i, NEW n \in Nat
  PROVE  \A k : k \in Given(rs, i, n + 1) <=>
                \/ k \in Given(rs, i, n)
                \/ /\ k \in 1..Len(rs[i].calls)
                   /\ rs[n + 1].role = "tool" /\ rs[n + 1].id = <<i, k>>
<1>1. \A j : j \in 1..n + 1 <=> j \in 1..n \/ j = n + 1
  OBVIOUS
<1> QED BY <1>1 DEF Given

\* What is said of the first records does not change when one is added.
OneMore(rs, x, s) == rs \in Seq(Messages) /\ x \in Messages /\ s = Append(rs, x)

\* Neither the order nor the results among the first records change.
LEMMA AddedLater ==
  ASSUME NEW rs, NEW x, NEW s, OneMore(rs, x, s)
  PROVE  /\ s \in Seq(Messages) /\ Len(s) = Len(rs) + 1 /\ s[Len(rs) + 1] = x
         /\ \A n \in 1..Len(rs) : s[n] = rs[n]
         /\ \A i, n \in 0..Len(rs) : AwaitsAt(s, i, n) <=> AwaitsAt(rs, i, n)
         /\ \A i \in 1..Len(rs), n \in 0..Len(rs) : Given(s, i, n) = Given(rs, i, n)
         /\ \A j \in 1..Len(rs) : Sound(s, j) <=> Sound(rs, j)
<1>1. /\ s \in Seq(Messages) /\ Len(s) = Len(rs) + 1 /\ s[Len(rs) + 1] = x /\ Len(rs) \in Nat
      /\ \A n \in 1..Len(rs) : s[n] = rs[n]
  BY DEF OneMore
<1>2. ASSUME NEW i \in 0..Len(rs), NEW n \in 0..Len(rs) PROVE AwaitsAt(s, i, n) <=> AwaitsAt(rs, i, n)
  <2>1. \A k \in 1..n : s[k] = rs[k]
    BY <1>1
  <2>2. CASE i \in 1..n
    <3>1. \A k \in i + 1..n : s[k] = rs[k]
      BY <2>1, <2>2
    <3> QED BY <2>1, <2>2, <3>1 DEF AwaitsAt
  <2>3. CASE i \notin 1..n
    BY <2>3 DEF AwaitsAt
  <2> QED BY <2>2, <2>3
<1>3. ASSUME NEW i \in 1..Len(rs), NEW n \in 0..Len(rs) PROVE Given(s, i, n) = Given(rs, i, n)
  <2>1. s[i] = rs[i] /\ \A j \in 1..n : s[j] = rs[j]
    BY <1>1
  <2> QED BY <2>1 DEF Given
<1>4. ASSUME NEW j \in 1..Len(rs) PROVE Sound(s, j) <=> Sound(rs, j)
  <2>1. ASSUME NEW i \in Nat, NEW k \in Nat PROVE IsNext(s, j, i, k) <=> IsNext(rs, j, i, k)
    <3>1. CASE i \in 1..j
      <4>1. i \in 1..Len(rs) /\ i \in 0..Len(rs) /\ j \in 0..Len(rs) /\ j - 1 \in 0..Len(rs)
        BY <3>1, <1>1
      <4>2. s[i] = rs[i] /\ s[j] = rs[j]
        BY <4>1, <1>1
      <4>3. /\ AwaitsAt(s, i, j) <=> AwaitsAt(rs, i, j)
            /\ Given(s, i, j - 1) = Given(rs, i, j - 1)
        BY <4>1, <1>2, <1>3
      <4> QED BY <4>2, <4>3 DEF IsNext
    <3>2. CASE i \notin 1..j
      BY <3>2 DEF IsNext
    <3> QED BY <3>1, <3>2
  <2>2. s[j] = rs[j]
    BY <1>1
  <2> QED BY <2>1, <2>2 DEF Sound
<1> QED BY <1>1, <1>2, <1>3, <1>4

\* No result is of a reply that comes after it.
LEMMA NoneGiven ==
  ASSUME NEW rs, Ordered(rs), NEW i, NEW n \in 0..Len(rs), n < i, i \in Nat
  PROVE  Given(rs, i, n) = {}
<1> SUFFICES ASSUME NEW k \in Given(rs, i, n) PROVE FALSE
  OBVIOUS
<1>1. PICK j \in 1..n : rs[j].role = "tool" /\ rs[j].id = <<i, k>>
  BY DEF Given
<1>2. j \in 1..Len(rs) /\ Sound(rs, j)
  BY <1>1 DEF Ordered
<1>3. PICK a \in Nat, b \in Nat : IsNext(rs, j, a, b)
  BY <1>1, <1>2 DEF Sound
<1>4. a \in 1..j /\ rs[j].id = <<a, b>>
  BY <1>3 DEF IsNext
<1>5. a = i
  BY <1>1, <1>4
<1> QED BY <1>1, <1>4, <1>5

----------------------------------------------------------------------------
(* Steps                                                                   *)

\* Adding a record that stands where it may.
LEMMA OrderIsKept ==
  ASSUME NEW rs, NEW x, NEW s, OneMore(rs, x, s), Ordered(rs), Sound(s, Len(s))
  PROVE  Ordered(s)
<1>1. rs \in Seq(Messages) /\ \A j \in 1..Len(rs) : Sound(rs, j)
  BY DEF Ordered
<1>2. s \in Seq(Messages) /\ Len(s) = Len(rs) + 1 /\ \A j \in 1..Len(rs) : Sound(s, j)
  BY <1>1, AddedLater
<1>3. \A j \in 1..Len(s) : j \in 1..Len(rs) \/ j = Len(s)
  BY <1>1, <1>2
<1> QED BY <1>2, <1>3 DEF Ordered

\* A message from the user, a notification or a check stands anywhere.
LEMMA WordsAreOrdered ==
  ASSUME NEW rs, NEW x, NEW s, OneMore(rs, x, s), Ordered(rs),
         x.role \in {"user", "check", "notification"}, x.calls = <<>>
  PROVE  Ordered(s)
<1>1. Len(s) = Len(rs) + 1 /\ s[Len(s)] = x
  BY AddedLater
<1>2. Sound(s, Len(s))
  BY <1>1 DEF Sound
<1> QED BY <1>2, OrderIsKept

\* A reply stands anywhere, and awaits the results of its calls.
LEMMA ReplyIsOrdered ==
  ASSUME NEW rs, NEW x, NEW s, NEW i, OneMore(rs, x, s), i = Len(rs) + 1, Ordered(rs),
         x.role = "assistant", x.calls = CallsMade(i, Len(x.calls))
  PROVE  /\ Ordered(s) /\ Len(s) = i /\ s[i] = x
         /\ AwaitsAt(s, i, i) /\ Given(s, i, i) = {}
<1>0. rs \in Seq(Messages) /\ Len(rs) \in Nat /\ i \in Nat /\ i \in 1..i
  BY DEF Ordered
<1>1. Len(s) = i /\ s[i] = x
  BY AddedLater
<1>2. Sound(s, Len(s))
  BY <1>1 DEF Sound
<1>3. Ordered(s)
  BY <1>2, OrderIsKept
<1>4. AwaitsAt(s, i, i)
  <2>1. \A k : k \notin i + 1..i
    BY <1>0
  <2> QED BY <1>0, <1>1, <2>1 DEF AwaitsAt
<1>5. Given(s, i, i) = {}
  <2>1. PICK m : m = i - 1
    OBVIOUS
  <2>2. m \in Nat /\ m + 1 = i /\ m \in 0..Len(s) /\ m < i /\ s[m + 1].role # "tool"
    BY <2>1, <1>0, <1>1
  <2>3. Given(s, i, m) = {}
    BY <2>2, <1>0, <1>3, NoneGiven
  <2>4. \A k : k \notin Given(s, i, m + 1)
    BY <2>2, <2>3, GivenNext
  <2> QED BY <2>2, <2>4
<1> QED BY <1>1, <1>3, <1>4, <1>5

\* The calls that wait for a result still do with one more result or note.
OpenWith(rs, x, s, i) ==
  /\ Len(s) = Len(rs) + 1 /\ s[i] = rs[i] /\ s[Len(s)] = x
  /\ AwaitsAt(s, i, Len(s))
  /\ \A k : k \in Given(s, i, Len(s)) <=>
       \/ k \in Given(rs, i, Len(rs))
       \/ k \in 1..Len(rs[i].calls) /\ x.role = "tool" /\ x.id = <<i, k>>

\* The reply still awaits its results, and those given count the new one.
LEMMA StillAwaits ==
  ASSUME NEW rs, NEW x, NEW s, NEW i, OneMore(rs, x, s), i \in 1..Len(rs),
         AwaitsAt(rs, i, Len(rs)), x.role \in {"tool", "notification"}
  PROVE  OpenWith(rs, x, s, i)
<1>1. PICK n, m : n = Len(rs) /\ m = n + 1
  OBVIOUS
<1>2. /\ n \in Nat /\ m \in Nat /\ i \in 1..n /\ i \in 1..m /\ i \in 0..Len(rs)
      /\ n \in 0..Len(rs)
  BY <1>1 DEF OneMore
<1>3. Len(s) = m /\ s[m] = x /\ s[i] = rs[i]
  BY <1>1, AddedLater
<1>4. AwaitsAt(s, i, n)
  BY <1>1, <1>2, AddedLater
<1>5. Given(s, i, n) = Given(rs, i, n)
  BY <1>1, <1>2, AddedLater
<1>6. AwaitsAt(s, i, m)
  <2>1. \A k \in i + 1..m : k \in i + 1..n \/ k = m
    BY <1>1, <1>2
  <2>2. s[i].role = "assistant" /\ \A k \in i + 1..n : s[k].role \in {"tool", "notification"}
    BY <1>4 DEF AwaitsAt
  <2> QED BY <2>1, <2>2, <1>2, <1>3 DEF AwaitsAt
<1>7. \A k : k \in Given(s, i, n + 1) <=>
               \/ k \in Given(s, i, n)
               \/ k \in 1..Len(s[i].calls) /\ s[n + 1].role = "tool" /\ s[n + 1].id = <<i, k>>
  <2> HIDE <1>1
  <2> QED BY ONLY <1>2, GivenNext, Zenon
<1> QED BY <1>1, <1>3, <1>5, <1>6, <1>7 DEF OpenWith

\* The result of the next call stands behind its reply.
LEMMA ResultIsOrdered ==
  ASSUME NEW rs, NEW x, NEW s, NEW i, NEW t, OneMore(rs, x, s), Ordered(rs),
         i \in 1..Len(rs), t \in Nat, AwaitsAt(rs, i, Len(rs)),
         t < Len(rs[i].calls), Given(rs, i, Len(rs)) = 1..t,
         x.role = "tool", x.calls = <<>>, x.id = <<i, t + 1>>
  PROVE  Ordered(s) /\ OpenWith(rs, x, s, i) /\ Given(s, i, Len(s)) = 1..t + 1
<1>0. OpenWith(rs, x, s, i)
  BY StillAwaits
<1>1. /\ Len(s) = Len(rs) + 1 /\ s[i] = rs[i] /\ s[Len(s)] = x
      /\ AwaitsAt(s, i, Len(s))
      /\ \A k : k \in Given(s, i, Len(s)) <=>
              \/ k \in Given(rs, i, Len(rs))
              \/ k \in 1..Len(rs[i].calls) /\ x.role = "tool" /\ x.id = <<i, k>>
  BY <1>0 DEF OpenWith
<1>2. Len(rs) \in Nat /\ Len(rs[i].calls) \in Nat /\ i \in Nat
  <2>1. rs \in Seq(Messages) /\ rs[i] \in Messages
    BY DEF OneMore
  <2>2. rs[i].calls \in Seq(Nat \X Nat)
    BY <2>1 DEF Messages, MessagesOf
  <2> QED BY <2>1, <2>2
<1>3. Given(s, i, Len(s)) = 1..t + 1
  <2>1. \A k : <<i, t + 1>> = <<i, k>> <=> k = t + 1
    OBVIOUS
  <2>2. t + 1 \in 1..Len(rs[i].calls)
    BY <1>2
  <2>3. 1..t + 1 = 1..t \cup {t + 1}
    OBVIOUS
  <2>4. \A k : k \in Given(s, i, Len(s)) <=> k \in 1..t \/ k = t + 1
    BY <1>1, <2>1, <2>2
  <2> QED BY <2>3, <2>4
<1>4. IsNext(s, Len(s), i, t + 1)
  <2>1. PICK n, m, u : n = Len(rs) /\ m = n + 1 /\ u = t + 1
    OBVIOUS
  <2>2. /\ i \in 1..m /\ u \in 1..Len(s[i].calls) /\ m - 1 = n /\ u - 1 = t /\ Len(s) = m
        /\ n \in 0..Len(rs)
    BY <2>1, <1>1, <1>2
  <2>3. Given(s, i, n) = Given(rs, i, n)
    BY <2>1, <2>2, AddedLater
  <2>4. s[m].id = <<i, u>> /\ Given(s, i, m - 1) = 1..u - 1 /\ AwaitsAt(s, i, m)
    BY <2>1, <2>2, <2>3, <1>1
  <2>5. IsNext(s, m, i, u)
    BY <2>2, <2>4 DEF IsNext
  <2> QED BY <2>1, <2>2, <2>5
<1>5. Ordered(s)
  <2>1. t + 1 \in Nat
    OBVIOUS
  <2>2. Sound(s, Len(s))
    BY <1>1, <1>2, <1>4, <2>1 DEF Sound
  <2> QED BY <2>2, OrderIsKept
<1> QED BY <1>0, <1>3, <1>5

\* Two sequences of the same elements.
LEMMA SameSequence ==
  ASSUME NEW X, NEW f \in Seq(X), NEW g \in Seq(X), Len(f) = Len(g),
         \A k \in 1..Len(g) : f[k] = g[k]
  PROVE  f = g
OBVIOUS

\* What is left of a queue.
LEMMA TailIs ==
  ASSUME NEW X, NEW q \in Seq(X), Len(q) > 0
  PROVE  /\ Tail(q) \in Seq(X) /\ Len(Tail(q)) = Len(q) - 1
         /\ \A k \in 1..Len(q) - 1 : Tail(q)[k] = q[k + 1]
OBVIOUS

----------------------------------------------------------------------------
(* The records are ordered                                                 *)

\* A conversation starts without records.
LEMMA HistoryStarts == HistoryInit => HistoryIInv
<1> SUFFICES ASSUME HistoryInit PROVE HistoryIInv
  OBVIOUS
<1>1. records = <<>> /\ Len(records) = 0 /\ records \in Seq(Messages)
  BY DEF HistoryInit
<1> QED BY <1>1 DEF HistoryInit, HistoryIInv, Ordered

\* The order of the records and of the calls that are run is kept, as long as
\* the server gives every call an id of its own.
LEMMA HistoryStep ==
  ASSUME ServerIds, HistoryIInv, [HistoryNext]_HistoryVars
  PROVE  HistoryIInv'
<1> USE HistoryAssumption
<1>0. /\ Ordered(records) /\ records \in Seq(Messages) /\ Len(records) \in Nat
      /\ attempts \in Nat /\ Rounds \in Nat
  BY DEF HistoryIInv, Ordered
<1>9. NoId \in Nat \X Nat /\ <<>> \in Seq(Nat \X Nat)
  BY DEF NoId
<1>1. CASE Asks
  <2>1. PICK x : x = Record("user", <<>>, NoId)
    OBVIOUS
  <2>2. records' = Append(records, x) /\ turn' = "reply" /\ attempts' = 1
    BY <1>1, <2>1 DEF Asks, Stored, TurnBegins
  <2>3. x \in Messages /\ x.role = "user" /\ x.calls = <<>>
    <3>1. "user" \in Roles
      BY DEF Roles
    <3> QED BY <1>9, <2>1, <3>1 DEF Record, Messages, MessagesOf
  <2>4. Ordered(records')
    BY <1>0, <2>2, <2>3, WordsAreOrdered DEF OneMore
  <2> QED BY <2>2, <2>4 DEF HistoryIInv
<1>2. CASE CarriesOn
  BY <1>0, <1>2 DEF CarriesOn, TurnBegins, HistoryIInv
<1>3. CASE Notified
  <2>1. PICK x : x = Record("notification", <<>>, <<0, Len(records) + 1>>)
    OBVIOUS
  <2>2. records' = Append(records, x) /\ UNCHANGED <<turn, attempts, queue>>
    BY <1>3, <2>1 DEF Notified, Stored
  <2>3. x \in Messages /\ x.role = "notification" /\ x.calls = <<>>
    <3>1. <<0, Len(records) + 1>> \in Nat \X Nat /\ "notification" \in Roles
      BY <1>0 DEF Roles
    <3> QED BY <1>9, <2>1, <3>1 DEF Record, Messages, MessagesOf
  <2>4. OneMore(records, x, records')
    BY <1>0, <2>2, <2>3 DEF OneMore
  <2>5. Ordered(records')
    BY <1>0, <2>3, <2>4, WordsAreOrdered
  <2>6. ASSUME turn = "tools" PROVE Queued'
    <3>1. PICK i, t : /\ i \in 1..Len(records) /\ t \in Nat
                      /\ Waiting(i, t)
      BY <2>6 DEF HistoryIInv, Queued
    <3>2. /\ AwaitsAt(records, i, Len(records)) /\ t < Len(records[i].calls)
          /\ Given(records, i, Len(records)) = 1..t
          /\ queue = [k \in 1..Len(records[i].calls) - t |-> <<i, t + k>>]
      BY <3>1 DEF Waiting
    <3>3. OpenWith(records, x, records', i)
      BY <2>3, <2>4, <3>1, <3>2, StillAwaits
    <3>4. /\ Len(records') = Len(records) + 1 /\ records'[i] = records[i]
          /\ AwaitsAt(records', i, Len(records'))
          /\ Given(records', i, Len(records')) = 1..t
      <4>1. \A k : k \in Given(records', i, Len(records')) <=> k \in 1..t
        BY <2>3, <3>2, <3>3 DEF OpenWith
      <4> QED BY <3>3, <4>1 DEF OpenWith
    <3>5. i \in 1..Len(records')
      BY <1>0, <3>1, <3>4
    <3>6. Waiting(i, t)'
      BY <2>2, <2>3, <3>2, <3>4 DEF Waiting
    <3> QED BY <3>1, <3>5, <3>6 DEF Queued
  <2> QED BY <1>0, <2>2, <2>5, <2>6 DEF HistoryIInv
<1>4. CASE ReplyArrives
  <2>1. PICK n \in 0..LongReply :
          LET said == Append(records, Record("assistant", CallIds(n), NoId))
          IN  \/ (n > 0 /\ Stored(said) /\ RunsCalls(n))
              \/ /\ n = 0
                 /\ \/ Stored(said) /\ TurnOver("idle")
                    \/ Stored(Append(said, Record("check", <<>>, NoId))) /\ AsksAgain
    BY <1>4 DEF ReplyArrives
  <2>2. PICK i, x, s : /\ i = Len(records) + 1 /\ s = Append(records, x)
                       /\ x = Record("assistant", CallIds(n), NoId)
    OBVIOUS
  <2>3. CallIds(n) = CallsMade(i, n) /\ n \in Nat /\ i \in Nat
    BY <1>0, <2>2 DEF CallIds, CallsMade
  <2>4. CallsMade(i, n) \in Seq(Nat \X Nat) /\ Len(CallsMade(i, n)) = n
    BY <2>3 DEF CallsMade
  <2>5. x \in Messages /\ x.role = "assistant" /\ x.calls = CallsMade(i, n)
    <3>1. "assistant" \in Roles
      BY DEF Roles
    <3> QED BY <1>9, <2>2, <2>3, <2>4, <3>1 DEF Record, Messages, MessagesOf
  <2>6. OneMore(records, x, s) /\ x.calls = CallsMade(i, Len(x.calls))
    BY <1>0, <2>2, <2>4, <2>5 DEF OneMore
  <2>7. /\ Ordered(s) /\ Len(s) = i /\ s[i] = x
        /\ AwaitsAt(s, i, i) /\ Given(s, i, i) = {}
    BY <1>0, <2>2, <2>5, <2>6, ReplyIsOrdered
  <2>8. CASE n > 0 /\ Stored(s) /\ RunsCalls(n)
    <3>1. records' = s /\ turn' = "tools" /\ attempts' = attempts /\ queue' = CallsMade(i, n)
      BY <2>3, <2>8 DEF Stored, RunsCalls
    <3>2. queue' = [k \in 1..n - 0 |-> <<i, 0 + k>>]
      BY <2>3, <3>1 DEF CallsMade
    <3>3. Given(s, i, i) = 1..0 /\ 0 < n /\ 0 \in Nat /\ i \in 1..Len(s)
      BY <1>0, <2>2, <2>3, <2>7, <2>8
    <3>4. Waiting(i, 0)'
      BY <2>4, <2>5, <2>7, <3>1, <3>2, <3>3 DEF Waiting
    <3> QED BY <1>0, <2>7, <3>1, <3>3, <3>4 DEF HistoryIInv, Queued
  <2>9. CASE Stored(s) /\ TurnOver("idle")
    BY <2>7, <2>9 DEF Stored, TurnOver, HistoryIInv
  <2>10. CASE Stored(Append(s, Record("check", <<>>, NoId))) /\ AsksAgain
    <3>1. PICK y : y = Record("check", <<>>, NoId)
      OBVIOUS
    <3>2. y \in Messages /\ y.role = "check" /\ y.calls = <<>>
      <4>1. "check" \in Roles
        BY DEF Roles
      <4> QED BY <1>9, <3>1, <4>1 DEF Record, Messages, MessagesOf
    <3>3. OneMore(s, y, records')
      BY <2>7, <2>10, <3>1, <3>2 DEF OneMore, Stored, Ordered
    <3>4. Ordered(records')
      BY <2>7, <3>2, <3>3, WordsAreOrdered
    <3>5. attempts' \in Nat /\ turn' # "tools"
      BY <1>0, <2>10 DEF AsksAgain, TurnOver
    <3> QED BY <3>4, <3>5 DEF HistoryIInv
  <2> QED BY <2>1, <2>2, <2>8, <2>9, <2>10
<1>5. CASE ToolEnds
  <2>1. /\ turn = "tools" /\ records' = Append(records, Record("tool", <<>>, Head(queue)))
        /\ IF Len(queue) > 1 THEN queue' = Tail(queue) /\ UNCHANGED <<turn, attempts>> ELSE AsksAgain
    BY <1>5 DEF ToolEnds, Stored
  <2>2. PICK i, t : i \in 1..Len(records) /\ t \in Nat /\ Waiting(i, t)
    BY <2>1 DEF HistoryIInv, Queued
  <2>3. PICK c, x : c = Len(records[i].calls) /\ x = Record("tool", <<>>, <<i, t + 1>>)
    OBVIOUS
  <2>4. /\ AwaitsAt(records, i, Len(records)) /\ t < c /\ Given(records, i, Len(records)) = 1..t
        /\ queue = [k \in 1..c - t |-> <<i, t + k>>]
    BY <2>2, <2>3 DEF Waiting
  <2>5. c \in Nat /\ i \in Nat
    <3>1. records[i] \in Messages
      BY <1>0, <2>2
    <3>2. records[i].calls \in Seq(Nat \X Nat)
      BY <3>1 DEF Messages, MessagesOf
    <3> QED BY <1>0, <2>2, <2>3, <3>2
  <2>6. /\ queue \in Seq(Nat \X Nat) /\ Len(queue) = c - t
        /\ Head(queue) = <<i, t + 1>>
    <3>1. \A k \in 1..c - t : <<i, t + k>> \in Nat \X Nat
      BY <2>2, <2>5
    <3>2. queue \in Seq(Nat \X Nat) /\ Len(queue) = c - t
      BY <2>2, <2>4, <2>5, <3>1
    <3>3. queue[1] = <<i, t + 1>>
      BY <2>2, <2>4, <2>5
    <3> QED BY <2>2, <2>4, <2>5, <3>2, <3>3
  <2>7. x \in Messages /\ x.role = "tool" /\ x.calls = <<>> /\ x.id = <<i, t + 1>>
    <3>1. <<i, t + 1>> \in Nat \X Nat /\ "tool" \in Roles
      BY <2>2, <2>5 DEF Roles
    <3> QED BY <1>9, <2>3, <3>1 DEF Record, Messages, MessagesOf
  <2>8. OneMore(records, x, records')
    BY <1>0, <2>1, <2>3, <2>6, <2>7 DEF OneMore
  <2>9. /\ Ordered(records') /\ Len(records') = Len(records) + 1 /\ records'[i] = records[i]
        /\ AwaitsAt(records', i, Len(records')) /\ Given(records', i, Len(records')) = 1..t + 1
    <3>1. /\ OneMore(records, x, records') /\ Ordered(records)
          /\ i \in 1..Len(records) /\ t \in Nat /\ AwaitsAt(records, i, Len(records))
          /\ t < Len(records[i].calls) /\ Given(records, i, Len(records)) = 1..t
          /\ x.role = "tool" /\ x.calls = <<>> /\ x.id = <<i, t + 1>>
      BY <1>0, <2>2, <2>3, <2>4, <2>7, <2>8
    <3>2. Ordered(records') /\ OpenWith(records, x, records', i) /\ Given(records', i, Len(records')) = 1..t + 1
      BY ONLY <3>1, ResultIsOrdered
    <3> QED BY <3>2 DEF OpenWith
  <2>10. CASE Len(queue) > 1
    <3>1. queue' = Tail(queue) /\ turn' = turn /\ attempts' = attempts
      BY <2>1, <2>10
    <3>2. t + 1 < c /\ t + 1 \in Nat /\ i \in 1..Len(records')
      BY <1>0, <2>2, <2>4, <2>5, <2>6, <2>9, <2>10
    <3>3. Tail(queue) = [k \in 1..c - (t + 1) |-> <<i, (t + 1) + k>>]
      <4>1. /\ Tail(queue) \in Seq(Nat \X Nat) /\ Len(Tail(queue)) = Len(queue) - 1
            /\ \A k \in 1..Len(queue) - 1 : Tail(queue)[k] = queue[k + 1]
        BY <2>6, <2>10, TailIs
      <4>2. Len(queue) - 1 = c - (t + 1)
        BY <2>2, <2>5, <2>6
      <4>3. ASSUME NEW k \in 1..c - (t + 1) PROVE Tail(queue)[k] = <<i, (t + 1) + k>>
        <5>1. Tail(queue)[k] = queue[k + 1]
          BY <4>1, <4>2
        <5>2. k + 1 \in 1..c - t
          BY <2>2, <2>5
        <5>3. queue[k + 1] = <<i, t + (k + 1)>>
          BY <5>2, <2>4
        <5>4. t + (k + 1) = (t + 1) + k
          BY <2>2
        <5> QED BY <5>1, <5>3, <5>4
      <4>4. Len(Tail(queue)) = c - (t + 1)
        BY <4>1, <4>2
      <4>5. PICK f : f = [k \in 1..c - (t + 1) |-> <<i, (t + 1) + k>>]
        OBVIOUS
      <4>6. f \in Seq(Nat \X Nat) /\ Len(f) = c - (t + 1)
        <5>1. c - (t + 1) \in Nat /\ \A k \in 1..c - (t + 1) : <<i, (t + 1) + k>> \in Nat \X Nat
          BY <2>2, <2>4, <2>5
        <5> QED BY <4>5, <5>1
      <4>7. \A k \in 1..Len(f) : Tail(queue)[k] = f[k]
        BY <4>3, <4>5, <4>6
      <4>8. Tail(queue) = f
        BY <4>1, <4>4, <4>6, <4>7, SameSequence
      <4> QED BY <4>5, <4>8
    <3>4. Waiting(i, t + 1)'
      BY <2>3, <2>9, <3>1, <3>2, <3>3 DEF Waiting
    <3> QED BY <1>0, <2>9, <3>1, <3>2, <3>4 DEF HistoryIInv, Queued
  <2>11. CASE ~(Len(queue) > 1)
    <3>1. attempts' \in Nat /\ turn' # "tools"
      BY <1>0, <2>1, <2>11 DEF AsksAgain, TurnOver
    <3> QED BY <2>9, <3>1 DEF HistoryIInv
  <2> QED BY <2>10, <2>11
<1>6. CASE BreaksOff
  BY <1>0, <1>6 DEF BreaksOff, TurnOver, HistoryIInv
<1>7. CASE UNCHANGED HistoryVars
  BY <1>7 DEF HistoryVars, HistoryIInv, Queued, Waiting
<1> QED BY <1>1, <1>2, <1>3, <1>4, <1>5, <1>6, <1>7 DEF HistoryNext

\* HistoryIInv: the records hold each result behind its reply, in the order of
\* the calls, through turns that end anywhere (ToolEnds, BreaksOff), as long as
\* the server gives every call an id of its own.
THEOREM RecordsInvariant == ServerIds => (HistorySpec => []HistoryIInv)
<1> SUFFICES ASSUME ServerIds PROVE HistorySpec => []HistoryIInv
  OBVIOUS
<1>1. HistoryIInv /\ [HistoryNext]_HistoryVars => HistoryIInv'
  BY HistoryStep
<1> QED BY <1>1, HistoryStarts, PTL DEF HistorySpec

----------------------------------------------------------------------------
(* The calls of a reply that have a result                                 *)

\* Numbers up to equal bounds.
LEMMA SameBound == ASSUME NEW t \in Nat, NEW u \in Nat, 1..t = 1..u PROVE t = u
<1>1. CASE t < u
  <2>1. u \in 1..u /\ u \notin 1..t
    BY <1>1
  <2> QED BY <2>1
<1>2. CASE u < t
  <2>1. t \in 1..t /\ t \notin 1..u
    BY <1>2
  <2> QED BY <2>1
<1> QED BY <1>1, <1>2

\* A reply's first calls have one, and no others.
Counted(rs, i, n) == \E t \in 0..Len(rs[i].calls) : Given(rs, i, n) = 1..t

\* At any record, the calls of a reply with a result are its first ones.
LEMMA FirstCallsGiven ==
  ASSUME NEW rs, Ordered(rs), NEW i, i \in 1..Len(rs), NEW n, n \in 0..Len(rs)
  PROVE  Counted(rs, i, n)
<1> DEFINE Bad == {m \in 0..Len(rs) : ~Counted(rs, i, m)}
<1>0. /\ rs \in Seq(Messages) /\ Len(rs) \in Nat /\ i \in Nat /\ Len(rs[i].calls) \in Nat
      /\ Bad \subseteq 0..Len(rs)
  <2>1. rs \in Seq(Messages) /\ rs[i] \in Messages
    BY DEF Ordered
  <2>2. rs[i].calls \in Seq(Nat \X Nat)
    BY <2>1 DEF Messages, MessagesOf
  <2> QED BY <2>1, <2>2
<1>1. ASSUME NEW m \in Bad, \A k \in Bad : m <= k PROVE FALSE
  <2>1. m # 0
    <3>1. 0 \in 0..Len(rs) /\ 0 < i
      BY <1>0
    <3>2. Given(rs, i, 0) = {}
      BY <1>0, <3>1, NoneGiven
    <3>3. Counted(rs, i, 0)
      <4>1. {} = 1..0 /\ 0 \in 0..Len(rs[i].calls)
        BY <1>0
      <4> QED BY <3>2, <4>1 DEF Counted
    <3> QED BY <3>3, <1>1
  <2>2. m \in 1..Len(rs) /\ m - 1 \in 0..Len(rs) /\ m - 1 \notin Bad
    <3> HIDE DEF Bad
    <3> QED BY <2>1, <1>0, <1>1
  <2>3. PICK l : l = m - 1
    OBVIOUS
  <2>4. l \in Nat /\ l + 1 = m
    BY <2>2, <2>3
  <2>5. PICK t : t \in 0..Len(rs[i].calls) /\ Given(rs, i, l) = 1..t
    <3>1. Counted(rs, i, l)
      BY <2>2, <2>3
    <3> QED BY <3>1 DEF Counted
  <2>6. \A k : k \in Given(rs, i, m) <=>
               \/ k \in Given(rs, i, l)
               \/ k \in 1..Len(rs[i].calls) /\ rs[m].role = "tool" /\ rs[m].id = <<i, k>>
    <3>1. \A k : k \in Given(rs, i, l + 1) <=>
               \/ k \in Given(rs, i, l)
               \/ k \in 1..Len(rs[i].calls) /\ rs[l + 1].role = "tool" /\ rs[l + 1].id = <<i, k>>
      BY ONLY <2>4, GivenNext, Zenon
    <3> QED BY <2>4, <3>1
  <2>7. CASE \E k \in 1..Len(rs[i].calls) : rs[m].role = "tool" /\ rs[m].id = <<i, k>>
    <3>1. PICK k : k \in 1..Len(rs[i].calls) /\ rs[m].role = "tool" /\ rs[m].id = <<i, k>>
      BY <2>7
    <3>2. PICK a, b : a \in Nat /\ b \in Nat /\ IsNext(rs, m, a, b)
      BY <2>2, <3>1 DEF Ordered, Sound
    <3>3. a = i /\ b = k
      BY <3>1, <3>2 DEF IsNext
    <3>4. Given(rs, i, l) = 1..k - 1
      BY <2>3, <3>2, <3>3 DEF IsNext
    <3>5. t = k - 1
      BY <1>0, <2>5, <3>1, <3>4, SameBound
    <3>6. \A j : j \in Given(rs, i, m) <=> j \in 1..t \/ j = k
      BY <2>5, <2>6, <3>1
    <3>7. Given(rs, i, m) = 1..k
      <4>1. \A j : j \in 1..k <=> j \in 1..t \/ j = k
        BY <1>0, <2>5, <3>1, <3>5
      <4> QED BY <3>6, <4>1
    <3>8. Counted(rs, i, m)
      BY <1>0, <3>1, <3>7 DEF Counted
    <3> QED BY <3>8, <1>1
  <2>8. CASE ~\E k \in 1..Len(rs[i].calls) : rs[m].role = "tool" /\ rs[m].id = <<i, k>>
    <3>1. Given(rs, i, m) = Given(rs, i, l)
      BY <2>6, <2>8
    <3>2. Counted(rs, i, m)
      BY <2>5, <3>1 DEF Counted
    <3> QED BY <3>2, <1>1
  <2> QED BY <2>7, <2>8
<1>2. Bad = {}
  <2> HIDE DEF Bad
  <2>1. Bad \subseteq Nat
    BY <1>0
  <2> QED BY <1>1, <2>1, First
<1> QED BY <1>2

\* Once something else comes there are no more.
LEMMA NoMoreGiven ==
  ASSUME NEW rs, Ordered(rs), NEW i, NEW n, n \in 1..Len(rs), AwaitsAt(rs, i, n),
         n = Len(rs) \/ ~AwaitsAt(rs, i, n + 1)
  PROVE  Given(rs, i, n) = Given(rs, i, Len(rs))
<1>0. rs \in Seq(Messages) /\ Len(rs) \in Nat /\ n \in Nat /\ i \in 1..n /\ i \in Nat
  BY DEF Ordered, AwaitsAt
<1>1. CASE n = Len(rs)
  BY <1>1
<1>2. CASE n < Len(rs) /\ ~AwaitsAt(rs, i, n + 1)
  <2>1. rs[n + 1].role \notin {"tool", "notification"}
    <3>1. \A k \in i + 1..n + 1 : k \in i + 1..n \/ k = n + 1
      BY <1>0
    <3>2. i \in 1..n + 1
      BY <1>0
    <3> QED BY <1>2, <3>1, <3>2 DEF AwaitsAt
  <2>2. ASSUME NEW j \in n + 1..Len(rs), NEW k, rs[j].role = "tool", rs[j].id = <<i, k>>
        PROVE  FALSE
    <3>1. j \in 1..Len(rs)
      BY <1>0
    <3>2. PICK a, b : a \in Nat /\ b \in Nat /\ IsNext(rs, j, a, b)
      BY <2>2, <3>1 DEF Ordered, Sound
    <3>3. a = i /\ AwaitsAt(rs, i, j)
      BY <2>2, <3>2 DEF IsNext
    <3>4. n + 1 \in i + 1..j
      BY <1>0
    <3>5. rs[n + 1].role \in {"tool", "notification"}
      BY <3>3, <3>4 DEF AwaitsAt
    <3> QED BY <2>1, <3>5
  <2>3. \A j \in 1..Len(rs) : j \in 1..n \/ j \in n + 1..Len(rs)
    BY <1>0
  <2>4. \A j \in 1..n : j \in 1..Len(rs)
    BY <1>0
  <2> QED BY <2>2, <2>3, <2>4 DEF Given
<1> QED BY <1>0, <1>1, <1>2

\* The missing calls are the last ones.
Behind(S, i, c, a) ==
  i \in Nat /\ c \in Nat /\ a \in 0..c /\ \A k \in 1..c : <<i, k>> \in S <=> k > a

\* What is picked of the calls of a reply are those behind the first a.
LEMMA LastCalls ==
  ASSUME NEW S, NEW i, NEW c, NEW a, Behind(S, i, c, a)
  PROVE  Picked(CallsMade(i, c), S) = [k \in 1..c - a |-> <<i, a + k>>]
<1>0. i \in Nat /\ c \in Nat /\ a \in 0..c /\ \A k \in 1..c : <<i, k>> \in S <=> k > a
  BY DEF Behind
<1>1. PICK f, g, h : f = CallsMade(i, a) /\ g = [k \in 1..c - a |-> <<i, a + k>>] /\ h = CallsMade(i, c)
  OBVIOUS
<1>2. f \in Seq(Nat \X Nat) /\ Len(f) = a /\ \A k \in 1..a : f[k] = <<i, k>>
  BY <1>0, <1>1 DEF CallsMade
<1>3. g \in Seq(Nat \X Nat) /\ Len(g) = c - a /\ \A k \in 1..c - a : g[k] = <<i, a + k>>
  <2>1. c - a \in Nat /\ \A k \in 1..c - a : <<i, a + k>> \in Nat \X Nat
    BY <1>0
  <2> QED BY <1>0, <1>1, <2>1
<1>4. h \in Seq(Nat \X Nat) /\ Len(h) = c /\ \A k \in 1..c : h[k] = <<i, k>>
  BY <1>0, <1>1 DEF CallsMade
<1>5. h = f \o g
  <2>1. f \o g \in Seq(Nat \X Nat) /\ Len(f \o g) = c
    <3>1. f \in Seq(Nat \X Nat) /\ g \in Seq(Nat \X Nat)
      BY <1>2, <1>3
    <3>2. f \o g \in Seq(Nat \X Nat) /\ Len(f \o g) = Len(f) + Len(g)
      BY ONLY <3>1
    <3>3. Len(f) = a /\ Len(g) = c - a
      BY <1>2, <1>3
    <3>4. a + (c - a) = c
      BY <1>0
    <3> QED BY <3>2, <3>3, <3>4
  <2>2. ASSUME NEW k \in 1..c PROVE (f \o g)[k] = <<i, k>>
    <3>1. CASE k <= a
      <4>1. (f \o g)[k] = f[k] /\ k \in 1..a
        BY <1>0, <1>2, <1>3, <3>1
      <4> QED BY <1>0, <1>2, <4>1
    <3>2. CASE k > a
      <4>1. PICK m : m = k - a
        OBVIOUS
      <4>2. (f \o g)[k] = g[m] /\ m \in 1..c - a /\ a + m = k
        BY <1>0, <1>2, <1>3, <3>2, <4>1
      <4>3. g[m] = <<i, a + m>>
        BY <1>3, <4>2
      <4>4. <<i, a + m>> = <<i, k>>
        BY <4>2
      <4> QED BY ONLY <4>2, <4>3, <4>4, Zenon
    <3>3. k <= a \/ k > a
      BY <1>0
    <3> QED BY ONLY <3>1, <3>2, <3>3, Zenon
  <2> QED BY <1>0, <1>4, <2>1, <2>2, SameSequence
<1>6. \A k \in 1..Len(f) : f[k] \notin S
  BY <1>0, <1>2
<1>7. \A k \in 1..Len(g) : g[k] \in S
  <2>1. \A k \in 1..c - a : a + k \in 1..c /\ a + k > a
    BY <1>0
  <2> QED BY <1>0, <1>3, <2>1
<1>8. Picked(f, S) = <<>>
  BY <1>0, <1>2, <1>6, PickedAllOrNone
<1>9. Picked(g, S) = g
  BY <1>0, <1>3, <1>7, PickedAllOrNone
<1>10. Picked(f \o g, S) = Picked(f, S) \o Picked(g, S)
  BY <1>0, <1>2, <1>3, PickedBoth
<1> QED BY <1>0, <1>1, <1>3, <1>5, <1>8, <1>9, <1>10

----------------------------------------------------------------------------
(* What is told                                                            *)

\* The result at h[k] is of a reply's calls.
Blocks(h) ==
  \A k \in 1..Len(h) : h[k].role = "tool" =>
    \E q \in 1..Len(h) : k \in q + 1..q + Len(h[q].calls)
Complete(h) == \A q \in 1..Len(h) : Answered(h, q)

\* Message p is reply i, and ends what is told but for the results so far: those
\* of the calls behind the first a, which are not run, and of the first t.
Partial(rs, h, i, p, a, t) ==
  LET c == Len(rs[i].calls)
  IN  /\ p \in 1..Len(h) /\ h[p].calls = CallsMade(i, c)
      /\ a \in 0..c /\ t \in 0..a /\ Len(h) = p + ((c - a) + t)
      /\ \A k \in 1..(c - a) + t :
           h[p + k].role = "tool" /\ h[p + k].id = <<i, IF k <= c - a THEN a + k ELSE k - (c - a)>>
      /\ \A q \in 1..Len(h) : q # p => Answered(h, q)

\* A message that calls nothing needs no answer.
LEMMA NothingCalled ==
  ASSUME NEW h, h \in Seq(Messages), NEW q, q \in 1..Len(h), h[q].calls = <<>>
  PROVE  Answered(h, q)
<1>1. Len(h[q].calls) = 0 /\ ToSet(h[q].calls) = {} /\ q \in Nat
  BY DEF ToSet
<1>2. PICK e : e = q + 1..q + Len(h[q].calls)
  OBVIOUS
<1>3. \A k : k \notin e
  BY <1>1, <1>2
<1>4. e \subseteq DOMAIN h /\ (\A k \in e : h[k].role = "tool") /\ {h[k].id : k \in e} = {}
  BY <1>3
<1> QED BY <1>1, <1>2, <1>4 DEF Answered

\* What follows does not undo an answer.
LEMMA StaysAnswered ==
  ASSUME NEW h, h \in Seq(Messages), NEW s, s \in Seq(Messages), NEW g, g = h \o s,
         NEW q, q \in 1..Len(h), Answered(h, q)
  PROVE  Answered(g, q)
<1>1. PICK e : e = q + 1..q + Len(h[q].calls)
  OBVIOUS
<1>2. /\ e \subseteq 1..Len(h) /\ \A k \in e : h[k].role = "tool"
      /\ {h[k].id : k \in e} = ToSet(h[q].calls)
  BY <1>1 DEF Answered
<1>3. \A k \in 1..Len(h) : g[k] = h[k] /\ k \in DOMAIN g
  OBVIOUS
<1>4. g[q].calls = h[q].calls
  BY <1>3
<1>5. {g[k].id : k \in e} = {h[k].id : k \in e}
  BY <1>2, <1>3
<1>6. e \subseteq DOMAIN g /\ \A k \in e : g[k].role = "tool"
  BY <1>2, <1>3
<1> QED BY <1>1, <1>2, <1>4, <1>5, <1>6 DEF Answered

\* Words may follow what is complete.
LEMMA WordsFollow ==
  ASSUME NEW h, h \in Seq(Messages), NEW s, s \in Seq(Messages), NEW g, g = h \o s,
         \A k \in 1..Len(s) : s[k].role # "tool" /\ s[k].calls = <<>>, Complete(h), Blocks(h)
  PROVE  Complete(g) /\ Blocks(g)
<1>1. /\ g \in Seq(Messages) /\ Len(g) = Len(h) + Len(s) /\ Len(h) \in Nat /\ Len(s) \in Nat
      /\ \A k \in 1..Len(h) : g[k] = h[k]
  OBVIOUS
<1>2. ASSUME NEW q, q \in 1..Len(g), q \notin 1..Len(h) PROVE g[q].role # "tool" /\ g[q].calls = <<>>
  <2>1. PICK m : m = q - Len(h)
    OBVIOUS
  <2>2. m \in 1..Len(s) /\ g[q] = s[m]
    BY <1>1, <1>2, <2>1
  <2> QED BY <2>2
<1>3. Complete(g)
  <2>1. ASSUME NEW q \in 1..Len(g) PROVE Answered(g, q)
    <3>1. CASE q \in 1..Len(h)
      <4>1. Answered(h, q)
        BY <3>1 DEF Complete
      <4> QED BY <3>1, <4>1, StaysAnswered
    <3>2. CASE q \notin 1..Len(h)
      BY <1>1, <1>2, <3>2, NothingCalled
    <3> QED BY <3>1, <3>2
  <2> QED BY <2>1 DEF Complete
<1>4. Blocks(g)
  <2>1. ASSUME NEW k \in 1..Len(g), g[k].role = "tool"
        PROVE  \E q \in 1..Len(g) : k \in q + 1..q + Len(g[q].calls)
    <3>1. k \in 1..Len(h) /\ h[k].role = "tool"
      BY <1>1, <1>2, <2>1
    <3>2. PICK q \in 1..Len(h) : k \in q + 1..q + Len(h[q].calls)
      BY <3>1 DEF Blocks
    <3>3. q \in 1..Len(g) /\ g[q] = h[q]
      BY <1>1
    <3> QED BY <3>2, <3>3
  <2> QED BY <2>1 DEF Blocks
<1> QED BY <1>3, <1>4

\* The results so far are among the calls of their reply.
LEMMA PartialBlocks ==
  ASSUME NEW rs, NEW h, h \in Seq(Messages), NEW i, NEW p, NEW a, NEW t,
         i \in Nat, Len(rs[i].calls) \in Nat, Partial(rs, h, i, p, a, t), NEW k, k \in p + 1..Len(h)
  PROVE  h[k].role = "tool" /\ k \in p + 1..p + Len(h[p].calls)
<1>1. PICK c, m : c = Len(rs[i].calls) /\ m = k - p
  OBVIOUS
<1>2. /\ p \in 1..Len(h) /\ h[p].calls = CallsMade(i, c) /\ c \in Nat
      /\ a \in 0..c /\ t \in 0..a /\ Len(h) = p + ((c - a) + t)
      /\ \A j \in 1..(c - a) + t : h[p + j].role = "tool"
  BY <1>1 DEF Partial
<1>3. m \in 1..(c - a) + t /\ p + m = k /\ m <= c
  <2>1. PICK l : l = Len(h)
    OBVIOUS
  <2>2. l \in Nat /\ p \in 1..l /\ l = p + ((c - a) + t) /\ k \in p + 1..l
    BY <1>2, <2>1
  <2>3. c \in Nat /\ a \in 0..c /\ t \in 0..a /\ m = k - p
    BY <1>1, <1>2
  <2> QED BY ONLY <2>2, <2>3
<1>4. h[p + m].role = "tool"
  BY <1>2, <1>3
<1>5. Len(h[p].calls) = c
  BY <1>2 DEF CallsMade
<1> QED BY <1>2, <1>3, <1>4, <1>5

\* When all that were run have theirs, the reply is answered.
LEMMA PartialCloses ==
  ASSUME NEW rs, NEW h, h \in Seq(Messages), NEW i, NEW p, NEW a,
         i \in Nat, Len(rs[i].calls) \in Nat, Partial(rs, h, i, p, a, a)
  PROVE  Complete(h)
<1>1. PICK c : c = Len(rs[i].calls)
  OBVIOUS
<1>2. /\ p \in 1..Len(h) /\ h[p].calls = CallsMade(i, c) /\ c \in Nat /\ p \in Nat
      /\ a \in 0..c /\ Len(h) = p + c
      /\ \A k \in 1..c :
           h[p + k].role = "tool" /\ h[p + k].id = <<i, IF k <= c - a THEN a + k ELSE k - (c - a)>>
  <2>1. /\ p \in 1..Len(h) /\ h[p].calls = CallsMade(i, c) /\ c \in Nat
        /\ a \in 0..c /\ Len(h) = p + ((c - a) + a)
        /\ \A k \in 1..(c - a) + a :
             h[p + k].role = "tool" /\ h[p + k].id = <<i, IF k <= c - a THEN a + k ELSE k - (c - a)>>
    BY <1>1 DEF Partial
  <2>2. (c - a) + a = c
    BY <2>1
  <2>3. Len(h) = p + c /\ p \in Nat /\ \A k \in 1..c : k \in 1..(c - a) + a
    BY <2>1, <2>2
  <2> QED BY <2>1, <2>3
<1>3. Len(h[p].calls) = c /\ ToSet(h[p].calls) = {<<i, k>> : k \in 1..c}
  BY <1>2 DEF CallsMade, ToSet
<1>4. PICK e : e = p + 1..p + c
  OBVIOUS
<1>5. e \subseteq DOMAIN h /\ \A k \in e : k - p \in 1..c /\ p + (k - p) = k
  BY <1>2, <1>4
<1>6. \A k \in e : h[k].role = "tool"
  BY <1>2, <1>5
<1>7. {h[k].id : k \in e} = {<<i, k>> : k \in 1..c}
  <2>1. ASSUME NEW k \in e PROVE \E j \in 1..c : h[k].id = <<i, j>>
    <3>1. PICK m : m = k - p
      OBVIOUS
    <3>2. m \in 1..c /\ p + m = k
      BY <1>5, <3>1
    <3>3. PICK j : j = IF m <= c - a THEN a + m ELSE m - (c - a)
      OBVIOUS
    <3>4. h[k].id = <<i, j>>
      BY <1>2, <3>2, <3>3
    <3>5. j \in 1..c
      BY <1>2, <3>2, <3>3
    <3> QED BY <3>4, <3>5
  <2>2. ASSUME NEW j \in 1..c PROVE \E k \in e : h[k].id = <<i, j>>
    <3>1. PICK m : m = IF j > a THEN j - a ELSE j + (c - a)
      OBVIOUS
    <3>2. m \in 1..c /\ (IF m <= c - a THEN a + m ELSE m - (c - a)) = j
      BY <1>2, <3>1
    <3>3. h[p + m].id = <<i, IF m <= c - a THEN a + m ELSE m - (c - a)>>
      BY <1>2, <3>2
    <3>4. p + m \in e
      BY <1>2, <1>4, <3>2
    <3>5. h[p + m].id = <<i, j>>
      BY <3>2, <3>3
    <3> QED BY <3>4, <3>5
  <2> QED BY <2>1, <2>2
<1>8. Answered(h, p)
  BY <1>3, <1>4, <1>5, <1>6, <1>7 DEF Answered
<1>9. \A q \in 1..Len(h) : q # p => Answered(h, q)
  BY DEF Partial
<1> QED BY <1>8, <1>9 DEF Complete

\* A sequence, one more element and another sequence.
Joined(g, h, x, f, p, d) ==
  /\ Len(h) \in Nat /\ p = Len(h) + 1 /\ p \in Nat /\ Len(f) = d /\ d \in Nat /\ Len(g) = p + d
  /\ g[p] = x /\ p \in 1..Len(g)
  /\ \A k \in 1..Len(h) : g[k] = h[k] /\ k \in 1..Len(g) /\ k # p
  /\ \A k \in 1..d : g[p + k] = f[k] /\ p + k \in 1..Len(g)
  /\ \A q \in 1..Len(g) : q \in 1..Len(h) \/ q = p \/ \E k \in 1..d : q = p + k
  /\ g = h \o (<<x>> \o f)

\* Where the elements of the three are.
LEMMA JoinIs ==
  ASSUME NEW X, NEW h, h \in Seq(X), NEW x, x \in X, NEW f, f \in Seq(X)
  PROVE  /\ Append(h, x) \o f \in Seq(X) /\ <<x>> \o f \in Seq(X)
         /\ Joined(Append(h, x) \o f, h, x, f, Len(h) + 1, Len(f))
<1>1. PICK n, p, d : n = Len(h) /\ p = n + 1 /\ d = Len(f)
  OBVIOUS
<1>2. n \in Nat /\ p \in Nat /\ d \in Nat
  BY <1>1
<1>3. PICK b, g : b = Append(h, x) /\ g = b \o f
  OBVIOUS
<1>4. b \in Seq(X) /\ Len(b) = p /\ b[p] = x /\ \A k \in 1..n : b[k] = h[k]
  BY <1>1, <1>3
<1>5. g \in Seq(X) /\ Len(g) = p + d
  BY <1>1, <1>3, <1>4
<1>6. \A k \in 1..p : g[k] = b[k]
  BY <1>1, <1>3, <1>4
<1>7. \A k \in 1..d : g[p + k] = f[k]
  <2>1. ASSUME NEW k \in 1..d PROVE g[p + k] = f[k]
    <3>1. PICK j : j = p + k
      OBVIOUS
    <3>2. j \in 1..p + d /\ j > p /\ j - p = k
      BY <1>2, <3>1
    <3>3. g[j] = f[j - p]
      BY <1>1, <1>3, <1>4, <1>5, <3>2
    <3> QED BY <3>1, <3>2, <3>3
  <2> QED BY <2>1
<1>8. /\ \A k \in 1..n : k \in 1..p /\ k # p
      /\ \A k \in 1..p : k \in 1..p + d
      /\ \A k \in 1..d : p + k \in 1..p + d
      /\ p \in 1..p
  BY <1>1, <1>2
<1>9. ASSUME NEW q \in 1..p + d PROVE q \in 1..n \/ q = p \/ \E k \in 1..d : q = p + k
  <2>1. CASE q > p
    <3>1. q - p \in 1..d /\ q = p + (q - p)
      BY <1>2, <2>1
    <3> QED BY <3>1
  <2>2. CASE ~(q > p)
    BY <1>1, <1>2, <2>2
  <2> QED BY <2>1, <2>2
<1>10. PICK s, e : s = <<x>> \o f /\ e = h \o s
  OBVIOUS
<1>11. s \in Seq(X) /\ Len(s) = 1 + d /\ s[1] = x
  <2>1. <<x>> \in Seq(X) /\ Len(<<x>>) = 1 /\ <<x>>[1] = x
    OBVIOUS
  <2> QED BY <1>1, <1>10, <2>1
<1>12. ASSUME NEW k \in 1..d PROVE s[1 + k] = f[k]
  <2>1. <<x>> \in Seq(X) /\ Len(<<x>>) = 1
    OBVIOUS
  <2>2. PICK j : j = 1 + k
    OBVIOUS
  <2>3. j \in 1..1 + d /\ j > 1 /\ j - 1 = k
    BY <1>2, <2>2
  <2>4. s[j] = f[j - 1]
    BY <1>1, <1>10, <2>1, <2>3
  <2> QED BY <2>2, <2>3, <2>4
<1>13. e \in Seq(X) /\ Len(e) = p + d
  <2>1. e \in Seq(X) /\ Len(e) = n + (1 + d)
    BY <1>1, <1>10, <1>11
  <2>2. n + (1 + d) = p + d
    BY <1>1, <1>2
  <2> QED BY <2>1, <2>2
<1>14. ASSUME NEW q \in 1..p + d PROVE e[q] = g[q]
  <2>1. CASE q \in 1..n
    <3>1. e[q] = h[q]
      BY <1>1, <1>10, <1>11, <2>1
    <3> QED BY <1>4, <1>6, <1>8, <2>1, <3>1
  <2>2. CASE q = p
    <3>1. q \in 1..n + (1 + d) /\ q > n /\ q - n = 1
      BY <1>1, <1>2, <2>2
    <3>2. e[q] = s[q - n]
      BY <1>1, <1>10, <1>11, <3>1
    <3>3. g[q] = x
      BY <1>4, <1>6, <1>8, <2>2
    <3> QED BY <1>11, <3>1, <3>2, <3>3
  <2>3. ASSUME NEW k \in 1..d, q = p + k PROVE e[q] = g[q]
    <3>1. q \in 1..n + (1 + d) /\ q > n /\ q - n = 1 + k
      BY <1>1, <1>2, <2>3
    <3>2. e[q] = s[q - n]
      BY <1>1, <1>10, <1>11, <3>1
    <3> QED BY <1>7, <1>12, <2>3, <3>1, <3>2
  <2> QED BY <1>9, <2>1, <2>2, <2>3
<1>15. e = g
  BY <1>5, <1>13, <1>14, SameSequence
<1>16. Joined(g, h, x, f, p, d)
  <2>1. \A k \in 1..n : g[k] = h[k] /\ k \in 1..Len(g) /\ k # p
    BY <1>4, <1>5, <1>6, <1>8
  <2>2. g[p] = x /\ p \in 1..Len(g)
    BY <1>4, <1>5, <1>6, <1>8
  <2> QED BY <1>1, <1>2, <1>5, <1>7, <1>8, <1>9, <1>10, <1>15, <2>1, <2>2 DEF Joined
<1> QED BY <1>1, <1>3, <1>5, <1>10, <1>11, <1>16

\* The results that say that calls were not run.
Unrun(f, i, c, a) ==
  /\ f \in Seq(Messages) /\ Len(f) = c - a
  /\ \A k \in 1..c - a : f[k].role = "tool" /\ f[k].calls = <<>> /\ f[k].id = <<i, a + k>>

\* The calls reported as not run are those behind the ones with a result.
LEMMA NotRunIs ==
  ASSUME Ordered(records), NEW i, i \in 1..Len(records), records[i].role = "assistant",
         NEW a, a \in 0..Len(records[i].calls), Given(records, i, Len(records)) = 1..a
  PROVE  Unrun(NotRun(records[i].calls), i, Len(records[i].calls), a)
<1>1. PICK c, answered : /\ c = Len(records[i].calls)
                         /\ answered = {records[k].id : k \in {j \in DOMAIN records : records[j].role = "tool"}}
  OBVIOUS
<1>2. PICK S, m : S = ToSet(records[i].calls) \ answered /\ m = Picked(records[i].calls, S)
  OBVIOUS
<1>3. NotRun(records[i].calls) = [k \in DOMAIN m |-> Record("tool", <<>>, m[k])]
  BY <1>1, <1>2 DEF NotRun
<1>4. /\ records[i].calls = CallsMade(i, c) /\ c \in Nat /\ i \in Nat
      /\ DOMAIN records = 1..Len(records)
  <2>1. records \in Seq(Messages) /\ records[i] \in Messages /\ Sound(records, i)
    BY DEF Ordered
  <2>2. records[i].calls \in Seq(Nat \X Nat)
    BY <2>1 DEF Messages, MessagesOf
  <2> QED BY <1>1, <2>1, <2>2 DEF Sound
<1>5. ASSUME NEW k \in 1..c PROVE <<i, k>> \in S <=> k > a
  <2>1. <<i, k>> \in ToSet(records[i].calls)
    BY <1>4 DEF CallsMade, ToSet
  <2>2. <<i, k>> \in answered <=> k \in Given(records, i, Len(records))
    BY <1>1, <1>4 DEF Given
  <2>3. k \in Given(records, i, Len(records)) <=> ~(k > a)
    BY <1>1, <1>4
  <2> QED BY <1>2, <2>1, <2>2, <2>3
<1>6. m = [k \in 1..c - a |-> <<i, a + k>>]
  <2>1. Behind(S, i, c, a)
    BY <1>1, <1>4, <1>5 DEF Behind
  <2>2. Picked(CallsMade(i, c), S) = [k \in 1..c - a |-> <<i, a + k>>]
    BY <2>1, LastCalls
  <2> QED BY <1>2, <1>4, <2>2
<1>7. c - a \in Nat /\ DOMAIN m = 1..c - a /\ \A k \in 1..c - a : m[k] = <<i, a + k>> /\ m[k] \in Nat \X Nat
  <2>1. c \in Nat /\ a \in 0..c /\ a \in Nat
    BY <1>1, <1>4
  <2>2. c - a \in Nat
    BY <2>1
  <2>3. ASSUME NEW k \in 1..c - a PROVE m[k] = <<i, a + k>> /\ m[k] \in Nat \X Nat
    <3>1. k \in Nat /\ a + k \in Nat
      BY <2>1
    <3>2. m[k] = <<i, a + k>>
      BY <1>6
    <3> QED BY <1>4, <3>1, <3>2
  <2> QED BY <1>6, <2>2, <2>3
<1>8. ASSUME NEW y \in Nat \X Nat
      PROVE  LET x == Record("tool", <<>>, y)
             IN  x \in Messages /\ x.role = "tool" /\ x.calls = <<>> /\ x.id = y
  <2>1. <<>> \in Seq(Nat \X Nat) /\ "tool" \in Roles
    BY DEF Roles
  <2> QED BY <2>1 DEF Record, Messages, MessagesOf
<1>9. PICK f : f = [k \in 1..c - a |-> Record("tool", <<>>, m[k])]
  OBVIOUS
<1>10. f \in Seq(Messages) /\ Len(f) = c - a
  <2>0. PICK d : d = c - a
    OBVIOUS
  <2>1. \A k \in 1..d : Record("tool", <<>>, m[k]) \in Messages
    BY <1>7, <1>8, <2>0
  <2>2. d \in Nat /\ f = [k \in 1..d |-> Record("tool", <<>>, m[k])]
    BY <1>7, <1>9, <2>0
  <2>3. f \in Seq(Messages) /\ Len(f) = d
    <3>1. f \in [1..d -> Messages]
      BY ONLY <2>1, <2>2
    <3> QED BY ONLY <2>2, <3>1
  <2> QED BY <2>0, <2>3
<1>11. ASSUME NEW k \in 1..c - a
       PROVE  f[k].role = "tool" /\ f[k].calls = <<>> /\ f[k].id = <<i, a + k>>
  <2>1. f[k] = Record("tool", <<>>, m[k]) /\ m[k] = <<i, a + k>> /\ m[k] \in Nat \X Nat
    BY <1>7, <1>9
  <2> QED BY <1>8, <2>1
<1>12. Unrun(f, i, c, a)
  BY <1>10, <1>11 DEF Unrun
<1>13. NotRun(records[i].calls) = f
  BY <1>3, <1>7, <1>9
<1> QED BY <1>1, <1>12, <1>13

\* A reply is told with the results of the calls that were not run.
LEMMA ReplyIsTold ==
  ASSUME NEW rs, NEW h, h \in Seq(Messages), Complete(h), Blocks(h),
         NEW i, i \in Nat, NEW x, x \in Messages, x.role = "assistant",
         NEW c, c \in Nat, c = Len(rs[i].calls), x.calls = CallsMade(i, c), NEW a, a \in 0..c,
         NEW f, Unrun(f, i, c, a), NEW g, g = Append(h, x) \o f
  PROVE  g \in Seq(Messages) /\ Partial(rs, g, i, Len(h) + 1, a, 0) /\ Blocks(g)
<1>1. PICK p, d : p = Len(h) + 1 /\ d = c - a
  OBVIOUS
<1>2. /\ f \in Seq(Messages) /\ Len(f) = d /\ d \in Nat
      /\ \A k \in 1..d : f[k].role = "tool" /\ f[k].calls = <<>> /\ f[k].id = <<i, a + k>>
  BY <1>1 DEF Unrun
<1>3. g \in Seq(Messages) /\ <<x>> \o f \in Seq(Messages) /\ Joined(g, h, x, f, p, d)
  BY <1>1, <1>2, JoinIs
<1>4. /\ p \in Nat /\ p = Len(h) + 1 /\ Len(g) = p + d /\ g[p] = x /\ p \in 1..Len(g)
      /\ \A k \in 1..Len(h) : g[k] = h[k] /\ k \in 1..Len(g) /\ k # p
      /\ \A k \in 1..d : g[p + k] = f[k] /\ p + k \in 1..Len(g)
      /\ \A q \in 1..Len(g) : q \in 1..Len(h) \/ q = p \/ \E k \in 1..d : q = p + k
      /\ g = h \o (<<x>> \o f)
  BY <1>3 DEF Joined
<1>5. ASSUME NEW q \in 1..Len(g), q # p PROVE Answered(g, q)
  <2>1. CASE q \in 1..Len(h)
    <3>1. Answered(h, q)
      BY <2>1 DEF Complete
    <3> QED BY <1>3, <1>4, <2>1, <3>1, StaysAnswered
  <2>2. CASE q \notin 1..Len(h)
    <3>1. PICK m \in 1..d : q = p + m
      BY <1>4, <1>5, <2>2
    <3>2. g[q].calls = <<>>
      BY <1>2, <1>4, <3>1
    <3> QED BY <1>3, <3>2, NothingCalled
  <2> QED BY <2>1, <2>2
<1>6. Partial(rs, g, i, p, a, 0)
  <2>1. ASSUME NEW k \in 1..d + 0
        PROVE  g[p + k].role = "tool" /\ g[p + k].id = <<i, IF k <= d THEN a + k ELSE k - d>>
    <3>1. k \in 1..d /\ k <= d
      BY <1>2
    <3>2. g[p + k] = f[k] /\ f[k].role = "tool" /\ f[k].id = <<i, a + k>>
      BY <1>2, <1>4, <3>1
    <3> QED BY <3>1, <3>2
  <2>2. 0 \in 0..a /\ d + 0 = d
    BY <1>2
  <2>3. Len(g) = p + (d + 0) /\ p \in 1..Len(g) /\ g[p].calls = CallsMade(i, c)
    BY <1>4, <2>2
  <2> QED BY <1>1, <1>5, <2>1, <2>2, <2>3 DEF Partial
<1>7. Blocks(g)
  <2>1. ASSUME NEW k \in 1..Len(g), g[k].role = "tool"
        PROVE  \E q \in 1..Len(g) : k \in q + 1..q + Len(g[q].calls)
    <3>1. CASE k \in 1..Len(h)
      <4>1. PICK q \in 1..Len(h) : k \in q + 1..q + Len(h[q].calls)
        BY <1>4, <2>1, <3>1 DEF Blocks
      <4> QED BY <1>4, <4>1
    <3>2. CASE k \notin 1..Len(h)
      <4>1. k # p
        BY <1>4, <2>1
      <4>2. PICK m \in 1..d : k = p + m
        BY <1>4, <3>2, <4>1
      <4>3. k \in p + 1..Len(g)
        BY <1>2, <1>4, <4>2
      <4>4. k \in p + 1..p + Len(g[p].calls)
        <5>1. c \in Nat /\ Len(rs[i].calls) \in Nat
          OBVIOUS
        <5> QED BY <1>3, <1>6, <4>3, <5>1, PartialBlocks
      <4> QED BY <1>4, <4>4
    <3> QED BY <3>1, <3>2
  <2> QED BY <2>1 DEF Blocks
<1> QED BY <1>1, <1>3, <1>6, <1>7

\* So is the next result of a reply.
LEMMA ResultIsTold ==
  ASSUME NEW rs, NEW h, h \in Seq(Messages), Blocks(h),
         NEW i, i \in Nat, Len(rs[i].calls) \in Nat, NEW p, NEW a, NEW t, Partial(rs, h, i, p, a, t), t < a,
         NEW x, x \in Messages, x.role = "tool", x.calls = <<>>, x.id = <<i, t + 1>>,
         NEW g, g = Append(h, x)
  PROVE  g \in Seq(Messages) /\ Partial(rs, g, i, p, a, t + 1) /\ Blocks(g)
<1>1. PICK c, d, n : c = Len(rs[i].calls) /\ d = c - a /\ n = Len(h)
  OBVIOUS
<1>2. /\ p \in 1..n /\ h[p].calls = CallsMade(i, c) /\ n = p + (d + t)
      /\ a \in 0..c /\ t \in 0..a /\ d \in Nat /\ c \in Nat /\ t \in Nat /\ p \in Nat /\ n \in Nat
      /\ \A k \in 1..d + t :
           h[p + k].role = "tool" /\ h[p + k].id = <<i, IF k <= d THEN a + k ELSE k - d>>
      /\ \A q \in 1..n : q # p => Answered(h, q)
  <2>1. Len(h) \in Nat /\ c \in Nat
    BY <1>1
  <2>2. /\ p \in 1..n /\ h[p].calls = CallsMade(i, c) /\ n = p + (d + t) /\ a \in 0..c /\ t \in 0..a
        /\ \A k \in 1..d + t :
             h[p + k].role = "tool" /\ h[p + k].id = <<i, IF k <= d THEN a + k ELSE k - d>>
        /\ \A q \in 1..n : q # p => Answered(h, q)
    BY <1>1 DEF Partial
  <2>3. d \in Nat /\ t \in Nat /\ p \in Nat /\ n \in Nat
    <3>1. n \in Nat /\ c \in Nat /\ a \in 0..c /\ t \in 0..a /\ p \in 1..n /\ d = c - a
      BY <1>1, <2>1, <2>2
    <3> QED BY ONLY <3>1
  <2> QED BY <2>1, <2>2, <2>3
<1>3. /\ g \in Seq(Messages) /\ Len(g) = n + 1 /\ g[n + 1] = x
      /\ \A k \in 1..n : g[k] = h[k] /\ k \in 1..Len(g)
  BY <1>1
<1>4. ASSUME NEW q \in 1..Len(g), q # p PROVE Answered(g, q)
  <2>1. CASE q \in 1..n
    <3>1. Answered(h, q)
      BY <1>2, <1>4, <2>1
    <3>2. g = h \o <<x>> /\ <<x>> \in Seq(Messages)
      OBVIOUS
    <3> QED BY <1>1, <2>1, <3>1, <3>2, StaysAnswered
  <2>2. CASE q \notin 1..n
    <3>1. q = n + 1
      BY <1>2, <1>3, <2>2
    <3> QED BY <1>3, <3>1, NothingCalled
  <2> QED BY <2>1, <2>2
<1>5. ASSUME NEW k \in 1..d + (t + 1)
      PROVE  g[p + k].role = "tool" /\ g[p + k].id = <<i, IF k <= d THEN a + k ELSE k - d>>
  <2>1. CASE k \in 1..d + t
    <3>1. g[p + k] = h[p + k]
      BY <1>2, <1>3, <2>1
    <3> QED BY <1>2, <2>1, <3>1
  <2>2. CASE k \notin 1..d + t
    <3>1. k = d + (t + 1) /\ ~(k <= d) /\ k - d = t + 1 /\ p + k = n + 1
      BY <1>2, <2>2
    <3> QED BY <1>3, <3>1
  <2> QED BY <2>1, <2>2
<1>6. Partial(rs, g, i, p, a, t + 1)
  <2>1. t + 1 \in 0..a /\ n + 1 = p + (d + (t + 1))
    <3>1. /\ n \in Nat /\ t \in Nat /\ d \in Nat /\ p \in Nat /\ a \in Nat /\ t < a
          /\ n = p + (d + t)
      BY <1>2
    <3> QED BY ONLY <3>1
  <2>2. Len(g) = p + (d + (t + 1)) /\ p \in 1..Len(g) /\ g[p].calls = CallsMade(i, c)
    BY <1>2, <1>3, <2>1
  <2> QED BY <1>1, <1>2, <1>4, <1>5, <2>1, <2>2 DEF Partial
<1>7. Blocks(g)
  <2>1. ASSUME NEW k \in 1..Len(g), g[k].role = "tool"
        PROVE  \E q \in 1..Len(g) : k \in q + 1..q + Len(g[q].calls)
    <3>1. CASE k \in 1..n
      <4>1. PICK q \in 1..Len(h) : k \in q + 1..q + Len(h[q].calls)
        BY <1>1, <1>3, <2>1, <3>1 DEF Blocks
      <4> QED BY <1>1, <1>3, <4>1
    <3>2. CASE k \notin 1..n
      <4>1. k \in p + 1..Len(g)
        BY <1>2, <1>3, <3>2
      <4>2. k \in p + 1..p + Len(g[p].calls)
        BY <1>3, <1>6, <4>1, PartialBlocks
      <4>3. p \in 1..Len(g)
        BY <1>2, <1>3
      <4> QED BY <4>2, <4>3
    <3> QED BY <3>1, <3>2
  <2> QED BY <2>1 DEF Blocks
<1> QED BY <1>3, <1>6, <1>7

----------------------------------------------------------------------------
(* Reading one more record                                                 *)

\* At most one reply awaits results.
LEMMA OneAwaits ==
  ASSUME NEW rs, NEW n, n \in Nat, NEW i, NEW j, AwaitsAt(rs, i, n), AwaitsAt(rs, j, n)
  PROVE  i = j
<1>1. i \in 1..n /\ j \in 1..n /\ rs[i].role = "assistant" /\ rs[j].role = "assistant"
  BY DEF AwaitsAt
<1>2. (j \in i + 1..n => rs[j].role # "assistant") /\ (i \in j + 1..n => rs[i].role # "assistant")
  BY DEF AwaitsAt
<1>3. i = j \/ j \in i + 1..n \/ i \in j + 1..n
  BY <1>1
<1> QED BY <1>1, <1>2, <1>3

\* A reply that awaits results awaited them before, unless it has just come;
\* results and notes do not end the waiting, and nothing else leaves it open.
LEMMA AwaitsNext ==
  ASSUME NEW rs, NEW n, n \in Nat, NEW m, m = n + 1, NEW i
  PROVE  AwaitsAt(rs, i, m) <=> \/ i = m /\ rs[m].role = "assistant"
                                \/ AwaitsAt(rs, i, n) /\ rs[m].role \in {"tool", "notification"}
<1>1. m \in Nat /\ m \in 1..m /\ m \notin 1..n
      /\ \A k : k \in 1..m <=> k \in 1..n \/ k = m
  OBVIOUS
<1>2. CASE i = m
  <2>1. \A k : k \notin i + 1..m
    BY <1>1, <1>2
  <2>2. ~AwaitsAt(rs, i, n)
    BY <1>1, <1>2 DEF AwaitsAt
  <2> QED BY <1>1, <1>2, <2>1, <2>2 DEF AwaitsAt
<1>3. CASE i \in 1..n
  <2>1. \A k : k \in i + 1..m <=> k \in i + 1..n \/ k = m
    BY <1>3
  <2>2. i # m
    BY <1>3
  <2> QED BY <1>1, <1>3, <2>1, <2>2 DEF AwaitsAt
<1>4. CASE i \notin 1..m
  <2>1. i # m /\ i \notin 1..n
    BY <1>1, <1>4
  <2> QED BY <1>4, <2>1 DEF AwaitsAt
<1> QED BY <1>1, <1>2, <1>3, <1>4

\* Calls do not lose their results.
LEMMA GivenGrows ==
  ASSUME NEW rs, NEW i, NEW n, NEW m, n \in Nat, m \in Nat, n <= m
  PROVE  Given(rs, i, n) \subseteq Given(rs, i, m)
<1>1. \A j : j \in 1..n => j \in 1..m
  OBVIOUS
<1> QED BY <1>1 DEF Given

\* The calls that have a result after one more record.
GivenAfter(i, n, m) ==
  \A k : k \in Given(records, i, m) <=>
         \/ k \in Given(records, i, n)
         \/ k \in 1..Len(records[i].calls) /\ records[m].role = "tool" /\ records[m].id = <<i, k>>

\* A call has a result if it had one or the new record is one.
LEMMA OneMoreGiven ==
  ASSUME NEW n, n \in Nat, NEW m, m = n + 1, NEW i
  PROVE  GivenAfter(i, n, m)
<1>1. \A k : k \in Given(records, i, n + 1) <=>
             \/ k \in Given(records, i, n)
             \/ /\ k \in 1..Len(records[i].calls)
                /\ records[n + 1].role = "tool" /\ records[n + 1].id = <<i, k>>
  BY GivenNext
<1> QED BY <1>1 DEF GivenAfter

\* What is told of the first n records is answered, but for the calls of the
\* reply that awaits their results.
Open(h, n, i, p, a, t) ==
  /\ AwaitsAt(records, i, n) /\ Given(records, i, n) = 1..t
  /\ Given(records, i, Len(records)) = 1..a
  /\ Partial(records, h, i, p, a, t)
Told(h, n) ==
  /\ h \in Seq(Messages) /\ Blocks(h)
  /\ \/ Complete(h) /\ \A i : ~AwaitsAt(records, i, n)
     \/ \E i, p, a, t : Open(h, n, i, p, a, t)

\* The numbers of an open reply.
LEMMA OpenTyped ==
  ASSUME Ordered(records), NEW h, NEW n, n \in 0..Len(records),
         NEW i, NEW p, NEW a, NEW t, Open(h, n, i, p, a, t)
  PROVE  /\ i \in 1..Len(records) /\ i \in Nat /\ n \in 1..Len(records) /\ n \in Nat
         /\ Len(records[i].calls) \in Nat /\ a \in Nat /\ t \in Nat /\ t <= a
<1>1. records \in Seq(Messages) /\ Len(records) \in Nat
  BY DEF Ordered
<1>2. i \in 1..n
  BY DEF Open, AwaitsAt
<1>3. i \in 1..Len(records) /\ i \in Nat /\ n \in 1..Len(records) /\ n \in Nat
  BY <1>1, <1>2
<1>4. Len(records[i].calls) \in Nat
  <2>1. records[i] \in Messages
    BY <1>1, <1>3
  <2>2. records[i].calls \in Seq(Nat \X Nat)
    BY <2>1 DEF Messages, MessagesOf
  <2> QED BY <2>2
<1>5. a \in 0..Len(records[i].calls) /\ t \in 0..a
  BY DEF Open, Partial
<1> QED BY <1>3, <1>4, <1>5

\* When no reply awaits results any more, what is told is complete.
LEMMA ToldCloses ==
  ASSUME Ordered(records), NEW n, n \in 0..Len(records), NEW h, Told(h, n),
         n = Len(records) \/ \A i : ~AwaitsAt(records, i, n + 1)
  PROVE  Complete(h)
<1>1. CASE Complete(h)
  BY <1>1
<1>2. ASSUME NEW i, NEW p, NEW a, NEW t, Open(h, n, i, p, a, t) PROVE Complete(h)
  <2>1. /\ i \in Nat /\ n \in 1..Len(records) /\ Len(records[i].calls) \in Nat
        /\ a \in Nat /\ t \in Nat
    BY <1>2, OpenTyped
  <2>2. /\ AwaitsAt(records, i, n) /\ Given(records, i, n) = 1..t
        /\ Given(records, i, Len(records)) = 1..a /\ Partial(records, h, i, p, a, t)
    BY <1>2 DEF Open
  <2>3. Given(records, i, n) = Given(records, i, Len(records))
    BY <2>1, <2>2, NoMoreGiven
  <2>4. t = a
    BY <2>1, <2>2, <2>3, SameBound
  <2> QED BY <2>1, <2>2, <2>4, PartialCloses DEF Told
<1> QED BY <1>1, <1>2 DEF Told

\* A reader who is told nothing that waits for an answer.
LEMMA NotedAndTold ==
  ASSUME NEW h, NEW n, h \in Seq(Messages), Blocks(h), Complete(h), \A i : ~AwaitsAt(records, i, n)
  PROVE  Told(h, n)
BY DEF Told

Notes(s) ==
  s \in Seq(Messages) /\ \A k \in 1..Len(s) : s[k].role = "notification" /\ s[k].calls = <<>>

\* What is said of the record read.
LEMMA RecordIs ==
  ASSUME Ordered(records), NEW n, n \in 0..Len(records), n < Len(records), NEW m, m = n + 1
  PROVE  /\ m \in 1..Len(records) /\ m \in Nat /\ n \in Nat /\ m - 1 = n /\ m \in 0..Len(records)
         /\ records[m] \in Messages /\ records[m].role \in Roles
         /\ records[m].role # "assistant" => records[m].calls = <<>>
         /\ Sound(records, m)
<1>1. records \in Seq(Messages) /\ Len(records) \in Nat
  BY DEF Ordered
<1>2. m \in 1..Len(records) /\ m \in Nat /\ n \in Nat /\ m - 1 = n /\ m \in 0..Len(records)
  BY <1>1
<1>3. records[m] \in Messages /\ Sound(records, m)
  BY <1>1, <1>2 DEF Ordered
<1>4. records[m].role \in Roles
  BY <1>3 DEF Messages, MessagesOf
<1> QED BY <1>2, <1>3, <1>4 DEF Sound

\* A notification is not told at once.
LEMMA NoteLeavesTold ==
  ASSUME Ordered(records), NEW n, n \in 0..Len(records), n < Len(records), NEW m, m = n + 1,
         NEW h, Told(h, n), records[m].role = "notification"
  PROVE  Told(h, m)
<1>1. n \in Nat /\ m \in Nat
  BY RecordIs
<1>2. \A i : AwaitsAt(records, i, m) <=> AwaitsAt(records, i, n)
  BY <1>1, AwaitsNext
<1>3. CASE Complete(h) /\ \A i : ~AwaitsAt(records, i, n)
  BY <1>2, <1>3 DEF Told
<1>4. ASSUME NEW i, NEW p, NEW a, NEW t, Open(h, n, i, p, a, t) PROVE Told(h, m)
  <2>1. \A k : k \in Given(records, i, n + 1) <=> k \in Given(records, i, n)
    BY <1>1, GivenNext
  <2>2. Given(records, i, m) = Given(records, i, n)
    BY <2>1
  <2>3. Open(h, m, i, p, a, t)
    BY <1>2, <1>4, <2>2 DEF Open
  <2> QED BY <2>3 DEF Told
<1> QED BY <1>3, <1>4 DEF Told

\* A result is told behind those of its reply.
LEMMA ResultKeepsTold ==
  ASSUME Ordered(records), NEW n, n \in 0..Len(records), n < Len(records), NEW m, m = n + 1,
         NEW h, Told(h, n), NEW x, x = records[m], x.role = "tool"
  PROVE  Told(Append(h, x), m)
<1>1. /\ m \in 1..Len(records) /\ m \in Nat /\ n \in Nat /\ m - 1 = n
      /\ x \in Messages /\ x.calls = <<>> /\ Sound(records, m)
  BY RecordIs
<1>2. PICK j, k : j \in Nat /\ k \in Nat /\ IsNext(records, m, j, k)
  BY <1>1 DEF Sound
<1>3. /\ AwaitsAt(records, j, m) /\ k \in 1..Len(records[j].calls) /\ x.id = <<j, k>>
      /\ Given(records, j, n) = 1..k - 1
  BY <1>1, <1>2 DEF IsNext
<1>4. AwaitsAt(records, j, n)
  BY <1>1, <1>3, AwaitsNext
<1>5. PICK i, p, a, t : Open(h, n, i, p, a, t)
  BY <1>4 DEF Told
<1>6. /\ AwaitsAt(records, i, n) /\ Given(records, i, n) = 1..t
      /\ Given(records, i, Len(records)) = 1..a /\ Partial(records, h, i, p, a, t)
  BY <1>5 DEF Open
<1>7. /\ i \in 1..Len(records) /\ i \in Nat /\ Len(records[i].calls) \in Nat
      /\ a \in Nat /\ t \in Nat /\ t <= a
  BY <1>5, OpenTyped
<1>8. i = j
  BY <1>1, <1>4, <1>6, OneAwaits
<1>9. k = t + 1
  <2>1. PICK u : u = k - 1
    OBVIOUS
  <2>2. u \in Nat /\ u + 1 = k
    BY <1>2, <1>3, <2>1
  <2>3. 1..t = 1..u
    BY <1>3, <1>6, <1>8, <2>1
  <2>4. t = u
    BY <1>7, <2>2, <2>3, SameBound
  <2> QED BY <2>2, <2>4
<1>10. ASSUME NEW q PROVE q \in Given(records, i, m) <=> q \in 1..t + 1
  <2>0. GivenAfter(i, n, m)
    BY <1>1, OneMoreGiven
  <2>1. q \in Given(records, i, m) <=>
          \/ q \in Given(records, i, n)
          \/ q \in 1..Len(records[i].calls) /\ x.role = "tool" /\ x.id = <<i, q>>
    BY <2>0 DEF GivenAfter
  <2>2. x.id = <<i, t + 1>> /\ t + 1 \in 1..Len(records[i].calls)
    BY <1>3, <1>8, <1>9
  <2>3. x.id = <<i, q>> <=> q = t + 1
    BY <2>2
  <2>4. q \in 1..t + 1 <=> q \in 1..t \/ q = t + 1
    BY <1>7
  <2> QED BY <1>6, <2>1, <2>2, <2>3, <2>4
<1>11. Given(records, i, m) = 1..t + 1
  BY <1>10
<1>12. t < a
  <2>1. Given(records, i, m) \subseteq Given(records, i, Len(records))
    <3>1. Len(records) \in Nat /\ m <= Len(records)
      BY <1>1 DEF Ordered
    <3> QED BY <1>1, <3>1, GivenGrows
  <2>2. t + 1 \in 1..t + 1
    BY <1>7
  <2>3. t + 1 \in 1..a
    BY <1>6, <1>11, <2>1, <2>2
  <2> QED BY <1>7, <2>3
<1>13. PICK g : g = Append(h, x)
  OBVIOUS
<1>14. g \in Seq(Messages) /\ Partial(records, g, i, p, a, t + 1) /\ Blocks(g)
  <2>1. h \in Seq(Messages) /\ Blocks(h)
    BY DEF Told
  <2>2. x.id = <<i, t + 1>>
    BY <1>3, <1>8, <1>9
  <2> QED BY <1>1, <1>6, <1>7, <1>12, <1>13, <2>1, <2>2, ResultIsTold
<1>15. Open(g, m, i, p, a, t + 1)
  BY <1>3, <1>6, <1>8, <1>11, <1>14 DEF Open
<1> QED BY <1>13, <1>14, <1>15 DEF Told

\* Neither the user's message nor a check leaves a reply open.
LEMMA NothingAwaits ==
  ASSUME Ordered(records), NEW n, n \in 0..Len(records), n < Len(records), NEW m, m = n + 1,
         records[m].role \in {"user", "check", "assistant"}
  PROVE  \A i : AwaitsAt(records, i, m) <=> i = m /\ records[m].role = "assistant"
<1>1. n \in Nat /\ m \in Nat
  BY RecordIs
<1> QED BY <1>1, AwaitsNext

\* A check is told at once.
LEMMA CheckKeepsTold ==
  ASSUME Ordered(records), NEW n, n \in 0..Len(records), n < Len(records), NEW m, m = n + 1,
         NEW h, Told(h, n), NEW x, x = records[m], x.role = "check"
  PROVE  Told(Append(h, x), m)
<1>1. /\ n \in Nat /\ m \in Nat /\ x \in Messages /\ x.calls = <<>>
  BY RecordIs
<1>2. \A i : ~AwaitsAt(records, i, m)
  BY NothingAwaits
<1>3. Complete(h) /\ h \in Seq(Messages) /\ Blocks(h)
  <2>1. \A i : ~AwaitsAt(records, i, n + 1)
    BY <1>2
  <2>2. Complete(h)
    BY <2>1, ToldCloses
  <2> QED BY <2>2 DEF Told
<1>4. PICK s, g : s = <<x>> /\ g = Append(h, x)
  OBVIOUS
<1>5. s \in Seq(Messages) /\ g = h \o s /\ \A k \in 1..Len(s) : s[k].role # "tool" /\ s[k].calls = <<>>
  BY <1>1, <1>3, <1>4
<1>6. Complete(g) /\ Blocks(g) /\ g \in Seq(Messages)
  <2>1. Complete(g) /\ Blocks(g)
    BY <1>3, <1>5, WordsFollow
  <2> QED BY <1>1, <1>3, <1>4, <2>1
<1> QED BY <1>2, <1>4, <1>6, NotedAndTold

\* A message is told after the notes that waited.
WithNotes(h, s, x) == Append(h \o s, x)
\* After a message of the user nothing waits for an answer.
LEMMA MessageKeepsTold ==
  ASSUME Ordered(records), NEW n, n \in 0..Len(records), n < Len(records), NEW m, m = n + 1,
         NEW h, Told(h, n), NEW s, Notes(s), NEW x, x = records[m], x.role = "user"
  PROVE  Told(WithNotes(h, s, x), m)
<1>0. PICK g : g = Append(h \o s, x)
  OBVIOUS
<1>1. /\ n \in Nat /\ m \in Nat /\ x \in Messages /\ x.calls = <<>>
  BY RecordIs
<1>2. \A i : ~AwaitsAt(records, i, m)
  BY NothingAwaits
<1>3. Complete(h) /\ h \in Seq(Messages) /\ Blocks(h)
  <2>1. \A i : ~AwaitsAt(records, i, n + 1)
    BY <1>2
  <2>2. Complete(h)
    BY <2>1, ToldCloses
  <2> QED BY <2>2 DEF Told
<1>4. s \in Seq(Messages) /\ \A k \in 1..Len(s) : s[k].role = "notification" /\ s[k].calls = <<>>
  BY DEF Notes
<1>5. PICK e : e = Append(s, x)
  OBVIOUS
<1>6. e \in Seq(Messages) /\ \A k \in 1..Len(e) : e[k].role # "tool" /\ e[k].calls = <<>>
  BY <1>1, <1>4, <1>5
<1>7. g = h \o e
  <2>1. h \o Append(s, x) = Append(h \o s, x)
    BY <1>1, <1>3, <1>4, AppendLast
  <2> QED BY <1>0, <1>5, <2>1
<1>8. Complete(g) /\ Blocks(g)
  BY <1>3, <1>6, <1>7, WordsFollow
<1>9. g \in Seq(Messages)
  BY <1>3, <1>6, <1>7
<1>10. Told(g, m)
  BY <1>2, <1>8, <1>9, NotedAndTold
<1> QED BY <1>0, <1>10 DEF WithNotes

\* A reply too, and its calls that never got a result have one.
LEMMA ReplyKeepsTold ==
  ASSUME Ordered(records), NEW n, n \in 0..Len(records), n < Len(records), NEW m, m = n + 1,
         NEW h, Told(h, n), NEW s, Notes(s), NEW x, x = records[m], x.role = "assistant"
  PROVE  Told(WithNotes(h, s, x) \o NotRun(x.calls), m) /\ NotRun(x.calls) \in Seq(Messages)
         /\ \A k \in 1..Len(NotRun(x.calls)) : NotRun(x.calls)[k].role = "tool"
<1>0. PICK g : g = Append(h \o s, x) \o NotRun(x.calls)
  OBVIOUS
<1>1. /\ n \in Nat /\ m \in Nat /\ x \in Messages /\ Sound(records, m) /\ m \in 1..Len(records)
      /\ m \in 1..m /\ n < m
  <2>1. /\ n \in Nat /\ m \in Nat /\ x \in Messages /\ Sound(records, m) /\ m \in 1..Len(records)
    BY RecordIs
  <2> QED BY <2>1
<1>2. \A i : AwaitsAt(records, i, m) <=> i = m
  BY NothingAwaits
<1>3. Complete(h) /\ h \in Seq(Messages) /\ Blocks(h)
  <2>1. h \in Seq(Messages) /\ Blocks(h)
    BY DEF Told
  <2>2. SUFFICES Complete(h)
    BY <2>1
  <2>3. ASSUME NEW i, NEW p, NEW a, NEW t, Open(h, n, i, p, a, t) PROVE Complete(h)
    <3>1. /\ i \in Nat /\ n \in 1..Len(records) /\ Len(records[i].calls) \in Nat
          /\ a \in Nat /\ t \in Nat
      BY <2>3, OpenTyped
    <3>2. /\ AwaitsAt(records, i, n) /\ Given(records, i, n) = 1..t
          /\ Given(records, i, Len(records)) = 1..a /\ Partial(records, h, i, p, a, t)
      BY <2>3 DEF Open
    <3>3. i # m
      BY <1>1, <3>2 DEF AwaitsAt
    <3>4. ~AwaitsAt(records, i, n + 1)
      BY <1>2, <3>3
    <3>5. Given(records, i, n) = Given(records, i, Len(records))
      BY <3>1, <3>2, <3>4, NoMoreGiven
    <3>6. t = a
      BY <3>1, <3>2, <3>5, SameBound
    <3> QED BY <3>1, <3>2, <3>6, PartialCloses DEF Told
  <2> QED BY <2>3 DEF Told
<1>4. s \in Seq(Messages) /\ \A k \in 1..Len(s) : s[k].role # "tool" /\ s[k].calls = <<>>
  BY DEF Notes
<1>5. PICK b, f, c : b = h \o s /\ f = NotRun(x.calls) /\ c = Len(x.calls)
  OBVIOUS
<1>6. b \in Seq(Messages) /\ Complete(b) /\ Blocks(b)
  <2>1. Complete(b) /\ Blocks(b)
    BY <1>3, <1>4, <1>5, WordsFollow
  <2> QED BY <1>3, <1>4, <1>5, <2>1
<1>7. x.calls = CallsMade(m, c) /\ c \in Nat /\ c = Len(records[m].calls)
  <2>1. x.calls \in Seq(Nat \X Nat)
    BY <1>1 DEF Messages, MessagesOf
  <2> QED BY <1>1, <1>5, <2>1 DEF Sound
<1>8. Len(records) \in 0..Len(records)
  BY DEF Ordered
<1>9. Counted(records, m, Len(records))
  BY <1>1, <1>8, FirstCallsGiven
<1>10. PICK a : a \in 0..c /\ Given(records, m, Len(records)) = 1..a
  BY <1>7, <1>9 DEF Counted
<1>11. Unrun(f, m, c, a)
  BY <1>1, <1>5, <1>7, <1>10, NotRunIs
<1>12. PICK p : p = Len(b) + 1
  OBVIOUS
<1>13. g \in Seq(Messages) /\ Partial(records, g, m, p, a, 0) /\ Blocks(g)
  <2>1. g = Append(b, x) \o f
    BY <1>0, <1>5
  <2> QED BY <1>1, <1>6, <1>7, <1>10, <1>11, <1>12, <2>1, ReplyIsTold
<1>14. Given(records, m, m) = 1..0
  <2>1. Given(records, m, n) = {}
    BY <1>1, NoneGiven
  <2>2. GivenAfter(m, n, m)
    BY <1>1, OneMoreGiven
  <2>3. \A l : l \notin Given(records, m, m)
    BY <2>1, <2>2 DEF GivenAfter
  <2> QED BY <2>3
<1>15. Open(g, m, m, p, a, 0)
  BY <1>2, <1>10, <1>13, <1>14 DEF Open
<1>16. Told(g, m)
  BY <1>13, <1>15 DEF Told
<1>17. f \in Seq(Messages) /\ \A k \in 1..Len(f) : f[k].role = "tool"
  <2>1. Len(f) = c - a
    BY <1>11 DEF Unrun
  <2> QED BY <1>11, <2>1 DEF Unrun
<1> QED BY <1>0, <1>5, <1>16, <1>17 DEF WithNotes

----------------------------------------------------------------------------
(* What is kept                                                            *)

Notifications == MessagesOf({"notification"})
Words == MessagesOf({"user", "assistant", "check"})

\* The notes that wait complete what is told of the first n records.
Kept(told, notes, n) ==
  /\ Picked(told, Notifications) \o notes = Picked(FirstOf(records, n), Notifications)
  /\ Picked(told, Words) = Picked(FirstOf(records, n), Words)

\* What is picked of messages of no role that counts.
LEMMA ByRole ==
  ASSUME NEW x, x \in Messages
  PROVE  /\ x \in Notifications <=> x.role = "notification"
         /\ x \in Words <=> x.role \in {"user", "assistant", "check"}
BY DEF Messages, MessagesOf, Notifications, Words

\* Notes are all of the notifications among them, and no words.
LEMMA NotesPicked ==
  ASSUME NEW s, Notes(s)
  PROVE  Picked(s, Notifications) = s /\ Picked(s, Words) = <<>>
<1>1. s \in Seq(Messages) /\ \A k \in 1..Len(s) : s[k].role = "notification" /\ s[k] \in Messages
  BY DEF Notes
<1>2. (\A k \in 1..Len(s) : s[k] \in Notifications) /\ (\A k \in 1..Len(s) : s[k] \notin Words)
  BY <1>1, ByRole
<1> QED BY <1>1, <1>2, PickedAllOrNone

\* Nothing is picked of results.
LEMMA ResultsPicked ==
  ASSUME NEW f, f \in Seq(Messages), \A k \in 1..Len(f) : f[k].role = "tool"
  PROVE  Picked(f, Notifications) = <<>> /\ Picked(f, Words) = <<>>
<1>1. \A k \in 1..Len(f) : f[k] \in Messages
  OBVIOUS
<1>2. (\A k \in 1..Len(f) : f[k] \notin Notifications) /\ (\A k \in 1..Len(f) : f[k] \notin Words)
  BY <1>1, ByRole
<1> QED BY <1>2, PickedAllOrNone

\* What is picked of messages and one more, and of two sequences of messages.
PicksOn(e, x, g, S) ==
  Picked(g, S) = IF x \in S THEN Append(Picked(e, S), x) ELSE Picked(e, S)
PicksRow(e, f, S) == Picked(e \o f, S) = Picked(e, S) \o Picked(f, S)

\* Picking from messages follows how they are put together.
LEMMA MessagesPicked ==
  ASSUME NEW e, e \in Seq(Messages), NEW x, x \in Messages, NEW f, f \in Seq(Messages), NEW S
  PROVE  PicksOn(e, x, Append(e, x), S) /\ PicksRow(e, f, S)
<1>1. Picked(Append(e, x), S) = IF x \in S THEN Append(Picked(e, S), x) ELSE Picked(e, S)
  BY ONLY e \in Seq(Messages), x \in Messages, PickedNext, Zenon
<1>2. Picked(e \o f, S) = Picked(e, S) \o Picked(f, S)
  BY PickedBoth
<1> QED BY <1>1, <1>2 DEF PicksOn, PicksRow

\* What is picked when one more record counts.
OneRead(n, m, x, S) == PicksOn(FirstOf(records, n), x, FirstOf(records, m), S)

\* The next record is picked after those before it.
LEMMA StartPicked ==
  ASSUME Ordered(records), NEW n, n \in 0..Len(records), n < Len(records), NEW m, m = n + 1,
         NEW x, x = records[m], NEW S
  PROVE  OneRead(n, m, x, S)
<1>1. records \in Seq(Messages) /\ m \in 1..Len(records) /\ m - 1 = n /\ x \in Messages
  BY RecordIs DEF Ordered
<1>2. FirstOf(records, m) = Append(FirstOf(records, n), x) /\ FirstOf(records, n) \in Seq(Messages)
  BY <1>1, Starts
<1>3. PicksOn(FirstOf(records, n), x, Append(FirstOf(records, n), x), S)
  BY <1>1, <1>2, MessagesPicked
<1> QED BY <1>2, <1>3 DEF OneRead

\* A notification waits behind the others.
LEMMA NoteIsKept ==
  ASSUME Ordered(records), NEW n, n \in 0..Len(records), n < Len(records), NEW m, m = n + 1,
         NEW h, h \in Seq(Messages), NEW s, Notes(s), Kept(h, s, n),
         NEW x, x = records[m], x.role = "notification"
  PROVE  Kept(h, Append(s, x), m) /\ Notes(Append(s, x))
<1>1. x \in Messages /\ x.calls = <<>>
  BY RecordIs
<1>2. x \in Notifications /\ x \notin Words
  BY <1>1, ByRole
<1>3. OneRead(n, m, x, Notifications) /\ OneRead(n, m, x, Words)
  BY StartPicked
<1>4. PICK e : e = Picked(h, Notifications)
  OBVIOUS
<1>5. e \in Seq(Messages) /\ s \in Seq(Messages)
  BY <1>4, PickedTyped DEF Notes
<1>6. e \o Append(s, x) = Append(e \o s, x)
  BY <1>1, <1>5, AppendLast
<1>7. Kept(h, Append(s, x), m)
  BY <1>2, <1>3, <1>4, <1>6 DEF Kept, OneRead, PicksOn
<1>8. Notes(Append(s, x))
  BY <1>1, <1>5 DEF Notes
<1> QED BY <1>7, <1>8

\* A result changes neither the notes nor the words.
LEMMA ResultIsKept ==
  ASSUME Ordered(records), NEW n, n \in 0..Len(records), n < Len(records), NEW m, m = n + 1,
         NEW h, h \in Seq(Messages), NEW s, Notes(s), Kept(h, s, n),
         NEW x, x = records[m], x.role \in {"tool", "check"}
  PROVE  Kept(Append(h, x), s, m)
<1>1. x \in Messages
  BY RecordIs
<1>2. x \notin Notifications /\ (x \in Words <=> x.role = "check")
  BY <1>1, ByRole
<1>3. OneRead(n, m, x, Notifications) /\ OneRead(n, m, x, Words)
  BY StartPicked
<1>4. PicksOn(h, x, Append(h, x), Notifications) /\ PicksOn(h, x, Append(h, x), Words)
  BY <1>1, MessagesPicked
<1> QED BY <1>2, <1>3, <1>4 DEF Kept, OneRead, PicksOn

\* With a message or a reply the notes are told, and results may follow it.
LEMMA MessageIsKept ==
  ASSUME Ordered(records), NEW n, n \in 0..Len(records), n < Len(records), NEW m, m = n + 1,
         NEW h, h \in Seq(Messages), NEW s, Notes(s), Kept(h, s, n),
         NEW x, x = records[m], x.role \in {"user", "assistant"},
         NEW f, f \in Seq(Messages), \A k \in 1..Len(f) : f[k].role = "tool"
  PROVE  Kept(Append(h \o s, x) \o f, <<>>, m)
<1>1. x \in Messages /\ s \in Seq(Messages)
  BY RecordIs DEF Notes
<1>2. x \notin Notifications /\ x \in Words
  BY <1>1, ByRole
<1>3. OneRead(n, m, x, Notifications) /\ OneRead(n, m, x, Words)
  BY StartPicked
<1>4. PICK b, e : b = h \o s /\ e = Append(b, x)
  OBVIOUS
<1>5. b \in Seq(Messages) /\ e \in Seq(Messages)
  BY <1>1, <1>4
<1>6. ASSUME NEW S, Picked(f, S) = <<>>
      PROVE  Picked(e \o f, S) = IF x \in S THEN Append(Picked(h, S) \o Picked(s, S), x)
                                 ELSE Picked(h, S) \o Picked(s, S)
  <2>1. PicksRow(e, f, S)
    BY <1>1, <1>5, MessagesPicked
  <2>2. PicksOn(b, x, e, S)
    BY <1>1, <1>4, <1>5, MessagesPicked
  <2>3. PicksRow(h, s, S)
    BY <1>1, MessagesPicked
  <2>4. Picked(e, S) \in Seq(Messages)
    BY <1>5, PickedTyped
  <2>5. Picked(e, S) \o <<>> = Picked(e, S)
    BY <2>4
  <2> QED BY <1>4, <1>6, <2>1, <2>2, <2>3, <2>5 DEF PicksOn, PicksRow
<1>7. /\ Picked(s, Notifications) = s /\ Picked(s, Words) = <<>>
      /\ Picked(f, Notifications) = <<>> /\ Picked(f, Words) = <<>>
  BY NotesPicked, ResultsPicked
<1>8. Picked(e \o f, Notifications) = Picked(h, Notifications) \o s
  BY <1>2, <1>6, <1>7
<1>9. Picked(e \o f, Words) = Append(Picked(h, Words), x)
  <2>1. Picked(h, Words) \in Seq(Messages)
    BY PickedTyped
  <2>2. Picked(h, Words) \o <<>> = Picked(h, Words)
    BY <2>1
  <2> QED BY <1>2, <1>6, <1>7, <2>2
<1>10. Picked(FirstOf(records, m), Notifications) \in Seq(Messages)
  <2>1. records \in Seq(Messages) /\ m \in 0..Len(records)
    BY RecordIs DEF Ordered
  <2>2. FirstOf(records, m) \in Seq(Messages)
    BY <2>1, Starts
  <2> QED BY <2>2, PickedTyped
<1>11. Picked(e \o f, Notifications) = Picked(FirstOf(records, m), Notifications)
  BY <1>2, <1>3, <1>8 DEF Kept, OneRead, PicksOn
<1>12. Picked(e \o f, Notifications) \o <<>> = Picked(e \o f, Notifications)
  BY <1>10, <1>11
<1>13. Picked(e \o f, Words) = Picked(FirstOf(records, m), Words)
  BY <1>2, <1>3, <1>9 DEF Kept, OneRead, PicksOn
<1> QED BY <1>4, <1>11, <1>12, <1>13 DEF Kept

----------------------------------------------------------------------------
(* The history                                                             *)

\* What has been read after each number of records, up to n.
Reading(u, n) ==
  u = [k \in 0..n |-> IF k = 0 THEN [told |-> <<>>, notes |-> <<>>] ELSE Reads(u[k - 1], records[k])]

\* There is such a reading.
LEMMA ReadingExists ==
  ASSUME NEW n, n \in Nat
  PROVE  \E u : Reading(u, n)
<1> DEFINE Bad == {m \in 0..n : ~\E u : Reading(u, m)}
<1>0. Bad \subseteq Nat
  OBVIOUS
<1>1. ASSUME NEW m \in Bad, \A k \in Bad : m <= k PROVE FALSE
  <2>1. m # 0
    <3> DEFINE u == [k \in 0..0 |-> [told |-> <<>>, notes |-> <<>>]]
    <3>1. Reading(u, 0)
      BY DEF Reading
    <3> QED BY <3>1, <1>1
  <2>2. m - 1 \in 0..n /\ m \in 1..n /\ m - 1 \notin Bad
    <3>1. m \in 0..n /\ ~(m <= m - 1)
      BY <1>0
    <3> HIDE DEF Bad
    <3> QED BY <2>1, <1>1, <3>1
  <2>3. PICK v : Reading(v, m - 1)
    BY <2>2
  <2> DEFINE u == [k \in 0..m |-> IF k = m THEN Reads(v[m - 1], records[m]) ELSE v[k]]
  <2>4. \A k \in 0..m - 1 : v[k] = IF k = 0 THEN [told |-> <<>>, notes |-> <<>>]
                                   ELSE Reads(v[k - 1], records[k])
    BY <2>3 DEF Reading
  <2>5. \A k \in 0..m - 1 : k # m /\ k \in 0..m /\ (k # 0 => k - 1 \in 0..m /\ k - 1 # m)
    BY <2>2
  <2>6. \A k \in 0..m : u[k] = IF k = 0 THEN [told |-> <<>>, notes |-> <<>>]
                               ELSE Reads(u[k - 1], records[k])
    <3>1. ASSUME NEW k \in 0..m
          PROVE  u[k] = IF k = 0 THEN [told |-> <<>>, notes |-> <<>>] ELSE Reads(u[k - 1], records[k])
      <4>1. CASE k = m
        <5>1. u[k] = Reads(v[m - 1], records[m])
          BY <4>1
        <5>2. u[k - 1] = v[m - 1] /\ k # 0
          BY <2>2, <4>1
        <5> QED BY <4>1, <5>1, <5>2
      <4>2. CASE k # m
        <5>1. k \in 0..m - 1
          BY <2>2, <4>2
        <5>2. u[k] = v[k]
          BY <4>2
        <5>3. k # 0 => u[k - 1] = v[k - 1]
          BY <2>5, <5>1
        <5> QED BY <2>4, <5>1, <5>2, <5>3
      <4> QED BY <4>1, <4>2
    <3> QED BY <3>1
  <2>7. Reading(u, m)
    BY <2>6 DEF Reading
  <2> QED BY <2>7, <1>1
<1>2. Bad = {}
  <2> HIDE DEF Bad
  <2> QED BY <1>0, <1>1, First
<1> QED BY <1>2

\* What is read of one record, by its role.
OneMoreRead(told, notes, x, next) ==
  /\ x.role = "notification" => next = [told |-> told, notes |-> Append(notes, x)]
  /\ x.role \in {"user", "assistant"} =>
       next = [told |-> Append(told \o notes, x) \o NotRun(x.calls), notes |-> <<>>]
  /\ x.role \in {"tool", "check"} => next = [told |-> Append(told, x), notes |-> notes]

\* Reads does that.
LEMMA ReadsOne ==
  ASSUME NEW told, NEW notes, NEW x
  PROVE  OneMoreRead(told, notes, x, Reads([told |-> told, notes |-> notes], x))
<1>1. CASE x.role = "notification"
  BY <1>1 DEF OneMoreRead, Reads
<1>2. CASE x.role \in {"user", "assistant"}
  BY <1>2 DEF OneMoreRead, Reads
<1>3. CASE x.role \in {"tool", "check"}
  BY <1>3 DEF OneMoreRead, Reads
<1>4. CASE x.role \notin {"notification", "user", "assistant", "tool", "check"}
  BY <1>4 DEF OneMoreRead
<1> QED BY <1>1, <1>2, <1>3, <1>4

\* Nothing is called, so nothing was not run.
LEMMA NothingNotRun == NotRun(<<>>) = <<>>
<1>1. \A S : Picked(<<>>, S) = <<>>
  <2>1. <<>> \in Seq(Messages)
    OBVIOUS
  <2> QED BY <2>1, PickedTyped
<1>2. PICK S : NotRun(<<>>) = [k \in DOMAIN Picked(<<>>, S) |-> Record("tool", <<>>, Picked(<<>>, S)[k])]
  BY DEF NotRun
<1>3. DOMAIN Picked(<<>>, S) = 1..0
  BY <1>1
<1>4. NotRun(<<>>) \in Seq(Messages) /\ Len(NotRun(<<>>)) = 0
  BY <1>2, <1>3
<1> QED BY <1>4

\* What has been read of the first n records.
WellRead(done, n) ==
  \E told, notes : /\ done = [told |-> told, notes |-> notes]
                   /\ Told(told, n) /\ Notes(notes) /\ Kept(told, notes, n)

\* Reading one more record keeps what has been read well read.
LEMMA ReadOn ==
  ASSUME Ordered(records), NEW n, n \in 0..Len(records), n < Len(records), NEW m, m = n + 1,
         NEW done, WellRead(done, n)
  PROVE  WellRead(Reads(done, records[m]), m)
<1>1. PICK told, notes : /\ done = [told |-> told, notes |-> notes]
                         /\ Told(told, n) /\ Notes(notes) /\ Kept(told, notes, n)
  BY DEF WellRead
<1>2. PICK x, next : x = records[m] /\ next = Reads(done, x)
  OBVIOUS
<1>3. x \in Messages /\ x.role \in Roles /\ (x.role # "assistant" => x.calls = <<>>)
  BY <1>2, RecordIs
<1>4. OneMoreRead(told, notes, x, next)
  BY <1>1, <1>2, ReadsOne
<1>5. told \in Seq(Messages)
  BY <1>1 DEF Told
<1>6. CASE x.role = "notification"
  <2>1. next = [told |-> told, notes |-> Append(notes, x)]
    BY <1>4, <1>6 DEF OneMoreRead
  <2>2. Told(told, m)
    BY <1>1, <1>2, <1>6, NoteLeavesTold
  <2>3. Kept(told, Append(notes, x), m) /\ Notes(Append(notes, x))
    BY <1>1, <1>2, <1>5, <1>6, NoteIsKept
  <2> QED BY <1>2, <2>1, <2>2, <2>3 DEF WellRead
<1>7. CASE x.role = "tool"
  <2>1. next = [told |-> Append(told, x), notes |-> notes]
    BY <1>4, <1>7 DEF OneMoreRead
  <2>2. Told(Append(told, x), m)
    BY <1>1, <1>2, <1>7, ResultKeepsTold
  <2>3. Kept(Append(told, x), notes, m)
    BY <1>1, <1>2, <1>5, <1>7, ResultIsKept
  <2> QED BY <1>1, <1>2, <2>1, <2>2, <2>3 DEF WellRead
<1>8. CASE x.role = "check"
  <2>1. next = [told |-> Append(told, x), notes |-> notes]
    BY <1>4, <1>8 DEF OneMoreRead
  <2>2. Told(Append(told, x), m)
    BY <1>1, <1>2, <1>8, CheckKeepsTold
  <2>3. Kept(Append(told, x), notes, m)
    BY <1>1, <1>2, <1>5, <1>8, ResultIsKept
  <2> QED BY <1>1, <1>2, <2>1, <2>2, <2>3 DEF WellRead
<1>9. Notes(<<>>)
  BY DEF Notes
<1>10. CASE x.role = "user"
  <2>1. next = [told |-> Append(told \o notes, x) \o <<>>, notes |-> <<>>]
    <3>1. NotRun(x.calls) = <<>>
      BY <1>3, <1>10, NothingNotRun
    <3> QED BY <1>4, <1>10, <3>1 DEF OneMoreRead
  <2>2. PICK g : g = Append(told \o notes, x)
    OBVIOUS
  <2>3. Told(g, m)
    <3>1. /\ Ordered(records) /\ n \in 0..Len(records) /\ n < Len(records) /\ m = n + 1
          /\ Told(told, n) /\ Notes(notes) /\ x = records[m] /\ x.role = "user"
      BY <1>1, <1>2, <1>10
    <3>2. Told(WithNotes(told, notes, x), m)
      BY ONLY <3>1, MessageKeepsTold
    <3> QED BY <2>2, <3>2 DEF WithNotes
  <2>4. g \o <<>> = g
    BY <2>3 DEF Told
  <2>5. Kept(g \o <<>>, <<>>, m)
    <3>1. <<>> \in Seq(Messages) /\ \A k \in 1..Len(<<>>) : <<>>[k].role = "tool"
      OBVIOUS
    <3> QED BY <1>1, <1>2, <1>5, <1>10, <2>2, <3>1, MessageIsKept
  <2> QED BY <1>2, <1>9, <2>1, <2>2, <2>3, <2>4, <2>5 DEF WellRead
<1>11. CASE x.role = "assistant"
  <2>1. next = [told |-> Append(told \o notes, x) \o NotRun(x.calls), notes |-> <<>>]
    BY <1>4, <1>11 DEF OneMoreRead
  <2>2. PICK g : g = Append(told \o notes, x) \o NotRun(x.calls)
    OBVIOUS
  <2>3. /\ Told(g, m) /\ NotRun(x.calls) \in Seq(Messages)
        /\ \A k \in 1..Len(NotRun(x.calls)) : NotRun(x.calls)[k].role = "tool"
    <3>1. /\ Ordered(records) /\ n \in 0..Len(records) /\ n < Len(records) /\ m = n + 1
          /\ Told(told, n) /\ Notes(notes) /\ x = records[m] /\ x.role = "assistant"
      BY <1>1, <1>2, <1>11
    <3>2. /\ Told(WithNotes(told, notes, x) \o NotRun(x.calls), m) /\ NotRun(x.calls) \in Seq(Messages)
          /\ \A k \in 1..Len(NotRun(x.calls)) : NotRun(x.calls)[k].role = "tool"
      BY ONLY <3>1, ReplyKeepsTold
    <3> QED BY <2>2, <3>2 DEF WithNotes
  <2>4. Kept(g, <<>>, m)
    BY <1>1, <1>2, <1>5, <1>11, <2>2, <2>3, MessageIsKept
  <2> QED BY <1>2, <1>9, <2>1, <2>2, <2>3, <2>4 DEF WellRead
<1> QED BY <1>3, <1>6, <1>7, <1>8, <1>10, <1>11 DEF Roles

\* Before the first record nothing has been read.
LEMMA NothingRead ==
  WellRead([told |-> <<>>, notes |-> <<>>], 0)
<1>1. \A i : ~AwaitsAt(records, i, 0)
  BY DEF AwaitsAt
<1>2. <<>> \in Seq(Messages) /\ Len(<<>>) = 0 /\ \A k : k \notin 1..Len(<<>>)
  OBVIOUS
<1>3. Told(<<>>, 0)
  BY <1>1, <1>2 DEF Told, Blocks, Complete
<1>4. Notes(<<>>)
  BY <1>2 DEF Notes
<1>5. FirstOf(records, 0) = <<>>
  BY DEF FirstOf
<1>6. \A S : Picked(<<>>, S) = <<>>
  BY <1>2, PickedTyped
<1>7. Kept(<<>>, <<>>, 0)
  BY <1>5, <1>6 DEF Kept
<1> QED BY <1>3, <1>4, <1>7 DEF WellRead

\* A reading is well at every record.
LEMMA ReadingIsWell ==
  ASSUME Ordered(records), NEW u, Reading(u, Len(records))
  PROVE  WellRead(u[Len(records)], Len(records))
<1> DEFINE N == Len(records)
           Bad == {k \in 0..N : ~WellRead(u[k], k)}
<1>0. N \in Nat /\ Bad \subseteq Nat
  BY DEF Ordered
<1>1. \A k \in 0..N : u[k] = IF k = 0 THEN [told |-> <<>>, notes |-> <<>>]
                             ELSE Reads(u[k - 1], records[k])
  BY DEF Reading
<1>2. ASSUME NEW m \in Bad, \A k \in Bad : m <= k PROVE FALSE
  <2>0. m \in 0..N /\ ~WellRead(u[m], m)
    OBVIOUS
  <2>1. m # 0
    <3>1. u[0] = [told |-> <<>>, notes |-> <<>>]
      BY <1>0, <1>1
    <3> QED BY <2>0, <3>1, NothingRead
  <2>2. PICK n : n = m - 1
    OBVIOUS
  <2>3. n \in 0..N /\ n < N /\ m = n + 1 /\ ~(m <= n) /\ m \in 0..N
    BY <1>0, <2>0, <2>1, <2>2
  <2>4. WellRead(u[n], n)
    <3>1. n \notin Bad
      <4> HIDE DEF Bad
      <4> QED BY <1>2, <2>3
    <3> QED BY <2>3, <3>1
  <2>5. u[m] = Reads(u[n], records[m])
    BY <1>1, <2>1, <2>2, <2>3
  <2>6. WellRead(Reads(u[n], records[m]), m)
    BY <2>3, <2>4, ReadOn
  <2> QED BY <2>0, <2>5, <2>6
<1>3. Bad = {}
  <2> HIDE DEF Bad
  <2> QED BY <1>0, <1>2, First
<1>4. N \in 0..N
  BY <1>0
<1> QED BY <1>3, <1>4

\* The history is what was told and the notes that wait.
LEMMA HistoryIs ==
  ASSUME Ordered(records)
  PROVE  \E told, notes : /\ History = told \o notes
                          /\ Told(told, Len(records)) /\ Notes(notes) /\ Kept(told, notes, Len(records))
<1> DEFINE c == CHOOSE u : Reading(u, Len(records))
<1>1. Len(records) \in Nat
  BY DEF Ordered
<1>2. Reading(c, Len(records))
  BY <1>1, ReadingExists
<1>3. History = c[Len(records)].told \o c[Len(records)].notes
  BY DEF History, Reading
<1> HIDE DEF c
<1>4. WellRead(c[Len(records)], Len(records))
  BY <1>2, ReadingIsWell
<1> QED BY <1>3, <1>4 DEF WellRead

\* HistorySound holds of every conversation whose records are in order.
LEMMA OrderedIsSound ==
  ASSUME Ordered(records)
  PROVE  HistorySound
<1>1. PICK told, notes, h :
        /\ History = h /\ h = told \o notes
        /\ Told(told, Len(records)) /\ Notes(notes) /\ Kept(told, notes, Len(records))
  BY HistoryIs
<1>2. Len(records) \in 0..Len(records) /\ records \in Seq(Messages)
  BY DEF Ordered
<1>3. told \in Seq(Messages) /\ Complete(told) /\ Blocks(told)
  <2>1. Complete(told)
    BY <1>1, <1>2, ToldCloses
  <2> QED BY <1>1, <2>1 DEF Told
<1>4. notes \in Seq(Messages) /\ \A k \in 1..Len(notes) : notes[k].role # "tool" /\ notes[k].calls = <<>>
  BY <1>1 DEF Notes
<1>5. Complete(h) /\ Blocks(h) /\ h \in Seq(Messages)
  <2>1. Complete(h) /\ Blocks(h)
    BY <1>1, <1>3, <1>4, WordsFollow
  <2> QED BY <1>1, <1>3, <1>4, <2>1
<1>6. FirstOf(records, Len(records)) = records
  BY <1>2, Starts
<1>7. Picked(notes, Notifications) = notes /\ Picked(notes, Words) = <<>>
  BY <1>1, NotesPicked
<1>8. PicksRow(told, notes, Notifications) /\ PicksRow(told, notes, Words)
  <2>1. PICK x : x \in Messages
    <3>1. [role |-> "user", calls |-> <<>>, id |-> <<0, 0>>] \in Messages
      BY DEF Messages, MessagesOf, Roles
    <3> QED BY <3>1
  <2> QED BY <1>3, <1>4, <2>1, MessagesPicked
<1>9. Picked(h, Notifications) = Picked(records, Notifications)
  BY <1>1, <1>6, <1>7, <1>8 DEF Kept, PicksRow
<1>10. Picked(h, Words) = Picked(records, Words)
  <2>1. Picked(told, Words) \in Seq(Messages)
    BY <1>3, PickedTyped
  <2>2. Picked(told, Words) \o <<>> = Picked(told, Words)
    BY <2>1
  <2> QED BY <1>1, <1>6, <1>7, <1>8, <2>2 DEF Kept, PicksRow
<1>11. DOMAIN h = 1..Len(h)
  BY <1>5
<1>12. \A i \in DOMAIN h : Answered(h, i)
  BY <1>5, <1>11 DEF Complete
<1>13. \A k \in DOMAIN h : h[k].role = "tool" =>
         \E i \in DOMAIN h : k \in i + 1..i + Len(h[i].calls)
  BY <1>5, <1>11 DEF Blocks
<1>14. \A roles \in {{"user", "assistant", "check"}, {"notification"}} :
         Picked(h, MessagesOf(roles)) = Picked(records, MessagesOf(roles))
  BY <1>9, <1>10 DEF Notifications, Words
<1> QED BY <1>1, <1>12, <1>13, <1>14 DEF HistorySound

\* HistorySound: what the model reads of a conversation pairs every call with
\* one result behind its reply and neither loses nor moves a message of a kind,
\* whatever stops, restarts and notifications came in between, when the server
\* gives every call an id of its own.
THEOREM HistoryIsSound == ServerIds => (HistorySpec => []HistorySound)
<1> SUFFICES ASSUME ServerIds PROVE HistorySpec => []HistorySound
  OBVIOUS
<1>1. HistorySpec => []HistoryIInv
  BY RecordsInvariant
<1>2. HistoryIInv => HistorySound
  BY OrderedIsSound DEF HistoryIInv
<1> QED BY <1>1, <1>2, PTL

(***************************************************************************)
(* Types, of the behaviours of any one part beside the others at rest.     *)
(***************************************************************************)

\* A compaction is counted only while there is one left.
LEMMA CompactionCounted ==
  ASSUME compactions \in 0..MaxCompactions, NEW known, NEW keep,
         NEW c \in CompactionOutcomes(known, keep), Replaces(c)
  PROVE  compactions' \in 0..MaxCompactions
<1>1. MaxCompactions \in Nat
  BY AgentAssumption
<1>2. c.how = "failed" \/ compactions < MaxCompactions
  BY <1>1 DEF CompactionOutcomes
<1> QED BY <1>1, <1>2 DEF Replaces

\* A benchmark's loop keeps its types.
LEMMA AgentTypesStep ==
  ASSUME AgentTypeOK, [AgentNext]_AgentVars
  PROVE  AgentTypeOK'
<1>1. /\ step \in {"head", "reply", "calls", "ended"}
      /\ round \in 0..MaxRounds /\ compactions \in 0..MaxCompactions
      /\ stuck \in BOOLEAN /\ compacting \in BOOLEAN /\ completed \in BOOLEAN
      /\ size \in {0, ContextSize} /\ todo \in 0..MaxCalls
      /\ seen \subseteq Calls /\ current \subseteq Calls
      /\ finish \in {"none", "tool_round_limit", "context", "length", "stop", "finish_job"}
  BY DEF AgentTypeOK
<1>2. MaxRounds \in Nat /\ MaxCalls \in Nat
  BY AgentAssumption
<1>3. ASSUME /\ step' \in {"head", "reply", "calls", "ended"}
             /\ round' \in 0..MaxRounds /\ compactions' \in 0..MaxCompactions
             /\ stuck' \in BOOLEAN /\ compacting' \in BOOLEAN /\ completed' \in BOOLEAN
             /\ size' \in {0, ContextSize} /\ todo' \in 0..MaxCalls
             /\ seen' \subseteq Calls /\ current' \subseteq Calls
             /\ finish' \in {"none", "tool_round_limit", "context", "length", "stop", "finish_job"}
      PROVE  AgentTypeOK'
  BY <1>3 DEF AgentTypeOK
<1>4. CASE NextRound
  <2>1. /\ step' = "reply" /\ round' = round + 1 /\ round < MaxRounds
        /\ UNCHANGED <<compacting, completed, size, todo, seen, current, finish>>
        /\ \/ UNCHANGED <<compactions, stuck>>
           \/ \E c \in CompactionOutcomes(size, Keep) : Replaces(c) /\ stuck' = ~c.fits
    BY <1>4 DEF NextRound, RoundsLeft
  <2>2. compactions' \in 0..MaxCompactions
    BY <1>1, <2>1, CompactionCounted
  <2>3. stuck' \in BOOLEAN
    <3>1. \A c : (~c.fits) \in BOOLEAN
      OBVIOUS
    <3> QED BY <1>1, <2>1, <3>1
  <2>4. round' \in 0..MaxRounds
    BY <1>1, <1>2, <2>1
  <2>5. compacting' \in BOOLEAN /\ completed' \in BOOLEAN
    BY <1>1, <2>1
  <2> QED BY <1>1, <1>3, <2>1, <2>2, <2>3, <2>4, <2>5
<1>5. ASSUME NEW end \in {"length", "context"}, RunsOutOfRoom(end), step = "reply",
             UNCHANGED <<round, compacting, todo, seen, current, completed>>
      PROVE  AgentTypeOK'
  <2>1. /\ step' \in {"head", "reply", "calls", "ended"} /\ size' \in {0, ContextSize}
        /\ finish' \in {"none", end} \cup {finish}
        /\ \/ UNCHANGED <<compactions, stuck>>
           \/ \E c \in CompactionOutcomes(ContextSize, Reserve(ContextSize, ReserveFloor, largest')) :
                Replaces(c) /\ (stuck' = FALSE \/ stuck' = stuck)
    BY <1>1, <1>5 DEF RunsOutOfRoom, Ends
  <2>2. compactions' \in 0..MaxCompactions
    BY <1>1, <2>1, CompactionCounted
  <2>3. stuck' \in BOOLEAN /\ compacting' \in BOOLEAN /\ completed' \in BOOLEAN
    BY <1>1, <1>5, <2>1
  <2> QED BY <1>1, <1>3, <1>5, <2>1, <2>2, <2>3
<1>6. CASE Exhausted
  BY <1>5, <1>6 DEF Exhausted
<1>7. CASE CutOff
  <2>1. CASE limit = 0
    BY <1>5, <1>7, <2>1 DEF CutOff
  <2>2. CASE limit # 0
    BY <1>1, <1>3, <1>7, <2>2 DEF CutOff, Ends
  <2> QED BY <2>1, <2>2
<1>8. CASE OutOfRounds \/ Answers
  BY <1>1, <1>3, <1>8 DEF OutOfRounds, Answers, Ends
<1>9. CASE CallsTools
  <2>1. todo' \in 0..MaxCalls
    BY <1>2, <1>9 DEF CallsTools
  <2> QED BY <1>1, <1>3, <1>9, <2>1 DEF CallsTools
<1>10. CASE RunCall
  <2>1. todo' \in 0..MaxCalls
    BY <1>1, <1>2, <1>10 DEF RunCall
  <2>2. seen' \subseteq Calls /\ current' \subseteq Calls
    BY <1>1, <1>10 DEF RunCall
  <2>3. completed' \in BOOLEAN
    <3>1. completed' = completed \/ \E call : completed' = (completed \/ Finishes(call, world))
      BY <1>10 DEF RunCall
    <3>2. \A call : (completed \/ Finishes(call, world)) \in BOOLEAN
      OBVIOUS
    <3> QED BY <1>1, <3>1, <3>2
  <2>4. UNCHANGED <<step, round, compactions, stuck, size, compacting, finish>>
    BY <1>10 DEF RunCall
  <2>5. stuck' \in BOOLEAN /\ compacting' \in BOOLEAN
    BY <1>1, <2>4
  <2> QED BY <1>1, <1>3, <2>1, <2>2, <2>3, <2>4, <2>5
<1>11. CASE CallsDone
  BY <1>1, <1>3, <1>11 DEF CallsDone, Ends
<1>12. CASE UNCHANGED AgentVars
  BY <1>1, <1>3, <1>12 DEF AgentVars
<1> QED BY <1>4, <1>6, <1>7, <1>8, <1>9, <1>10, <1>11, <1>12 DEF AgentNext

\* A run that starts, and a loop that rests, have the types.
LEMMA AgentTypesStart == AgentInit \/ AgentRests => AgentTypeOK
<1> SUFFICES ASSUME AgentInit \/ AgentRests PROVE AgentTypeOK
  OBVIOUS
<1>1. {MaxCompactions, MaxRounds, MaxCalls} \subseteq Nat
  BY AgentAssumption
<1>2. 0 \in 0..MaxRounds /\ 0 \in 0..MaxCompactions /\ 0 \in 0..MaxCalls
  BY <1>1
<1>3. stuck = FALSE /\ compacting \in BOOLEAN /\ completed = FALSE
  BY DEF AgentInit, AgentRests
<1>4. /\ step \in {"head", "ended"} /\ round = 0 /\ compactions = 0 /\ size \in {0, ContextSize}
      /\ todo = 0 /\ seen = {} /\ current = {} /\ finish = "none"
  BY DEF AgentInit, AgentRests
<1> QED BY <1>2, <1>3, <1>4 DEF AgentTypeOK

\* Type correctness of the runs and of their loops, whichever part moves.
THEOREM BenchmarksTyped == Spec => []TypeOK
<1>1. Init => AgentTypeOK /\ RunnerInv
  BY AgentTypesStart, RunnerStarts DEF Init
<1>2. ASSUME AgentTypeOK /\ RunnerInv, [Next]_vars
      PROVE  AgentTypeOK' /\ RunnerInv'
  <2>1. [AgentNext]_AgentVars /\ [RunnerNext]_RunnerVars
    BY <1>2 DEF Next, vars
  <2> QED BY <1>2, <2>1, AgentTypesStep, RunnerTypes, RouterKept, RecordKept DEF RunnerInv
<1>3. AgentTypeOK /\ RunnerInv => TypeOK
  BY DEF TypeOK, RunnerInv
<1> QED BY <1>1, <1>2, <1>3, PTL DEF Spec

=============================================================================
