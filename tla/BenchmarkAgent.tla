--------------------------- MODULE BenchmarkAgent ----------------------------
(***************************************************************************)
(* The loop of a benchmark run whose model works with tools                *)
(* (BenchmarkRunner._generate and _call_tool in                            *)
(* services/benchmark_runner.py, with benchmark_tasks.py and the build     *)
(* tools of benchmark_typescript.py): rounds of request and reply, calls,  *)
(* refused repeats, compaction, and the ways it ends.                      *)
(*                                                                         *)
(* Tokens and characters are one unit.  The size the code works out for a  *)
(* history is an estimate, so llama.cpp may refuse any request.            *)
(***************************************************************************)
EXTENDS Compaction

CONSTANTS
  ContextSize,     \* the context's size
  ReserveFloor,    \* RESERVE_FLOOR_TOKENS
  SummarySize,     \* SUMMARY_MAX_TOKENS
  MaxCompactions,  \* MAX_COMPACTIONS
  MaxRounds,       \* max_tool_rounds of the run
  TokenLimits,     \* limits (max_tokens) a run may have
  Offered,         \* the tools the run was given (tool_names)
  Sizes,           \* sizes of replies and results
  MaxCalls,        \* bound: calls in one reply
  MaxTasks         \* bound: tasks on the list

ASSUME AgentAssumption ==
  /\ {ContextSize, ReserveFloor, SummarySize, MaxCompactions} \subseteq Nat
  /\ {MaxRounds, MaxCalls, MaxTasks} \subseteq Nat \ {0}
  /\ TokenLimits \subseteq Nat \ {0} /\ Sizes \subseteq Nat \ {0}

VARIABLES
  step,        \* "head", "reply", "calls" or "ended"
  round, history, compactions, stuck,
  size,        \* the context's size as far as it is known, 0 before
  largest,     \* the longest reply so far
  compacting,  \* compact_context
  limit,       \* max_tokens, 0 for none
  budget,      \* what is left of it
  spent,       \* tokens generated by all replies (not in the code)
  world,       \* what the tools see: source, page and tasks
  todo,        \* calls of this reply still to be run
  seen,        \* calls of this reply a repeat of which is refused
  current,     \* calls whose result still holds (not in the code)
  completed, finish

AgentVars == <<step, round, history, compactions, stuck, size, largest,
               compacting, limit, budget, spent, world, todo, seen, current,
               completed, finish>>

\* A call is a tool and its argument: the text written, a task, or nothing.
Texts == {"v1", "v2"}
Calls ==
  ({"write_file"} \X Texts)
    \cup ({"complete_task", "delete_task"} \X (1..MaxTasks))
    \cup ({"delete_file", "read_file", "list_tasks", "create_task",
           "bundle_typescript", "finish_job"} \X {"-"})

\* A variant: completing a task does not count as a change.
CHANGING_TOOLSForgotten ==
  {"write_file", "edit_file", "delete_file", "bundle_typescript",
   "create_task", "delete_task", "finish_job"}

CHANGING_TOOLS ==
  {"write_file", "edit_file", "delete_file", "bundle_typescript",
   "create_task", "complete_task", "delete_task", "finish_job"}

OpenTasks(w) == {i \in DOMAIN w.tasks : w.tasks[i] = "open"}

\* _unbuilt_reason: there is source, and the page was built from it as it is.
Built(w) == w.source # "none" /\ w.page = w.source

CreateTask(w) ==
  IF Len(w.tasks) < MaxTasks THEN [w EXCEPT !.tasks = Append(@, "open")] ELSE w

\* complete_task and delete_task: of an open task; of another one they are
\* refused or change nothing.
Settle(w, i, as) ==
  IF i \in OpenTasks(w) THEN [w EXCEPT !.tasks[i] = as] ELSE w

\* _call_tool: the world after the call.  A refused call, of a tool the run was
\* not given for one, leaves it as it was.
After(call, w) ==
  LET tool == call[1]
  IN  IF tool \notin Offered THEN w ELSE
      CASE tool = "write_file" -> [w EXCEPT !.source = call[2]]
        [] tool = "delete_file" -> [w EXCEPT !.source = "none"]
        [] tool = "bundle_typescript" /\ w.source # "none" ->
             [w EXCEPT !.page = w.source]
        [] tool = "create_task" -> CreateTask(w)
        [] tool = "complete_task" -> Settle(w, call[2], "done")
        [] tool = "delete_task" -> Settle(w, call[2], "deleted")
        [] OTHER -> w

\* finish_job is refused while a task is open or the page is out of date, if
\* the run has the tools for it.
Finishes(call, w) ==
  /\ call[1] = "finish_job" /\ "finish_job" \in Offered
  /\ "complete_task" \in Offered => OpenTasks(w) = {}
  /\ "bundle_typescript" \in Offered => Built(w)

\* The prompt's tasks, if the run can mark them done.
SeededTasks ==
  {<<>>} \cup IF "complete_task" \in Offered THEN {<<"open">>} ELSE {}

AgentInit ==
  /\ step = "head" /\ round = 0 /\ compactions = 0 /\ stuck = FALSE
  /\ history = <<Text("system", 1), Text("user", 1)>>
  /\ size \in {0, ContextSize} /\ largest = 0 /\ compacting \in BOOLEAN
  /\ limit \in TokenLimits \cup {0} /\ budget = limit /\ spent = 0
  /\ world \in [source : {"none"}, page : {"none"}, tasks : SeededTasks]
  /\ todo = 0 /\ seen = {} /\ current = {}
  /\ completed = FALSE /\ finish = "none"

Keep == Reserve(size, ReserveFloor, largest)

\* compact: the histories it may leave, with "pruned", "summarised" or
\* "failed", when the size of the context is taken to be known.
CompactionOutcomes(known, keep) ==
  LET pruned == Prune(history)
      before == HistorySize(history)
      after == HistorySize(pruned)
      Outcome(how, h) ==
        [how |-> how, history |-> h,
         fits |-> how # "failed" /\ HistorySize(h) + keep <= known]
  IN  IF known = 0 \/ compactions >= MaxCompactions \/ ~Compactable(history)
      THEN {Outcome("failed", history)}
      ELSE IF (before - after) * 10 >= before /\ after + keep <= known
      THEN {Outcome("pruned", pruned)}
      ELSE {Outcome("failed", history)}
             \cup {Outcome("summarised", Compacted(pruned, s)) :
                     s \in {t \in Sizes : t <= SummarySize}}

\* What a compaction changes, whether or not it makes enough room.
Replaces(c) ==
  /\ history' = c.history
  /\ compactions' = IF c.how = "failed" THEN compactions ELSE compactions + 1

Ends(reason) == step' = "ended" /\ finish' = reason

\* A variant: one round more than the run was given.
RoundsLeftOneMore == round <= MaxRounds

RoundsLeft == round < MaxRounds

\* The next round starts, with a compaction if the reply might not fit.
NextRound ==
  /\ step = "head" /\ RoundsLeft
  /\ round' = round + 1 /\ step' = "reply"
  /\ IF /\ compacting /\ round > 0 /\ ~stuck /\ size # 0
        /\ HistorySize(history) + Keep > size
     THEN \E c \in CompactionOutcomes(size, Keep) : Replaces(c) /\ stuck' = ~c.fits
     ELSE UNCHANGED <<history, compactions, stuck>>
  /\ UNCHANGED <<size, largest, compacting, limit, budget, spent, world, todo,
                 seen, current, completed, finish>>

OutOfRounds ==
  /\ step = "head" /\ ~RoundsLeft
  /\ Ends("tool_round_limit")
  /\ UNCHANGED <<round, history, compactions, stuck, size, largest, compacting,
                 limit, budget, spent, world, todo, seen, current, completed>>

\* A variant: each request asks for the whole limit again.
RepliesUnbudgeted == {n \in Sizes : limit = 0 \/ n <= limit} \cup {1}

\* The tokens of a reply: at most what the request asks for (at least one).
Replies == {n \in Sizes : limit = 0 \/ n <= Most(budget, 1)} \cup {1}

Replied(n) ==
  /\ spent' = IF limit = 0 THEN 0 ELSE spent + n
  /\ budget' = IF limit = 0 THEN 0 ELSE budget - n
  /\ largest' = Most(largest, n)

\* The reply ran out of room: it is dropped, and the round tried again once
\* the history is compacted.  Its calls are logged as not run.
RunsOutOfRoom(otherwise) ==
  IF ~compacting
  THEN /\ Ends(otherwise)
       /\ UNCHANGED <<size, history, compactions, stuck>>
  ELSE /\ size' = ContextSize
       /\ \E c \in CompactionOutcomes(ContextSize,
                               Reserve(ContextSize, ReserveFloor, largest')) :
            /\ Replaces(c)
            /\ IF c.fits THEN stuck' = FALSE /\ step' = "head" /\ finish' = "none"
               ELSE Ends(otherwise) /\ UNCHANGED stuck

\* The prompt does not fit the context, and llama.cpp refuses the request.
Exhausted ==
  /\ step = "reply"
  /\ Replied(0) /\ RunsOutOfRoom("context")
  /\ UNCHANGED <<round, compacting, limit, world, todo, seen, current,
                 completed>>

\* Generation stops in the middle: at the limit, or in a full context.
CutOff ==
  /\ step = "reply"
  /\ \E n \in Replies :
       /\ Replied(n)
       /\ IF limit = 0 THEN \E end \in {"length", "context"} : RunsOutOfRoom(end)
          ELSE /\ Ends("length")
               /\ UNCHANGED <<size, history, compactions, stuck>>
  /\ UNCHANGED <<round, compacting, limit, world, todo, seen, current,
                 completed>>

\* A reply without calls ends the run.
Answers ==
  /\ step = "reply"
  /\ \E n \in Replies : Replied(n)
  /\ Ends("stop")
  /\ UNCHANGED <<round, history, compactions, stuck, size, compacting, limit,
                 world, todo, seen, current, completed>>

CallId(n) == round * (MaxCalls + 1) + n

CallsTools ==
  /\ step = "reply"
  /\ \E n \in Replies, calls \in 1..MaxCalls :
       /\ Replied(n)
       /\ history' = Append(history, CallsOf({CallId(k) : k \in 1..calls}, n))
       /\ todo' = calls
  /\ step' = "calls" /\ seen' = {} /\ current' = {}
  /\ UNCHANGED <<round, compactions, stuck, size, compacting, limit, world,
                 completed, finish>>

\* The calls of a reply run in order, also those after an accepted finish_job.
\* What the calls are is chosen as they are run.
RunCall ==
  /\ step = "calls" /\ todo > 0
  /\ todo' = todo - 1
  /\ \E call \in {c \in Calls : c[1] \in Offered \cup {"finish_job"}} :
       IF call \in seen
       THEN /\ history' = Append(history, ResultOf(CallId(todo), 1))
            /\ UNCHANGED <<world, seen, current, completed>>
       ELSE /\ \E n \in IF call[1] = "read_file" THEN Sizes ELSE {1} :
                 history' = Append(history, ResultOf(CallId(todo), n))
            /\ world' = After(call, world)
            /\ seen' = {call} \cup
                 IF call[1] \in CHANGING_TOOLS THEN {} ELSE seen
            /\ current' = {call} \cup IF world' = world THEN current ELSE {}
            /\ completed' = (completed \/ Finishes(call, world))
  /\ UNCHANGED <<step, round, compactions, stuck, size, largest, compacting,
                 limit, budget, spent, finish>>

CallsDone ==
  /\ step = "calls" /\ todo = 0
  /\ IF completed THEN Ends("finish_job")
     ELSE IF limit # 0 /\ budget <= 0 THEN Ends("length")
     ELSE step' = "head" /\ finish' = "none"
  /\ seen' = {} /\ current' = {}
  /\ UNCHANGED <<round, history, compactions, stuck, size, largest, compacting,
                 limit, budget, spent, world, todo, completed>>

AgentNext ==
  \/ NextRound \/ OutOfRounds \/ Exhausted \/ CutOff \/ Answers
  \/ CallsTools \/ RunCall \/ CallsDone

AgentSpec == AgentInit /\ [][AgentNext]_AgentVars

AgentTypeOK ==
  /\ step \in {"head", "reply", "calls", "ended"}
  /\ round \in 0..MaxRounds /\ compactions \in 0..MaxCompactions
  /\ {stuck, compacting, completed} \subseteq BOOLEAN
  /\ size \in {0, ContextSize} /\ todo \in 0..MaxCalls
  /\ seen \subseteq Calls /\ current \subseteq Calls
  /\ finish \in {"none", "tool_round_limit", "context", "length", "stop",
                 "finish_job"}

\* Every request, one for a summary too, is a conversation that the chat
\* templates accept: compaction never parts a call from its result, and the
\* task is always in it.
HistoryValid ==
  /\ step = "reply" => ValidHistory(history)
  /\ step \in {"head", "reply"} /\ compacting /\ Compactable(history) =>
       /\ ValidHistory(SummaryRequest(Prune(history), ContextSize - SummarySize))
       /\ ValidHistory(Compacted(Prune(history), 1))

\* A call is refused as a repeat only while the result it had before is what
\* running it again would give.
DuplicatesAreCurrent == seen \subseteq current

\* A token limit is for the run: however often a reply is dropped and tried
\* again, the replies together stay within it.
TokenLimitKept == limit # 0 => spent <= limit

\* What the model is sent is a conversation it can continue, keeps what it
\* needs to know, and costs no more than it may.
ConversationSound == HistoryValid /\ DuplicatesAreCurrent /\ TokenLimitKept
=============================================================================
