---------------------------- MODULE MCBenchmarks -----------------------------
(* Model checking of the benchmarks and of the conversations with models,    *)
(* which share no state: the behaviours of one of the three modules, chosen  *)
(* at the start (`part'), with the others standing still.                    *)
EXTENDS BenchmarkAgent, BenchmarkRunner, AssistantHistory

VARIABLE part

vars == <<part, AgentVars, RunnerVars, HistoryVars>>

AgentRests ==
  /\ step = "ended" /\ round = 0 /\ compactions = 0 /\ stuck = FALSE
  /\ history = <<>> /\ size = 0 /\ largest = 0 /\ compacting = FALSE
  /\ limit = 0 /\ budget = 0 /\ spent = 0
  /\ world = [source |-> "none", page |-> "none", tasks |-> <<>>]
  /\ todo = 0 /\ seen = {} /\ current = {}
  /\ completed = FALSE /\ finish = "none"

Init ==
  /\ RunnerInit /\ HistoryInit
  /\ \/ part = "agent" /\ AgentInit
     \/ part \in {"runner", "assistant"} /\ AgentRests

Next ==
  /\ UNCHANGED part
  /\ \/ part = "agent" /\ AgentNext /\ UNCHANGED <<RunnerVars, HistoryVars>>
     \/ part = "runner" /\ RunnerNext /\ UNCHANGED <<AgentVars, HistoryVars>>
     \/ part = "assistant" /\ HistoryNext /\ UNCHANGED <<AgentVars, RunnerVars>>

Spec == Init /\ [][Next]_vars /\ (part = "runner" => RunnerFairness)

TypeOK == AgentTypeOK /\ RunnerTypeOK
=============================================================================
