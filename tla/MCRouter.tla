------------------------------ MODULE MCRouter -------------------------------
(***************************************************************************)
(* The router for TLC: its supervisor, and what is done with a router that *)
(* runs.  RouterModels takes the supervisor's launches and ends as they    *)
(* come, so the two share no variable; a behaviour moves one of them       *)
(* (`part') while the other waits in its initial state.                    *)
(***************************************************************************)
EXTENDS RouterSupervisor, RouterModels, TLC

VARIABLE part
RouterVars == <<part, vars, RouterModelsVars>>

RouterInit == part \in {"supervisor", "models"} /\ Init /\ RouterModelsInit

RouterNext ==
  /\ UNCHANGED part
  /\ \/ part = "supervisor" /\ Next /\ UNCHANGED RouterModelsVars
     \/ part = "models" /\ RouterModelsNext /\ UNCHANGED vars

RouterSpec == RouterInit /\ [][RouterNext]_RouterVars

\* Restart loops, requests and synchronizers are interchangeable.
Symmetry ==
  Permutations(Loops) \cup Permutations(LoadRequests) \cup Permutations(Synchronizers)
==============================================================================
