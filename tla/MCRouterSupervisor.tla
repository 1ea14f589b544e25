-------------------------- MODULE MCRouterSupervisor --------------------------
(* RouterSupervisor for TLC: the constants are given in the .cfg files. *)
EXTENDS RouterSupervisor, TLC

\* The restart loops are interchangeable.
Symmetric == Permutations(Loops)
==============================================================================
