---------------------------- MODULE MCEventBroker ----------------------------
(* EventBroker for TLC: the constants are given in the .cfg files. *)
EXTENDS EventBroker, TLC

\* The subscriptions are interchangeable.
Symmetric == Permutations(Subs)
==============================================================================
