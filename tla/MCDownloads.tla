---------------------------- MODULE MCDownloads ----------------------------
(***************************************************************************)
(* Model checking of Downloads.                                            *)
(***************************************************************************)
EXTENDS Downloads, TLC

\* Tasks are interchangeable names.
Symmetric == Permutations(Tasks)
==============================================================================
