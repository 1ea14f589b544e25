-------------------------- MODULE MCAssistantEngine --------------------------
(***************************************************************************)
(* Model checking of AssistantEngine.                                      *)
(***************************************************************************)
EXTENDS AssistantEngine
=============================================================================
