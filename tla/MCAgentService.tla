--------------------------- MODULE MCAgentService ---------------------------
(* Instances of AgentService for TLC. *)
EXTENDS AgentService, TLC

Interchangeable == Permutations(Requests)
=============================================================================
