--------------------------- MODULE MCAgentSession ---------------------------
(* Instances of AgentSession for TLC. *)
EXTENDS AgentSession, TLC

(* The prompts are alike. *)
Symmetric == Permutations(Prompts)
=============================================================================
