---------------------------- MODULE MCAgentTick -----------------------------
(* Small instances of AgentTick for TLC. *)
EXTENDS AgentTick, TLC
=============================================================================
