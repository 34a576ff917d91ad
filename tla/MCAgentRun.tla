----------------------------- MODULE MCAgentRun -----------------------------
(***************************************************************************)
(* Small instances of AgentRun.                                            *)
(***************************************************************************)
EXTENDS AgentRun

CONSTANTS k1, k2
=============================================================================
