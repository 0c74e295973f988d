----------------------------- MODULE MCAgentLoop -----------------------------
(***************************************************************************)
(* AgentLoop with plans of two steps and budgets small enough for tool      *)
(* calls, failures and time to run out alone and together.                  *)
(***************************************************************************)
EXTENDS AgentLoop

=============================================================================
