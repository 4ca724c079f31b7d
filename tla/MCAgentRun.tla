----------------------------- MODULE MCAgentRun -----------------------------
(* AgentRun with a few runs and permission requests.                       *)
EXTENDS AgentRun, TLC

Symmetry == Permutations(Runs) \cup Permutations(Tickets)
=============================================================================
