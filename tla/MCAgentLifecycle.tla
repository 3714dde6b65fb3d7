-------------------------- MODULE MCAgentLifecycle --------------------------
(* Symmetry for the TLC runs of AgentLifecycle. *)
EXTENDS AgentLifecycle, TLC

\* Tokens of one kind are only ever compared for equality.
Interchangeable == Permutations(Tokens) \cup Permutations(RegTokens)
============================================================================
