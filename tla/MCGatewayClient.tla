-------------------------- MODULE MCGatewayClient --------------------------
(* Model values and symmetry for the TLC runs of GatewayClient and its refinement. *)
EXTENDS GatewayRefinement, TLC

\* Ids and slots are only ever compared for equality.
Interchangeable == Permutations(Ids) \cup Permutations(Slots)
============================================================================
