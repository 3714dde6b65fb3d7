-------------------------- MODULE MCSessionClock --------------------------
(* Symmetry for the TLC runs of SessionClock. *)
EXTENDS SessionRefinement, TLC

\* Ids and slots are only ever compared for equality.
Interchangeable == Permutations(Ids) \cup Permutations(Slots)
============================================================================
