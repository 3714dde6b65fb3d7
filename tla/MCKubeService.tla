---------------------------- MODULE MCKubeService ----------------------------
(* Symmetry and the requests for the TLC run of KubeService. *)
EXTENDS KubeService, NamespaceRefinement, TLC

\* Callers are only ever compared for equality.
Interchangeable == Permutations(Callers)

\* Below, at and above the limits.
TailRequests == -1..(MaxTailLines + 1)
============================================================================
