------------------------ MODULE NamespaceRefinement ------------------------
(* NamespaceCache implements NamespaceLists. *)
EXTENDS NamespaceCache

\* Between the look at the cache and the answer a command has asked.
Status == [c \in Callers |-> CASE pc[c] = "idle" -> "idle"
                               [] pc[c] = "returning" -> "answered"
                               [] OTHER -> "asked"]

Lists == INSTANCE NamespaceLists WITH status <- Status, MaxAge <- TTL + Timeout

\* ListNamespaces keeps its promise to every command: whichever caller runs the
\* fetch for the others, whenever its context ends and however late the cache is
\* filled, what commands see are the steps of the promise (namespaces.go:10-47).
KeepsListPromise == Lists!Spec

============================================================================
