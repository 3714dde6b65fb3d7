----------------------------- MODULE KubeService ----------------------------
(***************************************************************************)
(* The Service of internal/kube as the router uses it: a command asks for  *)
(* the namespaces, for the rollout of a deployment, or about a pod.  All   *)
(* that calls share is the namespace cache; the rest is read from the API  *)
(* server anew each time, so what commands of one kind see does not depend *)
(* on those of another kind, and a behaviour follows one kind of command.  *)
(***************************************************************************)
EXTENDS NamespaceCache, Rollout, PodReads

VARIABLE object     \* what the commands of this behaviour are about

vars == <<object, cacheVars, rolloutVars, readVars>>

Objects == {"namespaces", "deployment", "pod"}

TypeOK ==
    object \in Objects /\ CacheTypeOK /\ RolloutTypeOK /\ ReadsTypeOK

Init ==
    /\ object \in Objects
    /\ CacheInit /\ RolloutInit /\ ReadsInit
    /\ object # "deployment" => replicas = Unset

Next ==
    \/ object = "namespaces" /\ CacheNext
       /\ UNCHANGED <<object, rolloutVars, readVars>>
    \/ object = "deployment" /\ RolloutNext
       /\ UNCHANGED <<object, cacheVars, readVars>>
    \/ object = "pod" /\ ReadsNext
       /\ UNCHANGED <<object, cacheVars, rolloutVars>>

Spec == Init /\ [][Next]_vars

============================================================================
