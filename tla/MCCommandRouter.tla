-------------------------- MODULE MCCommandRouter --------------------------
(* One action of each shape: the four list actions differ only in the call *)
(* they make, and so do the named ones but for the logs switch.            *)
EXTENDS CommandRouter, TLC

CONSTANTS app, ops, sys

SomeActions == {Discover, ListNamespaces, "k8s.list_pods", "k8s.get_pod",
                GetPodLogs, "k8s.delete_pod"}

============================================================================
