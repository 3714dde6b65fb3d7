------------------------------ MODULE Rollout ------------------------------
(***************************************************************************)
(* GetRolloutStatus of internal/kube/deployments.go, asked at any moment   *)
(* of a deployment that is being changed, scaled and rolled out.           *)
(*                                                                         *)
(* The agent reads one object: the specification with its generation, and  *)
(* the status, which is what the deployment controller counted when it     *)
(* last looked.  It changes nothing, so its answer is a function of the    *)
(* state; every action is a step of the user, the controller or the        *)
(* kubelet.                                                                *)
(***************************************************************************)
EXTENDS Naturals

CONSTANTS
    Sizes,          \* replica counts the user may ask for
    Unset,          \* spec.replicas is nil
    MaxSurge,       \* of the rolling update strategy
    MaxUnavailable,
    MaxGeneration   \* bound on the generations explored

ASSUME SizesAssumption == Sizes \subseteq Nat /\ Unset \notin Nat
ASSUME StrategyAssumption ==
    MaxSurge \in Nat /\ MaxUnavailable \in Nat /\ MaxGeneration \in Nat \ {0}

VARIABLES
    generation,     \* metadata.generation
    template,       \* the generation that last changed the pod template
    replicas,       \* spec.replicas
    pods,           \* revision, stage -> how many pods
    status          \* what the controller counted

rolloutVars == <<generation, template, replicas, pods, status>>

Revisions == {"old", "new"}
Stages == {"starting", "ready", "available"}

OfRevision(r) == pods[<<r, "starting">>] + pods[<<r, "ready">>] + pods[<<r, "available">>]
OfStage(s) == pods[<<"old", s>>] + pods[<<"new", s>>]
Total == OfRevision("old") + OfRevision("new")

\* The status: of it the agent reads observed, updated, ready and available.  For
\* the properties it also says how many pods there were in all, how many of them
\* were up to date and available, and what the template was.
Counted ==
    [observed |-> generation, updated |-> OfRevision("new"),
     ready |-> OfStage("ready") + OfStage("available"),
     available |-> OfStage("available"),
     total |-> Total, done |-> pods[<<"new", "available">>], template |-> template]

RolloutTypeOK ==
    /\ generation \in 1..MaxGeneration /\ template \in 1..generation
    /\ replicas \in Sizes \cup {Unset}
    /\ pods \in [Revisions \X Stages -> Nat]
    /\ status \in [observed : 0..generation, updated : Nat, ready : Nat, available : Nat,
                   total : Nat, done : Nat, template : 0..generation]

RolloutInit ==
    /\ generation = 1 /\ template = 1 /\ replicas \in Sizes \cup {Unset}
    /\ pods = [p \in Revisions \X Stages |-> 0]
    /\ status = [observed |-> 0, updated |-> 0, ready |-> 0, available |-> 0,
                 total |-> 0, done |-> 0, template |-> 0]

----------------------------------------------------------------------------
(* GetRolloutStatus *)

\* Slip: no replicas field, no replicas.
Desired_zero == IF replicas = Unset THEN 0 ELSE replicas

Desired == IF replicas = Unset THEN 1 ELSE replicas

\* Slip: the counts alone, whatever they were counted for.
Complete_unobserved ==
    status.updated = Desired /\ status.ready = Desired /\ status.available = Desired

Complete ==
    /\ status.observed >= generation
    /\ status.updated = Desired /\ status.ready = Desired /\ status.available = Desired

----------------------------------------------------------------------------
(* The cluster *)

\* What the API server makes of a missing count.
Wanted == IF replicas = Unset THEN 1 ELSE replicas

\* The user changes the pod template to one that no pod there has: every pod
\* becomes an old one.  Going back to an earlier template is left out.
ChangeTemplate ==
    /\ generation < MaxGeneration
    /\ generation' = generation + 1 /\ template' = generation'
    /\ pods' = [p \in Revisions \X Stages |-> IF p[1] = "old" THEN OfStage(p[2]) ELSE 0]
    /\ UNCHANGED <<replicas, status>>

Scale(n) ==
    /\ generation < MaxGeneration /\ n # replicas
    /\ generation' = generation + 1 /\ replicas' = n
    /\ UNCHANGED <<template, pods, status>>

\* The controller adds an updated pod as far as the surge allows, ...
CreatePod ==
    /\ OfRevision("new") < Wanted /\ Total < Wanted + MaxSurge
    /\ pods' = [pods EXCEPT ![<<"new", "starting">>] = @ + 1]
    /\ UNCHANGED <<generation, template, replicas, status>>

\* ... removes an old one if enough stay available, or an updated one too many, ...
DeletePod(r, s) ==
    /\ pods[<<r, s>>] > 0
    /\ \/ r = "old" /\ (s = "available" => OfStage("available") + MaxUnavailable > Wanted)
       \/ r = "new" /\ OfRevision("new") > Wanted
    /\ pods' = [pods EXCEPT ![<<r, s>>] = @ - 1]
    /\ UNCHANGED <<generation, template, replicas, status>>

\* ... and writes the status.
Count ==
    /\ status' = Counted
    /\ UNCHANGED <<generation, template, replicas, pods>>

\* A pod becomes ready, then available, or stops being ready.
PodMoves(r, s, t) ==
    /\ <<s, t>> \in {<<"starting", "ready">>, <<"ready", "available">>,
                     <<"ready", "starting">>, <<"available", "starting">>}
    /\ pods[<<r, s>>] > 0
    /\ pods' = [pods EXCEPT ![<<r, s>>] = @ - 1, ![<<r, t>>] = @ + 1]
    /\ UNCHANGED <<generation, template, replicas, status>>

RolloutNext ==
    \/ ChangeTemplate \/ CreatePod \/ Count
    \/ \E n \in Sizes \cup {Unset} : Scale(n)
    \/ \E r \in Revisions, s \in Stages : DeletePod(r, s)
    \/ \E r \in Revisions, s, t \in Stages : PodMoves(r, s, t)

RolloutSpec == RolloutInit /\ [][RolloutNext]_rolloutVars

----------------------------------------------------------------------------
(* Properties *)

\* "rollout is complete" (deployments.go:31-38) is said of the template there is
\* now, and is true if no more pods were counted than are desired: then all of
\* them were up to date and available.  The counts may stem from another
\* generation than the specification they are read with.
CompleteWithoutSurplus ==
    Complete => /\ status.template = template
                /\ status.total <= Desired => status.done = Desired

\* A rollout that is over, and counted, is reported complete (deployments.go:27-34).
SettledIsComplete ==
    pods[<<"new", "available">>] = Wanted /\ Total = Wanted /\ status = Counted => Complete

\* "rollout is complete" (deployments.go:37): as many updated pods as desired are
\* available.
CompleteMeansRolledOut == Complete => status.done = Desired

============================================================================
