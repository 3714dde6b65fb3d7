------------------------- MODULE KubeServiceProofs -------------------------
(***************************************************************************)
(* Proofs about KubeService.  Every behaviour of the service is, seen from *)
(* one of its parts, a behaviour of that part: commands of another kind    *)
(* stutter.  So what is proved of a part holds of the service.             *)
(***************************************************************************)
EXTENDS KubeService, NamespaceCacheProofs, RolloutProofs, PodReadsProofs

\* Commands about pods and deployments leave the namespace cache alone.
THEOREM ServiceCaches == Spec => CacheSpec
<1>1. Init => CacheInit
  BY DEF Init
<1>2. [Next]_vars => [CacheNext]_cacheVars
  BY DEF Next, vars
<1> QED
  BY <1>1, <1>2, PTL DEF Spec, CacheSpec

\* Nothing the agent reads changes a deployment.
THEOREM ServiceWatchesRollouts == Spec => RolloutSpec
<1>1. Init => RolloutInit
  BY DEF Init
<1>2. [Next]_vars => [RolloutNext]_rolloutVars
  BY DEF Next, vars
<1> QED
  BY <1>1, <1>2, PTL DEF Spec, RolloutSpec

\* What commands about namespaces and deployments do is not seen by those about pods.
THEOREM ServiceReadsPods == Spec => ReadsSpec
<1>1. Init => ReadsInit
  BY DEF Init
<1>2. [Next]_vars => [ReadsNext]_readVars
  BY DEF Next, vars
<1> QED
  BY <1>1, <1>2, PTL DEF Spec, ReadsSpec

\* Every variable of the service keeps its type.
THEOREM ServiceTyped == Spec => []TypeOK
<1>1. Init => object \in Objects
  BY DEF Init
<1>2. object \in Objects /\ [Next]_vars => (object \in Objects)'
  BY DEF Next, vars
<1>3. Spec => [](object \in Objects)
  BY <1>1, <1>2, PTL DEF Spec
<1>4. Spec => []CacheTypeOK
  BY ServiceCaches, CacheTyped, PTL
<1>5. Spec => []RolloutTypeOK
  BY ServiceWatchesRollouts, RolloutTyped, PTL
<1>6. Spec => []ReadsTypeOK
  BY ServiceReadsPods, ReadsTyped, PTL
<1>7. object \in Objects /\ CacheTypeOK /\ RolloutTypeOK /\ ReadsTypeOK => TypeOK
  BY DEF TypeOK
<1> QED
  BY <1>3, <1>4, <1>5, <1>6, <1>7, PTL

\* Answers about namespaces: the lists of commands do not go back in time, are not
\* old, and reach every command by its deadline, whatever else the service is asked.
THEOREM ServiceListsTrue == Spec => [](NeverOlder /\ BoundedAge /\ NobodyOverstays)
BY ServiceCaches, ListsNeverOlder, ListsYoung, WaitsBounded, PTL

\* The same as one specification: the service keeps the promise of ListNamespaces.
THEOREM ServiceKeepsListPromise == Spec => KeepsListPromise
BY ServiceCaches, PromiseKept, PTL

\* Answers about rollouts: "complete" is true of the present template, and said of
\* a rollout that is over and counted.
THEOREM ServiceRolloutsTrue == Spec => [](CompleteWithoutSurplus /\ SettledIsComplete)
BY ServiceWatchesRollouts, CompleteIsTrue, SettledReported, PTL

\* Answers about a pod: its own events, the telling ones among them, none only if
\* there are none, and a log within the limits.
THEOREM ServicePodsTrue ==
  Spec => [](EventsOfThePod /\ TellingEventsKept /\ NoEventsMeansNone /\ LogsWithinLimits)
BY ServiceReadsPods, EventsBelong, TellingKept, NoneIsTold, LogsBounded, PTL

============================================================================
