---------------------------- MODULE RolloutProofs ---------------------------
(***************************************************************************)
(* Proofs about Rollout, for any replica counts, any strategy and any      *)
(* number of changes.                                                      *)
(***************************************************************************)
EXTENDS Rollout, TLAPS

\* Counts of one generation are counts of its template; and what is available
\* is old, or counted as done.
StatusInv ==
    /\ status.observed = generation => status.template = template
    /\ status.done <= status.updated
    /\ status.available + status.updated <= status.total + status.done

\* Each number of pods is a natural number.
LEMMA PodsCounted ==
    ASSUME RolloutTypeOK
    PROVE  /\ \A r \in Revisions, s \in Stages : pods[<<r, s>>] \in Nat
           /\ \A s \in Stages : OfStage(s) \in Nat
           /\ \A r \in Revisions : OfRevision(r) \in Nat
           /\ Total \in Nat
<1>1. \A r \in Revisions, s \in Stages : pods[<<r, s>>] \in Nat
  BY DEF RolloutTypeOK
<1>2. \A s \in Stages : OfStage(s) \in Nat
  <2> SUFFICES ASSUME NEW s \in Stages PROVE pods[<<"old", s>>] + pods[<<"new", s>>] \in Nat
    BY DEF OfStage
  <2>1. pods[<<"old", s>>] \in Nat /\ pods[<<"new", s>>] \in Nat
    BY <1>1 DEF Revisions
  <2> QED BY <2>1
<1>3. \A r \in Revisions : OfRevision(r) \in Nat
  <2> SUFFICES ASSUME NEW r \in Revisions
               PROVE  pods[<<r, "starting">>] + pods[<<r, "ready">>]
                      + pods[<<r, "available">>] \in Nat
    BY DEF OfRevision
  <2>1. /\ pods[<<r, "starting">>] \in Nat /\ pods[<<r, "ready">>] \in Nat
        /\ pods[<<r, "available">>] \in Nat
    BY <1>1 DEF Stages
  <2> QED BY <2>1
<1> QED BY <1>1, <1>2, <1>3 DEF Total, Revisions

\* What the controller writes has the type of a status.
LEMMA CountedTyped ==
    ASSUME RolloutTypeOK
    PROVE  Counted \in [observed : 0..generation, updated : Nat, ready : Nat,
                        available : Nat, total : Nat, done : Nat, template : 0..generation]
<1>1. OfRevision("new") \in Nat /\ OfStage("ready") \in Nat /\ OfStage("available") \in Nat
  BY PodsCounted DEF Revisions, Stages
<1>2. pods[<<"new", "available">>] \in Nat /\ Total \in Nat
  BY PodsCounted DEF Revisions, Stages
<1>3. generation \in 0..generation /\ template \in 0..generation
  BY DEF RolloutTypeOK
<1> QED BY <1>1, <1>2, <1>3 DEF Counted

\* Every variable keeps its type.
THEOREM RolloutTyped == RolloutSpec => []RolloutTypeOK
<1>1. RolloutInit => RolloutTypeOK
  BY StrategyAssumption DEF RolloutInit, RolloutTypeOK
<1>2. RolloutTypeOK /\ [RolloutNext]_rolloutVars => RolloutTypeOK'
  <2> SUFFICES ASSUME RolloutTypeOK, [RolloutNext]_rolloutVars
               PROVE  RolloutTypeOK'
    OBVIOUS
  <2> USE StrategyAssumption
  <2>1. CASE ChangeTemplate
    <3>1. pods' \in [Revisions \X Stages -> Nat]
      BY <2>1, PodsCounted DEF ChangeTemplate
    <3>2. /\ generation' \in 1..MaxGeneration /\ template' \in 1..generation'
          /\ status' \in [observed : 0..generation', updated : Nat, ready : Nat,
                 available : Nat, total : Nat, done : Nat, template : 0..generation']
      BY <2>1 DEF ChangeTemplate, RolloutTypeOK
    <3> QED BY <2>1, <3>1, <3>2 DEF ChangeTemplate, RolloutTypeOK
  <2>2. ASSUME NEW n \in Sizes \cup {Unset}, Scale(n)
        PROVE  RolloutTypeOK'
    <3>1. /\ generation' \in 1..MaxGeneration /\ template' \in 1..generation'
          /\ status' \in [observed : 0..generation', updated : Nat, ready : Nat,
                 available : Nat, total : Nat, done : Nat, template : 0..generation']
      BY <2>2 DEF Scale, RolloutTypeOK
    <3> QED BY <2>2, <3>1 DEF Scale, RolloutTypeOK
  <2>3. CASE CreatePod
    <3>1. pods[<<"new", "starting">>] + 1 \in Nat
      BY PodsCounted DEF Revisions, Stages
    <3>2. pods' \in [Revisions \X Stages -> Nat]
      BY <2>3, <3>1 DEF CreatePod, RolloutTypeOK
    <3> QED BY <2>3, <3>2 DEF CreatePod, RolloutTypeOK
  <2>4. ASSUME NEW r \in Revisions, NEW s \in Stages, DeletePod(r, s)
        PROVE  RolloutTypeOK'
    <3>1. pods[<<r, s>>] - 1 \in Nat
      BY <2>4, PodsCounted DEF DeletePod
    <3>2. pods' \in [Revisions \X Stages -> Nat]
      BY <2>4, <3>1 DEF DeletePod, RolloutTypeOK
    <3> QED BY <2>4, <3>2 DEF DeletePod, RolloutTypeOK
  <2>5. CASE Count
    BY <2>5, CountedTyped DEF Count, RolloutTypeOK
  <2>6. ASSUME NEW r \in Revisions, NEW s \in Stages, NEW t \in Stages, PodMoves(r, s, t)
        PROVE  RolloutTypeOK'
    <3>1. pods[<<r, s>>] - 1 \in Nat /\ pods[<<r, t>>] + 1 \in Nat
      BY <2>6, PodsCounted DEF PodMoves
    <3>2. s # t
      BY <2>6 DEF PodMoves
    <3>3. pods' \in [Revisions \X Stages -> Nat]
      BY <2>6, <3>1, <3>2 DEF PodMoves, RolloutTypeOK
    <3> QED BY <2>6, <3>3 DEF PodMoves, RolloutTypeOK
  <2>7. CASE UNCHANGED rolloutVars
    BY <2>7 DEF rolloutVars, RolloutTypeOK
  <2> QED BY <2>1, <2>2, <2>3, <2>4, <2>5, <2>6, <2>7 DEF RolloutNext
<1> QED BY <1>1, <1>2, PTL DEF RolloutSpec

\* The counts in a status belong together, and to the template of their generation.
THEOREM StatusCoherent == RolloutSpec => []StatusInv
<1>1. RolloutInit => StatusInv
  BY DEF RolloutInit, StatusInv
<1>2. RolloutTypeOK /\ StatusInv /\ [RolloutNext]_rolloutVars => StatusInv'
  <2> SUFFICES ASSUME RolloutTypeOK, StatusInv, [RolloutNext]_rolloutVars
               PROVE  StatusInv'
    OBVIOUS
  <2>1. CASE ChangeTemplate \/ \E n \in Sizes \cup {Unset} : Scale(n)
    <3>1. status' = status /\ status.observed # generation'
      BY <2>1 DEF ChangeTemplate, Scale, RolloutTypeOK
    <3> QED BY <3>1 DEF StatusInv
  <2>2. CASE Count
    <3>1. /\ pods[<<"new", "starting">>] \in Nat /\ pods[<<"new", "ready">>] \in Nat
          /\ pods[<<"new", "available">>] \in Nat /\ pods[<<"old", "starting">>] \in Nat
          /\ pods[<<"old", "ready">>] \in Nat /\ pods[<<"old", "available">>] \in Nat
      BY PodsCounted DEF Revisions, Stages
    <3>2. /\ pods[<<"new", "available">>] <= OfRevision("new")
          /\ OfStage("available") + OfRevision("new") <= Total + pods[<<"new", "available">>]
      BY <3>1 DEF OfRevision, OfStage, Total
    <3> QED BY <2>2, <3>2 DEF Count, Counted, StatusInv
  <2>3. CASE UNCHANGED <<generation, template, status>>
    BY <2>3 DEF StatusInv
  <2>4. \/ ChangeTemplate \/ (\E n \in Sizes \cup {Unset} : Scale(n))
        \/ Count \/ UNCHANGED <<generation, template, status>>
    BY DEF RolloutNext, CreatePod, DeletePod, PodMoves, rolloutVars
  <2> QED BY <2>1, <2>2, <2>3, <2>4
<1> QED BY <1>1, <1>2, RolloutTyped, PTL DEF RolloutSpec

\* A rollout reported complete is of the template there is, and without surplus
\* pods all that is desired is updated and available (deployments.go:31-38).
THEOREM CompleteIsTrue == RolloutSpec => []CompleteWithoutSurplus
<1>1. RolloutTypeOK /\ StatusInv => CompleteWithoutSurplus
  <2> SUFFICES ASSUME RolloutTypeOK, StatusInv, Complete
               PROVE  /\ status.template = template
                      /\ status.total <= Desired => status.done = Desired
    BY DEF CompleteWithoutSurplus
  <2>1. /\ status.observed \in 0..generation /\ generation \in Nat
        /\ status.updated \in Nat /\ status.available \in Nat
        /\ status.total \in Nat /\ status.done \in Nat
    BY DEF RolloutTypeOK
  <2>2. status.observed = generation
    BY <2>1 DEF Complete
  <2> QED BY <2>1, <2>2 DEF StatusInv, Complete
<1> QED BY <1>1, RolloutTyped, StatusCoherent, PTL

\* A rollout that is over, and counted, is reported so (deployments.go:27-34).
THEOREM SettledReported == RolloutSpec => []SettledIsComplete
<1>1. RolloutTypeOK => SettledIsComplete
  <2> SUFFICES ASSUME RolloutTypeOK, pods[<<"new", "available">>] = Wanted, Total = Wanted,
                      status = Counted
               PROVE  Complete
    BY DEF SettledIsComplete
  <2>1. /\ pods[<<"new", "starting">>] \in Nat /\ pods[<<"new", "ready">>] \in Nat
        /\ pods[<<"new", "available">>] \in Nat /\ pods[<<"old", "starting">>] \in Nat
        /\ pods[<<"old", "ready">>] \in Nat /\ pods[<<"old", "available">>] \in Nat
    BY PodsCounted DEF Revisions, Stages
  <2>2. /\ OfRevision("new") = Wanted /\ OfStage("available") = Wanted
        /\ OfStage("ready") + OfStage("available") = Wanted
    BY <2>1 DEF OfRevision, OfStage, Total
  <2>3. Wanted = Desired /\ generation >= generation
    BY DEF Wanted, Desired, RolloutTypeOK
  <2> QED BY <2>2, <2>3 DEF Complete, Counted
<1> QED BY <1>1, RolloutTyped, PTL

============================================================================
