------------------------ MODULE CommandRouterProofs ------------------------
(***************************************************************************)
(* Proofs about CommandRouter for every set of namespaces, every guard     *)
(* configuration that config.Validate accepts and every command.           *)
(*                                                                         *)
(* What is asked of the calls was settled when they were dispatched, and   *)
(* the configuration and the command do not change afterwards: CallInv     *)
(* carries the checks that were passed along with the set of calls.        *)
(***************************************************************************)
EXTENDS CommandRouter, TLAPS

\* What Init chooses and nothing changes.
GivenInv == allow \in (SUBSET Namespaces) \ {{}} /\ deny \subseteq Namespaces
            /\ cmd \in Commands

\* There are no calls but those of a command that passed every check.
CallInv ==
    /\ pc = "received" => DOMAIN call = {} /\ reply.code = "none"
    /\ DOMAIN call # {} =>
          /\ PolicyAllowsCommand /\ DecodeParams /\ NamespaceChecked
          /\ DOMAIN call = Targets
    /\ pc = "calling" => DOMAIN call = Targets
                         /\ PolicyAllowsCommand /\ DecodeParams /\ NamespaceChecked

\* A call that failed has left its error.
FailureInv ==
    /\ \A t \in DOMAIN call : call[t] \in {"pending", "ok", "failed"}
    /\ cause = "none" => \A t \in DOMAIN call : call[t] # "failed"
    /\ pc # "answered" => reply.code # "SUCCESS"

\* While no call has failed, only the connection can have cancelled the calls.
CancelInv == cause = "none" /\ ctx = "canceled" => connGone

Boundary == GivenInv /\ CallInv
Complete == GivenInv /\ CallInv /\ FailureInv /\ SuccessIsComplete

----------------------------------------------------------------------------
(* The guard and the policy, as operators *)

\* With an allowlist the namespaces a list covers, the ones list_namespaces
\* shows and the ones a command may name are the same set (allowlist.go).
LEMMA OneBoundary ==
  ASSUME GivenInv
  PROVE  /\ AllowedNamespaces = allow \ deny
         /\ \A ns \in Namespaces : Check(ns) <=> ns \in AllowedNamespaces
BY NamespacesAssumption DEF GivenInv, AllowedNamespaces, Check

\* A list without a namespace is for policies of mode "all".
LEMMA FanOutNeedsAll ==
  ASSUME GivenInv, PolicyAllowsCommand, FansOut
  PROVE  cmd.policy.mode = "all"
<1>1. cmd.policy.namespaces \subseteq Namespaces
  BY DEF GivenInv, Commands, Policies
<1>2. cmd.action \notin {Discover, ListNamespaces} /\ cmd.params.ns = NoNamespace
  BY DEF FansOut, ListActions, Discover, ListNamespaces
<1> QED BY <1>1, <1>2, NamespacesAssumption DEF PolicyAllowsCommand, NamespaceSelected

\* Every namespace a command that passed the checks is dispatched to is one
\* that guard and policy allow.
LEMMA TargetsAllowed ==
  ASSUME GivenInv, PolicyAllowsCommand, DecodeParams, NamespaceChecked,
         NEW t \in Targets \ {Cluster}
  PROVE  /\ t \in allow \ deny
         /\ cmd.policy.mode = "all" \/ t \in cmd.policy.namespaces
<1>1. cmd.action \notin {Discover, ListNamespaces}
  <2>1. Discover # ListNamespaces
    BY DEF Discover, ListNamespaces
  <2>2. CASE cmd.action = Discover
    <3>1. Targets = {Cluster}
      BY <2>1, <2>2 DEF Targets, FansOut, ListActions, Discover, ListNamespaces
    <3> QED BY <3>1
  <2>3. CASE cmd.action = ListNamespaces
    <3>1. Targets = {}
      BY <2>1, <2>3 DEF Targets, FansOut, ListActions, Discover, ListNamespaces
    <3> QED BY <3>1
  <2> QED BY <2>2, <2>3
<1>2. CASE FansOut
  <2>1. t \in AllowedNamespaces
    BY <1>1, <1>2 DEF Targets, FansOut, ListActions, Discover, ListNamespaces
  <2> QED BY <1>2, <2>1, OneBoundary, FanOutNeedsAll
<1>3. CASE ~FansOut
  <2>1. t = cmd.params.ns
    BY <1>1, <1>3 DEF Targets
  <2>2. cmd.params.ns \in Namespaces
    <3>1. cmd.params.ns # NoNamespace
      BY <1>1, <1>3 DEF DecodeParams, FansOut
    <3>2. cmd.params.ns \in Namespaces \cup {NoNamespace}
      BY DEF GivenInv, Commands, Params
    <3> QED BY <3>1, <3>2
  <2>3. t \in allow \ deny
    BY <1>1, <2>1, <2>2, OneBoundary DEF NamespaceChecked
  <2>4. cmd.policy.mode = "all" \/ t \in cmd.policy.namespaces
    BY <1>1, <2>1 DEF PolicyAllowsCommand, NamespaceSelected
  <2> QED BY <2>3, <2>4
<1> QED BY <1>2, <1>3

----------------------------------------------------------------------------
(* Steps *)

Refusals == DeniedByPolicy \/ RejectedCommand \/ RejectedParams \/ DeniedNamespace

LEMMA RefusalStep ==
  ASSUME Refusals
  PROVE  /\ pc = "received" /\ pc' = "answered"
         /\ reply'.code # "SUCCESS" /\ reply'.code # "none"
         /\ UNCHANGED <<given, call, cause, ctx, connGone>>
BY DEF Refusals, DeniedByPolicy, RejectedCommand, RejectedParams, DeniedNamespace, Refuse

\* Nothing changes the configuration or the command.
LEMMA GivenStays ==
  ASSUME [Next]_vars
  PROVE  UNCHANGED given
BY RefusalStep DEF Refusals, Next, vars, given, Dispatch, CallReturns, CallSucceeds,
   CallFails, CommandTimeout, ConnectionLost, Reply

LEMMA ChecksStay ==
  ASSUME UNCHANGED given
  PROVE  /\ GivenInv' <=> GivenInv
         /\ PolicyAllowsCommand' <=> PolicyAllowsCommand
         /\ DecodeParams' <=> DecodeParams
         /\ NamespaceChecked' <=> NamespaceChecked
         /\ Targets' = Targets /\ (FansOut' <=> FansOut)
         /\ AllowedNamespaces' = AllowedNamespaces
BY DEF given, GivenInv, PolicyAllowsCommand, NamespaceSelected, DecodeParams,
   NamespaceChecked, Check, Targets, FansOut, AllowedNamespaces

\* The checks of a dispatched command were passed, and its calls are its targets.
LEMMA BoundaryStep ==
  ASSUME Boundary, [Next]_vars
  PROVE  Boundary'
<1> USE DEF Boundary
<1>1. UNCHANGED given
  BY GivenStays
<1>2. GivenInv'
  BY <1>1, ChecksStay
<1>3. CASE Refusals
  BY <1>1, <1>3, RefusalStep, ChecksStay DEF CallInv
<1>4. CASE Dispatch
  BY <1>1, <1>4, ChecksStay DEF Dispatch, CallInv
<1>5. ASSUME NEW t \in Namespaces \cup {Cluster}, CallReturns(t)
      PROVE  CallInv'
  <2>1. pc = "calling" /\ pc' = pc /\ DOMAIN call' = DOMAIN call
    BY <1>5 DEF CallReturns, CallSucceeds, CallFails
  <2> QED BY <1>1, <2>1, ChecksStay DEF CallInv
<1>6. CASE CommandTimeout \/ ConnectionLost
  BY <1>1, <1>6, ChecksStay DEF CommandTimeout, ConnectionLost, CallInv
<1>7. CASE Reply
  BY <1>1, <1>7, ChecksStay DEF Reply, CallInv
<1>8. CASE UNCHANGED vars
  BY <1>1, <1>8, ChecksStay DEF vars, CallInv
<1> QED BY <1>2, <1>3, <1>4, <1>5, <1>6, <1>7, <1>8 DEF Next, Refusals

LEMMA BoundaryInit == Init => Boundary
BY DEF Init, Boundary, GivenInv, CallInv

----------------------------------------------------------------------------

\* Every namespaced read is within the guard and the policy, for every command
\* and every guard (client.go:256-287, router.go:45-345).
THEOREM ReadsBounded == Spec => []ReadsWithinBoundary
<1>1. Boundary => ReadsWithinBoundary
  BY TargetsAllowed DEF Boundary, CallInv, ReadsWithinBoundary
<1> QED BY <1>1, BoundaryInit, BoundaryStep, PTL DEF Spec

\* The calls and the answers of a command keep their types: the fan-out asks
\* only for namespaces that exist for it, and every cause has a code.
THEOREM RouterTyped == Spec => []TypeOK
<1>1. Init => TypeOK
  <2> SUFFICES ASSUME Init PROVE TypeOK
    OBVIOUS
  <2>1. call \in [{} -> {"pending", "ok", "failed"}]
    BY DEF Init
  <2>2. \E T \in SUBSET (Namespaces \cup {Cluster}) :
           call \in [T -> {"pending", "ok", "failed"}]
    BY <2>1
  <2>3. reply \in [code : Codes, from : SUBSET (Namespaces \cup {Cluster})]
    BY DEF Init, Codes
  <2> QED BY <2>2, <2>3 DEF Init, TypeOK
<1>2. Boundary /\ TypeOK /\ [Next]_vars => TypeOK'
  <2> SUFFICES ASSUME Boundary, TypeOK, [Next]_vars
               PROVE  TypeOK'
    OBVIOUS
  <2> DEFINE Answers == [code : Codes, from : SUBSET (Namespaces \cup {Cluster})]
             Calls(c) == \E T \in SUBSET (Namespaces \cup {Cluster}) :
                            c \in [T -> {"pending", "ok", "failed"}]
  <2>1. allow' = allow /\ deny' = deny /\ cmd' = cmd
    BY GivenStays DEF given
  <2>2. Calls(call) /\ reply \in Answers
    BY DEF TypeOK
  <2> USE <2>1, <2>2
  <2>3. CASE Refusals
    <3>1. ASSUME NEW code \in Codes, Refuse(code)
          PROVE  TypeOK'
      <4>1. reply' \in Answers
        BY <3>1 DEF Refuse
      <4> QED BY <3>1, <4>1 DEF Refuse, TypeOK
    <3> QED BY <2>3, <3>1 DEF Refusals, DeniedByPolicy, RejectedCommand, RejectedParams,
            DeniedNamespace, Codes
  <2>4. CASE Dispatch
    <3>1. Targets \in SUBSET (Namespaces \cup {Cluster})
      <4>1. allow \subseteq Namespaces
        BY DEF TypeOK
      <4> QED BY <2>4, <4>1, OneBoundary, TargetsAllowed DEF Dispatch, Boundary
    <3>2. call' \in [Targets -> {"pending", "ok", "failed"}]
      BY <2>4 DEF Dispatch
    <3>3. Calls(call')
      BY <3>1, <3>2
    <3> QED BY <2>4, <3>3 DEF Dispatch, TypeOK
  <2>5. ASSUME NEW t \in Namespaces \cup {Cluster}, CallReturns(t)
        PROVE  TypeOK'
    <3>1. PICK T \in SUBSET (Namespaces \cup {Cluster}) :
               call \in [T -> {"pending", "ok", "failed"}]
      OBVIOUS
    <3>2. call' \in [T -> {"pending", "ok", "failed"}]
      BY <2>5, <3>1 DEF CallReturns, CallSucceeds, CallFails
    <3>3. Calls(call')
      BY <3>2
    <3>4. cause' \in {"none"} \cup Causes /\ ctx' \in {"live", "canceled", "deadline"}
      BY <2>5 DEF CallReturns, CallSucceeds, CallFails, TypeOK
    <3> QED BY <2>5, <3>3, <3>4 DEF CallReturns, CallSucceeds, CallFails, TypeOK
  <2>6. CASE CommandTimeout \/ ConnectionLost
    BY <2>6 DEF CommandTimeout, ConnectionLost, TypeOK
  <2>7. CASE Reply
    <3>1. ClassifyError(cause) \in Codes
      BY DEF ClassifyError, Codes
    <3>2. AllowedNamespaces \subseteq Namespaces
      BY DEF AllowedNamespaces, TypeOK
    <3>3. reply' \in Answers
      <4>1. CASE cause # "none"
        BY <2>7, <3>1, <4>1 DEF Reply
      <4>2. CASE cause = "none"
        <5>1. "SUCCESS" \in Codes
          BY DEF Codes
        <5>2. {t \in DOMAIN call : call[t] = "ok"} \subseteq Namespaces \cup {Cluster}
          OBVIOUS
        <5> QED BY <2>7, <3>2, <4>2, <5>1, <5>2 DEF Reply
      <4> QED BY <4>1, <4>2
    <3> QED BY <2>7, <3>3 DEF Reply, TypeOK
  <2>8. CASE UNCHANGED vars
    BY <2>8 DEF vars, TypeOK
  <2> QED BY <2>3, <2>4, <2>5, <2>6, <2>7, <2>8 DEF Next, Refusals
<1> QED BY <1>1, <1>2, BoundaryInit, BoundaryStep, PTL DEF Spec

\* A success covers everything that was asked for (router.go:321-330).
THEOREM SuccessesComplete == Spec => []SuccessIsComplete
<1>1. Init => Complete
  BY BoundaryInit DEF Init, Complete, Boundary, FailureInv, SuccessIsComplete
<1>2. Complete /\ [Next]_vars => Complete'
  <2> SUFFICES ASSUME Complete, [Next]_vars
               PROVE  Complete'
    OBVIOUS
  <2>1. Boundary /\ Boundary' /\ UNCHANGED given
    BY BoundaryStep, GivenStays DEF Complete, Boundary
  <2> SUFFICES FailureInv' /\ SuccessIsComplete'
    BY <2>1 DEF Complete, Boundary
  <2>3. CASE Refusals
    BY <2>3, RefusalStep DEF Complete, FailureInv, SuccessIsComplete
  <2>4. CASE Dispatch
    BY <2>4 DEF Dispatch, Complete, FailureInv, SuccessIsComplete
  <2>5. ASSUME NEW t \in Namespaces \cup {Cluster}, CallReturns(t)
        PROVE  FailureInv' /\ SuccessIsComplete'
    BY <2>5 DEF CallReturns, CallSucceeds, CallFails, Complete, FailureInv,
       SuccessIsComplete, Causes, ApiErrors
  <2>6. CASE CommandTimeout \/ ConnectionLost
    BY <2>6 DEF CommandTimeout, ConnectionLost, Complete, FailureInv, SuccessIsComplete
  <2>7. CASE Reply
    <3>1. FailureInv'
      BY <2>7 DEF Reply, Complete, FailureInv
    <3>2. ASSUME reply'.code = "SUCCESS"
          PROVE  reply'.from = CASE cmd.action = Discover -> {Cluster}
                                 [] FansOut \/ cmd.action = ListNamespaces -> allow \ deny
                                 [] OTHER -> {cmd.params.ns}
      <4>1. cause = "none"
        BY <2>7, <3>2 DEF Reply, ClassifyError
      <4>2. reply'.from = IF cmd.action = ListNamespaces THEN AllowedNamespaces
                          ELSE {t \in DOMAIN call : call[t] = "ok"}
        BY <2>7, <4>1 DEF Reply
      <4>3. {t \in DOMAIN call : call[t] = "ok"} = Targets
        BY <2>1, <2>7, <4>1 DEF Reply, Complete, FailureInv, Boundary, CallInv
      <4>4. AllowedNamespaces = allow \ deny
        BY <2>1, OneBoundary DEF Boundary
      <4> QED BY <4>2, <4>3, <4>4 DEF Targets, FansOut, Discover, ListNamespaces, ListActions
    <3> QED BY <2>1, <3>1, <3>2, ChecksStay DEF SuccessIsComplete, given
  <2>8. CASE UNCHANGED vars
    BY <2>8 DEF vars, Complete, FailureInv, SuccessIsComplete, FansOut
  <2> QED BY <2>3, <2>4, <2>5, <2>6, <2>7, <2>8 DEF Next, Refusals
<1>3. Complete => SuccessIsComplete
  BY DEF Complete
<1> QED BY <1>1, <1>2, <1>3, PTL DEF Spec

\* The error a fan-out reports is never the cancellation its own first failure
\* caused (router.go:302-323).
THEOREM ErrorsAreCauses == Spec => []ErrorIsCause
<1>1. Init => CancelInv /\ ErrorIsCause
  BY DEF Init, CancelInv, ErrorIsCause
<1>2. CancelInv /\ ErrorIsCause /\ [Next]_vars => CancelInv' /\ ErrorIsCause'
  <2> SUFFICES ASSUME CancelInv, ErrorIsCause, [Next]_vars
               PROVE  CancelInv' /\ ErrorIsCause'
    OBVIOUS
  <2> USE DEF CancelInv, ErrorIsCause
  <2>1. CASE Refusals
    BY <2>1, RefusalStep
  <2>2. CASE Dispatch \/ Reply \/ CommandTimeout \/ ConnectionLost
    BY <2>2 DEF Dispatch, Reply, CommandTimeout, ConnectionLost
  <2>3. ASSUME NEW t \in Namespaces \cup {Cluster}, CallReturns(t)
        PROVE  CancelInv' /\ ErrorIsCause'
    BY <2>3 DEF CallReturns, CallSucceeds, CallFails, Causes, ApiErrors
  <2>4. CASE UNCHANGED vars
    BY <2>4 DEF vars
  <2> QED BY <2>1, <2>2, <2>3, <2>4 DEF Next, Refusals
<1> QED BY <1>1, <1>2, PTL DEF Spec

============================================================================
