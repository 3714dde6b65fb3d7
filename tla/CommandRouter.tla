--------------------------- MODULE CommandRouter ---------------------------
(***************************************************************************)
(* What happens to one command after it is read: the access policy the     *)
(* workspace attached to it (policyAllowsCommand, internal/gateway), the   *)
(* router (internal/commands), the namespace guard (internal/security) and *)
(* the calls to the Kubernetes API, fanned out over an errgroup when the   *)
(* command names no namespace.                                             *)
(*                                                                         *)
(* Handlers share nothing but the configuration, so one command is         *)
(* followed to its answer.  Names are atoms; the data of an answer is the  *)
(* set of namespaces it was read from.                                     *)
(***************************************************************************)
EXTENDS FiniteSets

CONSTANTS
    Namespaces,     \* namespaces of the cluster
    System,         \* defaultDeniedNamespaces
    NoNamespace,    \* the empty string in "namespace"
    Cluster,        \* target of the one cluster-scoped call
    Actions         \* actions the gateway sends, supported or not

ASSUME NamespacesAssumption ==
    System \subseteq Namespaces /\ NoNamespace \notin Namespaces
    /\ Cluster \notin Namespaces /\ Cluster # NoNamespace

Discover       == "agent.discover_namespaces"
ListNamespaces == "k8s.list_namespaces"
GetPodLogs     == "k8s.get_pod_logs"
ListActions    == {"k8s.list_pods", "k8s.list_events", "k8s.list_deployments",
                   "k8s.list_services"}
NamedActions   == {"k8s.get_pod", GetPodLogs, "k8s.get_rollout_status",
                   "k8s.describe_pod"}
AllowedActions == {Discover, ListNamespaces} \cup ListActions \cup NamedActions

\* "params" of a command: missing, not an object with a string namespace, an
\* object whose other fields have the wrong type, or as documented.
Params == [form : {"absent", "garbled"}, ns : {NoNamespace}, named : {FALSE}]
          \cup [form : {"mistyped"}, ns : Namespaces \cup {NoNamespace}, named : {FALSE}]
          \cup [form : {"proper"}, ns : Namespaces \cup {NoNamespace}, named : BOOLEAN]

\* The policy; "none" stands for a missing one and for version < 1.
Policies == [mode : {"none", "invalid"}, namespaces : {{}}, logs : {FALSE}]
            \cup [mode : {"all"}, namespaces : {{}}, logs : BOOLEAN]
            \cup [mode : {"selected"}, namespaces : SUBSET Namespaces, logs : BOOLEAN]

Commands == [hasId : BOOLEAN, action : Actions, params : Params, policy : Policies]

VARIABLES
    allow, deny,    \* NamespaceGuard, fixed when the agent starts
    cmd,            \* the command
    pc,             \* "received", "calling" or "answered"
    call,           \* API call (by namespace) -> pending, ok, failed
    cause,          \* the error the router will see, "none" so far
    ctx,            \* context of the calls: live, or the error it ended with
    connGone,       \* the connection context was cancelled under the command
    reply           \* the answer: its code and where its data come from

given == <<allow, deny, cmd>>
vars == <<allow, deny, cmd, pc, call, cause, ctx, connGone, reply>>

ApiErrors == {"notFound", "forbidden", "other"}
Causes    == ApiErrors \cup {"canceled", "deadline"}
Codes     == {"none", "SUCCESS", "POLICY_DENIED", "INVALID_COMMAND",
              "UNSUPPORTED_ACTION", "INVALID_PARAMS", "NAMESPACE_DENIED",
              "TIMEOUT", "NOT_FOUND", "RBAC_DENIED", "INTERNAL_ERROR"}

----------------------------------------------------------------------------
(* The guard *)

Check(ns) ==
    \/ ns = NoNamespace
    \/ ns \notin deny /\ (allow = {} \/ ns \in allow)

AllowedNamespaces == {ns \in allow : Check(ns)}

----------------------------------------------------------------------------
(* The policy *)

\* Slip: a command without a namespace is left to the router.
NamespaceSelected_emptyPasses ==
    \/ cmd.params.form = "absent"
    \/ cmd.params.ns \in cmd.policy.namespaces \cup {NoNamespace}

\* Mode "selected" needs a namespace, and one of the list: params that are
\* missing or do not decode have none.
NamespaceSelected ==
    /\ cmd.params.form \notin {"absent", "garbled"}
    /\ cmd.params.ns \in cmd.policy.namespaces

PolicyAllowsCommand ==
    \/ cmd.action = Discover
    \/ /\ cmd.policy.mode \in {"selected", "all"}
       /\ cmd.action = GetPodLogs => cmd.policy.logs
       /\ cmd.policy.mode = "all" \/ cmd.action = ListNamespaces \/ NamespaceSelected

----------------------------------------------------------------------------
(* The router *)

ValidateCommand == cmd.hasId /\ cmd.action \in AllowedActions

\* decodeParams and the required fields.  No params decode as empty ones; the
\* list actions have no field but the namespace to get wrong.
DecodeParams ==
    \/ cmd.action \in {Discover, ListNamespaces}
    \/ cmd.action \in ListActions /\ cmd.params.form # "garbled"
    \/ cmd.action \in NamedActions /\ cmd.params.named /\ cmd.params.ns # NoNamespace

\* The two actions that are about no namespace decode no params.
NamespaceChecked ==
    cmd.action \in {Discover, ListNamespaces} \/ Check(cmd.params.ns)

FansOut == cmd.action \in ListActions /\ cmd.params.ns = NoNamespace

\* Slip: the missing namespace goes to the API, where it means all of them.
Targets_unexpanded ==
    CASE cmd.action = Discover       -> {Cluster}
      [] cmd.action = ListNamespaces -> {}
      [] OTHER                       -> {cmd.params.ns}

Targets ==
    CASE cmd.action = Discover       -> {Cluster}
      [] cmd.action = ListNamespaces -> {}
      [] FansOut                     -> AllowedNamespaces
      [] OTHER                       -> {cmd.params.ns}

\* The error codes of classifyError.  A cancelled context has none of its own.
ClassifyError(err) ==
    CASE err = "deadline"  -> "TIMEOUT"
      [] err = "notFound"  -> "NOT_FOUND"
      [] err = "forbidden" -> "RBAC_DENIED"
      [] OTHER             -> "INTERNAL_ERROR"

\* NewNamespaceGuard.  config.Validate wants an allowlist; the denylist is free, also
\* an empty one, and where it is not set it is the system namespaces.
Init ==
    /\ allow \in (SUBSET Namespaces) \ {{}} /\ deny \in SUBSET Namespaces
    /\ cmd \in Commands /\ pc = "received"
    /\ call = <<>> /\ cause = "none" /\ ctx = "live" /\ connGone = FALSE
    /\ reply = [code |-> "none", from |-> {}]

Refuse(code) ==
    /\ pc = "received"
    /\ pc' = "answered" /\ reply' = [code |-> code, from |-> {}]
    /\ UNCHANGED <<given, call, cause, ctx, connGone>>

DeniedByPolicy == ~PolicyAllowsCommand /\ Refuse("POLICY_DENIED")

RejectedCommand ==
    /\ PolicyAllowsCommand /\ ~ValidateCommand
    /\ Refuse(IF cmd.action \in AllowedActions
              THEN "INVALID_COMMAND" ELSE "UNSUPPORTED_ACTION")

RejectedParams ==
    /\ PolicyAllowsCommand /\ ValidateCommand /\ ~DecodeParams
    /\ Refuse("INVALID_PARAMS")

DeniedNamespace ==
    /\ PolicyAllowsCommand /\ ValidateCommand /\ DecodeParams /\ ~NamespaceChecked
    /\ Refuse("NAMESPACE_DENIED")

\* The calls start, under a context with the command timeout.
Dispatch ==
    /\ pc = "received"
    /\ PolicyAllowsCommand /\ ValidateCommand /\ DecodeParams /\ NamespaceChecked
    /\ pc' = "calling" /\ call' = [t \in Targets |-> "pending"]
    /\ UNCHANGED <<given, cause, ctx, connGone, reply>>

CallSucceeds(t) ==
    /\ pc = "calling" /\ t \in DOMAIN call /\ call[t] = "pending"
    /\ call' = [call EXCEPT ![t] = "ok"]
    /\ UNCHANGED <<given, pc, cause, ctx, connGone, reply>>

\* Slip: the errors are collected and the last one is reported.
CallFails_lastWins(t, err) ==
    /\ pc = "calling" /\ t \in DOMAIN call /\ call[t] = "pending"
    /\ err \in ApiErrors \/ err = ctx
    /\ call' = [call EXCEPT ![t] = "failed"]
    /\ cause' = err
    /\ ctx' = IF FansOut /\ ctx = "live" THEN "canceled" ELSE ctx
    /\ UNCHANGED <<given, pc, connGone, reply>>

\* Slip: a namespace RBAC does not cover is skipped.
CallFails_skipsForbidden(t, err) ==
    /\ pc = "calling" /\ t \in DOMAIN call /\ call[t] = "pending"
    /\ err \in ApiErrors \/ err = ctx
    /\ call' = [call EXCEPT ![t] = "failed"]
    /\ cause' = IF cause = "none" /\ err # "forbidden" THEN err ELSE cause
    /\ ctx' = IF FansOut /\ ctx = "live" THEN "canceled" ELSE ctx
    /\ UNCHANGED <<given, pc, connGone, reply>>

\* The API refuses, or the context of the call has ended.  errgroup keeps the
\* first error and cancels the context of the other calls with it.
CallFails(t, err) ==
    /\ pc = "calling" /\ t \in DOMAIN call /\ call[t] = "pending"
    /\ err \in ApiErrors \/ err = ctx
    /\ call' = [call EXCEPT ![t] = "failed"]
    /\ cause' = IF cause = "none" THEN err ELSE cause
    /\ ctx' = IF FansOut /\ ctx = "live" THEN "canceled" ELSE ctx
    /\ UNCHANGED <<given, pc, connGone, reply>>

\* Slip: the handler runs under the connection context.
CommandTimeout_missing ==
    /\ FALSE
    /\ UNCHANGED vars

\* The deadline of the command passes.
CommandTimeout ==
    /\ pc = "calling" /\ ctx = "live"
    /\ ctx' = "deadline"
    /\ UNCHANGED <<given, pc, call, cause, connGone, reply>>

\* serveConnection cancels the connection context, the parent of every command.
ConnectionLost ==
    /\ pc = "calling" /\ ~connGone
    /\ connGone' = TRUE
    /\ ctx' = IF ctx = "live" THEN "canceled" ELSE ctx
    /\ UNCHANGED <<given, pc, call, cause, reply>>

\* g.Wait() or the return of the single call, and the answer built from it.
\* list_namespaces answers with the allowlist itself.
Reply ==
    /\ pc = "calling" /\ \A t \in DOMAIN call : call[t] # "pending"
    /\ pc' = "answered"
    /\ reply' =
         IF cause # "none" THEN [code |-> ClassifyError(cause), from |-> {}]
         ELSE [code |-> "SUCCESS",
               from |-> IF cmd.action = ListNamespaces THEN AllowedNamespaces
                        ELSE {t \in DOMAIN call : call[t] = "ok"}]
    /\ UNCHANGED <<given, call, cause, ctx, connGone>>

CallReturns(t) == CallSucceeds(t) \/ \E err \in Causes : CallFails(t, err)

Next ==
    \/ DeniedByPolicy \/ RejectedCommand \/ RejectedParams \/ DeniedNamespace
    \/ Dispatch
    \/ \E t \in Namespaces \cup {Cluster} : CallReturns(t)
    \/ CommandTimeout \/ ConnectionLost \/ Reply

Spec == Init /\ [][Next]_vars

\* client-go returns once its context has ended, the deadline timer fires, and
\* the goroutine that waits for the calls is scheduled.
Fairness ==
    /\ \A t \in Namespaces \cup {Cluster} : WF_vars(ctx # "live" /\ CallReturns(t))
    /\ WF_vars(CommandTimeout) /\ WF_vars(Reply)

FairSpec == Spec /\ Fairness

----------------------------------------------------------------------------
(* Properties *)

\* Every variable has its type.
TypeOK ==
    /\ allow \subseteq Namespaces /\ deny \subseteq Namespaces
    /\ pc \in {"received", "calling", "answered"} /\ cmd \in Commands
    /\ \E T \in SUBSET (Namespaces \cup {Cluster}) :
          call \in [T -> {"pending", "ok", "failed"}]
    /\ cause \in {"none"} \cup Causes
    /\ ctx \in {"live", "canceled", "deadline"} /\ connGone \in BOOLEAN
    /\ reply \in [code : Codes, from : SUBSET (Namespaces \cup {Cluster})]

\* Whatever a command names or leaves out, and however its params are broken,
\* the namespaces it makes the agent read are within the guard and, in mode
\* "selected", within the list of its policy.  Policy, decoding, guard and
\* fan-out each decide a part of this (client.go:256-287, router.go:69-345).
ReadsWithinBoundary ==
    \A t \in DOMAIN call \ {Cluster} :
        /\ t \in allow \ deny
        /\ cmd.policy.mode = "all" \/ t \in cmd.policy.namespaces

\* A successful list is complete: it covers exactly the namespaces that
\* list_namespaces shows, or the one that was named.  No failed, skipped or
\* cancelled call hides behind a success (router.go:321-330).
SuccessIsComplete ==
    reply.code = "SUCCESS" =>
        reply.from = CASE cmd.action = Discover -> {Cluster}
                       [] FansOut \/ cmd.action = ListNamespaces -> allow \ deny
                       [] OTHER -> {cmd.params.ns}

\* The error the user sees is what went wrong first: a fan-out never answers
\* with the cancellation its own first failure caused (router.go:302-323).
ErrorIsCause == cause = "canceled" => connGone

\* A command that started API calls is answered, even when the API never
\* answers: the command timeout ends them (client.go:350).
CommandAnswered == pc = "calling" ~> pc = "answered"

\* "System namespaces are always blocked: kube-system, kube-public,
\* kube-node-lease." (README.md:101)
SystemNamespacesBlocked == DOMAIN call \cap System = {}

============================================================================
