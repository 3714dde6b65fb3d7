--------------------------- MODULE ClientContract ---------------------------
(***************************************************************************)
(* What gateway.Client promises to the application that runs it, without   *)
(* goroutines, sockets or commands: sessions come and go, readiness is     *)
(* raised only inside one, and Run returns once, with a reason that is     *)
(* true.  GatewayRefinement shows that GatewayClient keeps the promise,    *)
(* and AgentLifecycle uses the promise in place of the client.             *)
(***************************************************************************)

VARIABLES
    mode,       \* "apart" from the gateway, in a "session", or "returned"
    outcome,    \* what Run returned
    ready,      \* the flag behind OnHeartbeat and OnConnectionState
    ctxDone,    \* the context handed to Run is cancelled
    denied      \* the gateway has refused this client's token at some time

vars == <<mode, outcome, ready, ctxDone, denied>>

TypeOK ==
    /\ mode \in {"apart", "session", "returned"}
    /\ outcome \in {"none", "canceled", "revoked"}
    /\ ready \in BOOLEAN /\ ctxDone \in BOOLEAN /\ denied \in BOOLEAN

Init ==
    /\ mode = "apart" /\ outcome = "none"
    /\ ready = FALSE /\ ctxDone = FALSE /\ denied = FALSE

Open ==
    /\ mode = "apart" /\ mode' = "session"
    /\ UNCHANGED <<outcome, ready, ctxDone, denied>>

\* A heartbeat got through.
Beat ==
    /\ mode = "session" /\ ready' = TRUE
    /\ UNCHANGED <<mode, outcome, ctxDone, denied>>

\* Slip: OnConnectionState is not wired to the health state.
Lose_keepsReady ==
    /\ mode = "session" /\ mode' = "apart"
    /\ UNCHANGED <<outcome, ready, ctxDone, denied>>

\* The session is lost; another one will be tried.
Lose ==
    /\ mode = "session" /\ mode' = "apart" /\ ready' = FALSE
    /\ UNCHANGED <<outcome, ctxDone, denied>>

\* Slip: Run returns before the connection state is reset.
Return_keepsReady(err) ==
    /\ mode \in {"apart", "session"} /\ mode' = "returned"
    /\ \/ err = "canceled" /\ ctxDone
       \/ err = "revoked" /\ denied
    /\ outcome' = err
    /\ UNCHANGED <<ready, ctxDone, denied>>

Return(err) ==
    /\ mode \in {"apart", "session"} /\ mode' = "returned"
    /\ \/ err = "canceled" /\ ctxDone
       \/ err = "revoked" /\ denied
    /\ outcome' = err /\ ready' = FALSE
    /\ UNCHANGED <<ctxDone, denied>>

Cancel ==
    /\ ~ctxDone /\ ctxDone' = TRUE
    /\ UNCHANGED <<mode, outcome, ready, denied>>

Deny ==
    /\ ~denied /\ denied' = TRUE
    /\ UNCHANGED <<mode, outcome, ready, ctxDone>>

Client == Open \/ Beat \/ Lose \/ \E err \in {"canceled", "revoked"} : Return(err)

Next == Client \/ Cancel \/ Deny

Spec == Init /\ [][Next]_vars

============================================================================
