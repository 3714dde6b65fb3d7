------------------------- MODULE GatewayRefinement -------------------------
(* GatewayClient implements ClientContract. *)
EXTENDS GatewayClient

\* A session lasts from the successful dial until serveConnection has joined
\* every goroutine it started.
Mode == IF pc \in Session THEN "session" ELSE IF pc = "returned" THEN pc ELSE "apart"

Outcome == IF pc = "returned" THEN result ELSE "none"

Contract == INSTANCE ClientContract WITH
    mode <- Mode, outcome <- Outcome, denied <- (access = "revoked")

\* The client keeps its promise to the application: whatever its goroutines
\* interleave to, the application sees only the steps of the contract; in
\* particular readiness is never left up by a session that is over, and Run
\* returns "revoked" or "canceled" only with cause (client.go:105-187).
ImplementsContract == Contract!Spec

============================================================================
