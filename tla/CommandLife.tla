----------------------------- MODULE CommandLife -----------------------------
(***************************************************************************)
(* What a gateway client promises about each command id, without sessions, *)
(* timers or slots: it is claimed when it is not remembered, given to one  *)
(* handler at most, and remembered until well after that handler is done.  *)
(* SessionRefinement shows that SessionClock keeps the promise.            *)
(***************************************************************************)
EXTENDS Naturals, FiniteSets

CONSTANTS
    Ids,
    MaxRemembered,  \* how many ids are remembered at a time
    Parallel        \* how many handlers work at a time

VARIABLE life       \* id -> unknown, held (waiting for a handler), working or done

In(stage) == {i \in Ids : life[i] = stage}

Init == life = [i \in Ids |-> "unknown"]

\* The gateway's command is taken: one at a time, and only if it is not remembered.
Claim(i) ==
    /\ i \in In("unknown") /\ In("held") = {}
    /\ Cardinality(Ids \ In("unknown")) < MaxRemembered
    /\ life' = [life EXCEPT ![i] = "held"]

Begin(i) ==
    /\ i \in In("held") /\ Cardinality(In("working")) < Parallel
    /\ life' = [life EXCEPT ![i] = "working"]

End(i) ==
    /\ i \in In("working")
    /\ life' = [life EXCEPT ![i] = "done"]

\* The session is over: what was under way is dropped, and stays remembered.
Abandon ==
    life' = [i \in Ids |-> IF life[i] \in {"held", "working"} THEN "done" ELSE life[i]]

\* Time passes: what was done long ago is forgotten, and nothing else.
Forget ==
    \E old \in SUBSET In("done") :
        life' = [i \in Ids |-> IF i \in old THEN "unknown" ELSE life[i]]

\* A client with an empty memory takes over, with nothing under way.
StartOver ==
    /\ In("held") = {} /\ In("working") = {}
    /\ life' = [i \in Ids |-> "unknown"]

Next ==
    \/ \E i \in Ids : Claim(i) \/ Begin(i) \/ End(i)
    \/ Abandon \/ Forget \/ StartOver

Spec == Init /\ [][Next]_life

============================================================================
