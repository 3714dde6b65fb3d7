------------------------- MODULE SessionRefinement -------------------------
(* SessionClock implements CommandLife. *)
EXTENDS SessionClock

Working == {running[s] : s \in Slots} \ {NoId}

\* Where a command is: one that is remembered and neither waits nor runs is done.
Life == [i \in Ids |-> CASE i = claimed -> "held"
                         [] i \in Working -> "working"
                         [] i \in Live \ (Working \cup {claimed}) -> "done"
                         [] OTHER -> "unknown"]

Commands == INSTANCE CommandLife WITH life <- Life, Parallel <- Cardinality(Slots)

\* Whatever times out, is lost or comes again, a command goes from claim to handler
\* to end as promised, and is not forgotten on the way: the ten minutes, counted
\* from the claim, cover the wait for a slot and the handler (client.go:230-253,
\* 294-312, 350).
KeepsCommandLife == Commands!Spec

============================================================================
