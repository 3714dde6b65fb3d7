------------------------ MODULE NamespaceCacheProofs ------------------------
(***************************************************************************)
(* Proofs about NamespaceCache, for any number of callers, any lifetime of *)
(* the cache and any command timeout.                                      *)
(***************************************************************************)
EXTENDS NamespaceRefinement, TLAPS

\* The caller that runs the call waits for it, and has waited the longest.
FlightInv ==
    /\ flight # "none" => leader \in Waiting
    /\ \A c \in Waiting : flight # "none" /\ start[leader] <= start[c]
    /\ \A c \in Callers : pc[c] = "missed" => start[c] = now

\* The list on its way to the cache is at least as new as the one in it, which
\* is at least as new as any list an answer has shown.
OrderInv ==
    /\ newest <= cached
    /\ \A c \in Callers : floor[c] <= newest
    /\ flight = "fetching" => cached <= start[leader]
    /\ flight = "fetched" => cached <= snap
    /\ flight = "filled" => cached = snap
    /\ \A c \in Callers : pc[c] = "returning" =>
          got[c] <= cached /\ (got[c] # 0 => floor[c] <= got[c])

\* A fetch is over within one command timeout, and what it brought is not older
\* than its beginning.
AgeInv ==
    /\ flight # "none" => now <= start[leader] + Timeout
    /\ flight \in {"fetched", "filled"} => start[leader] <= snap
    /\ cached # 0 => cachedAt <= cached + Timeout
    /\ \A c \in Callers :
          pc[c] = "returning" /\ got[c] # 0 => now < got[c] + TTL + Timeout

----------------------------------------------------------------------------

\* Every variable keeps its type, and times stay in the past.
THEOREM CacheTyped == CacheSpec => [](CacheTypeOK /\ FlightInv)
<1> USE DEF CacheTypeOK, FlightInv, Waiting
<1>1. CacheInit => CacheTypeOK /\ FlightInv
  BY DEF CacheInit
<1>2. CacheTypeOK /\ FlightInv /\ [CacheNext]_cacheVars => CacheTypeOK' /\ FlightInv'
  <2> SUFFICES ASSUME CacheTypeOK, FlightInv, [CacheNext]_cacheVars
               PROVE  CacheTypeOK' /\ FlightInv'
    OBVIOUS
  <2> USE TimesAssumption, CallersAssumption
  <2>1. ASSUME NEW c \in Callers, ListNamespaces(c)
        PROVE  CacheTypeOK' /\ FlightInv'
    <3>1. CacheTypeOK'
      BY <2>1 DEF ListNamespaces, Idle, storeVars, flightVars
    <3> QED BY <2>1, <3>1 DEF ListNamespaces, Idle, storeVars, flightVars
  <2>2. ASSUME NEW c \in Callers, Do(c)
        PROVE  CacheTypeOK' /\ FlightInv'
    <3>1. CacheTypeOK'
      BY <2>2 DEF Do, storeVars
    <3>2. CASE flight = "none"
      BY <2>2, <3>1, <3>2 DEF Do, storeVars
    <3>3. CASE flight # "none"
      BY <2>2, <3>1, <3>3 DEF Do, storeVars
    <3> QED BY <3>2, <3>3
  <2>3. ASSUME NEW c \in Callers, Return(c)
        PROVE  CacheTypeOK' /\ FlightInv'
    BY <2>3 DEF Return, storeVars, flightVars
  <2>4. ASSUME NEW c \in Callers, ContextEnds(c)
        PROVE  CacheTypeOK' /\ FlightInv'
    BY <2>4 DEF ContextEnds, storeVars, callVars, flightVars
  <2>5. CASE ListAnswered
    <3>1. snap' \in 0..now
      BY <2>5 DEF ListAnswered
    <3> QED BY <2>5, <3>1 DEF ListAnswered, storeVars, callVars
  <2>6. CASE ListFailed
    BY <2>6 DEF ListFailed, storeVars, callVars
  <2>7. CASE FillCache
    BY <2>7 DEF FillCache, callVars
  <2>8. CASE Land
    BY <2>8 DEF Land, storeVars
  <2>9. CASE Tick
    <3>1. now' = now + 1 /\ 0..now \subseteq 0..now'
      BY <2>9 DEF Tick
    <3>2. UNCHANGED <<storeVars, callVars, expired, flightVars, newest>>
          /\ \A c \in Callers : pc[c] # "missed"
      BY <2>9 DEF Tick
    <3> QED BY <3>1, <3>2 DEF storeVars, callVars, flightVars
  <2>10. CASE UNCHANGED cacheVars
    BY <2>10 DEF cacheVars, storeVars, callVars, flightVars
  <2> QED BY <2>1, <2>2, <2>3, <2>4, <2>5, <2>6, <2>7, <2>8, <2>9, <2>10 DEF CacheNext
<1> QED BY <1>1, <1>2, PTL DEF CacheSpec

\* The lists that answers show never go back: whatever a caller has been told,
\* no later caller is told something older (namespaces.go:12-26, 42-46).
THEOREM ListsNeverOlder == CacheSpec => [](OrderInv /\ NeverOlder)
<1> USE DEF OrderInv
<1>1. CacheInit => OrderInv
  BY DEF CacheInit
<1>2. CacheTypeOK /\ FlightInv /\ OrderInv /\ [CacheNext]_cacheVars => OrderInv'
  <2> SUFFICES ASSUME CacheTypeOK, FlightInv, OrderInv, [CacheNext]_cacheVars
               PROVE  OrderInv'
    OBVIOUS
  <2> USE TimesAssumption, CallersAssumption DEF CacheTypeOK, Waiting
  <2>1. ASSUME NEW c \in Callers, ListNamespaces(c)
        PROVE  OrderInv'
    <3>1. CASE flight = "none"
      BY <2>1, <3>1 DEF ListNamespaces, Idle, storeVars, flightVars
    <3>2. CASE flight # "none"
      <4>1. leader \in Callers /\ leader # c
        BY <2>1, <3>2 DEF ListNamespaces, Idle, FlightInv
      <4> QED BY <2>1, <3>2, <4>1 DEF ListNamespaces, Idle, storeVars, flightVars
    <3> QED BY <3>1, <3>2
  <2>2. ASSUME NEW c \in Callers, Do(c)
        PROVE  OrderInv'
    BY <2>2 DEF Do, storeVars, FlightInv
  <2>3. ASSUME NEW c \in Callers, Return(c)
        PROVE  OrderInv'
    BY <2>3 DEF Return, storeVars, flightVars
  <2>4. ASSUME NEW c \in Callers, ContextEnds(c)
        PROVE  OrderInv'
    BY <2>4 DEF ContextEnds, storeVars, callVars, flightVars
  <2>5. CASE ListAnswered
    <3>1. leader \in Callers
      BY <2>5 DEF ListAnswered, FlightInv
    <3>2. cached <= snap'
      BY <2>5, <3>1 DEF ListAnswered
    <3> QED BY <2>5, <3>2 DEF ListAnswered, storeVars, callVars
  <2>6. CASE ListFailed
    BY <2>6 DEF ListFailed, storeVars, callVars
  <2>7. CASE FillCache
    BY <2>7 DEF FillCache, callVars
  <2>8. CASE Land
    BY <2>8 DEF Land, storeVars
  <2>9. CASE Tick
    BY <2>9 DEF Tick, storeVars, callVars, flightVars
  <2>10. CASE UNCHANGED cacheVars
    BY <2>10 DEF cacheVars, storeVars, callVars, flightVars
  <2> QED BY <2>1, <2>2, <2>3, <2>4, <2>5, <2>6, <2>7, <2>8, <2>9, <2>10 DEF CacheNext
<1>3. OrderInv => NeverOlder
  <2> SUFFICES ASSUME OrderInv, NEW c \in Callers, pc[c] = "returning", got[c] # 0
               PROVE  got[c] >= floor[c]
    BY DEF NeverOlder
  <2> QED OBVIOUS
<1> QED BY <1>1, <1>2, <1>3, CacheTyped, PTL DEF CacheSpec

\* The age of what an answer shows is bounded by the lifetime of the cache and
\* one timeout, however long fetches take and whoever runs them
\* (namespaces.go:12, 44).
THEOREM ListsYoung == CacheSpec => [](AgeInv /\ BoundedAge)
<1>1. CacheInit => AgeInv
  BY TimesAssumption DEF CacheInit, AgeInv
<1>2. CacheTypeOK /\ FlightInv /\ AgeInv /\ [CacheNext]_cacheVars => AgeInv'
  <2> SUFFICES ASSUME CacheTypeOK, FlightInv, AgeInv, [CacheNext]_cacheVars
               PROVE  AgeInv'
    OBVIOUS
  <2> USE TimesAssumption, CallersAssumption DEF CacheTypeOK, Waiting, AgeInv
  <2>1. ASSUME NEW c \in Callers, ListNamespaces(c)
        PROVE  AgeInv'
    <3>1. flight # "none" => leader \in Callers /\ leader # c
      BY <2>1 DEF ListNamespaces, Idle, FlightInv
    <3>2. Fresh => now < cached + TTL + Timeout
      BY DEF Fresh
    <3> QED BY <2>1, <3>1, <3>2 DEF ListNamespaces, Idle, storeVars, flightVars
  <2>2. ASSUME NEW c \in Callers, Do(c)
        PROVE  AgeInv'
    BY <2>2 DEF Do, storeVars, FlightInv
  <2>3. ASSUME NEW c \in Callers, Return(c)
        PROVE  AgeInv'
    BY <2>3 DEF Return, storeVars, flightVars
  <2>4. ASSUME NEW c \in Callers, ContextEnds(c)
        PROVE  AgeInv'
    BY <2>4 DEF ContextEnds, storeVars, callVars, flightVars
  <2>5. CASE ListAnswered
    <3>1. leader \in Callers
      BY <2>5 DEF ListAnswered, FlightInv
    <3>2. start[leader] <= snap'
      BY <2>5, <3>1 DEF ListAnswered
    <3> QED BY <2>5, <3>2 DEF ListAnswered, storeVars, callVars
  <2>6. CASE ListFailed
    BY <2>6 DEF ListFailed, storeVars, callVars
  <2>7. CASE FillCache
    <3>1. leader \in Callers
      BY <2>7 DEF FillCache, FlightInv
    <3> QED BY <2>7, <3>1 DEF FillCache, callVars
  <2>8. CASE Land
    <3>1. leader \in Callers
      BY <2>8 DEF Land, FlightInv
    <3>2. flight = "filled" => now < snap + TTL + Timeout
      BY <3>1
    <3> QED BY <2>8, <3>2 DEF Land, storeVars
  <2>9. CASE Tick
    <3>1. flight # "none" => now + 1 <= start[leader] + Timeout
      BY <2>9 DEF Tick, FetchCancelled, FlightInv
    <3>2. \A c \in Callers : pc[c] # "returning"
      BY <2>9 DEF Tick
    <3> QED BY <2>9, <3>1, <3>2 DEF Tick, storeVars, callVars, flightVars
  <2>10. CASE UNCHANGED cacheVars
    BY <2>10 DEF cacheVars, storeVars, callVars, flightVars
  <2> QED BY <2>1, <2>2, <2>3, <2>4, <2>5, <2>6, <2>7, <2>8, <2>9, <2>10 DEF CacheNext
<1>3. CacheTypeOK /\ AgeInv => BoundedAge
  BY TimesAssumption DEF BoundedAge, AgeInv, CacheTypeOK
<1> QED BY <1>1, <1>2, <1>3, CacheTyped, PTL DEF CacheSpec

\* A caller that waits for the fetch of another one, without looking at its own
\* context, is answered by its own deadline (namespaces.go:20).
THEOREM WaitsBounded == CacheSpec => []NobodyOverstays
<1>1. CacheTypeOK /\ FlightInv /\ AgeInv => NobodyOverstays
  <2> SUFFICES ASSUME CacheTypeOK, FlightInv, AgeInv, NEW c \in Callers, pc[c] = "waiting"
               PROVE  now <= start[c] + Timeout
    BY DEF NobodyOverstays
  <2> QED BY TimesAssumption DEF FlightInv, AgeInv, CacheTypeOK, Waiting
<1> QED BY <1>1, CacheTyped, ListsYoung, PTL

----------------------------------------------------------------------------
(* The promise *)

\* What the three arguments above know of the cache.
Known == CacheTypeOK /\ FlightInv /\ OrderInv /\ AgeInv

\* A caller's status changes with its pc only.
LEMMA StatusOf ==
  ASSUME CacheTypeOK
  PROVE  /\ \A c \in Callers :
              /\ (Status[c] = "idle" <=> pc[c] = "idle")
              /\ (Status[c] = "answered" <=> pc[c] = "returning")
              /\ (Status[c] = "asked" <=> pc[c] \in {"missed", "waiting"})
         /\ \A c \in Lists!Asked : c \in Callers /\ pc[c] \in {"missed", "waiting"}
         /\ Waiting \subseteq Lists!Asked
<1>1. \A c \in Callers :
         /\ (Status[c] = "idle" <=> pc[c] = "idle")
         /\ (Status[c] = "answered" <=> pc[c] = "returning")
         /\ (Status[c] = "asked" <=> pc[c] \in {"missed", "waiting"})
  BY DEF Status, CacheTypeOK
<1> QED BY <1>1 DEF Lists!Asked, Waiting

\* A list from the cache, or from the call that just ended, is one to show.
LEMMA CachedIsGood ==
  ASSUME Known
  PROVE  /\ Fresh => cached \in 0..now /\ Lists!Good(cached, newest)
         /\ flight = "filled" /\ snap # 0 => \A c \in Waiting : Lists!Good(snap, floor[c])
<1> USE TimesAssumption DEF Known, CacheTypeOK, Lists!Good
<1>1. Fresh => cached \in 0..now /\ Lists!Good(cached, newest)
  BY DEF Fresh, OrderInv, AgeInv
<1>2. ASSUME flight = "filled", snap # 0, NEW c \in Waiting
      PROVE  Lists!Good(snap, floor[c])
  <2>1. leader \in Callers /\ c \in Callers
    BY <1>2 DEF FlightInv, Waiting
  <2>2. now < snap + TTL + Timeout
    BY <1>2, <2>1 DEF AgeInv
  <2>3. floor[c] <= snap
    BY <1>2, <2>1 DEF OrderInv
  <2> QED BY <1>2, <2>1, <2>2, <2>3
<1> QED BY <1>1, <1>2

\* Each step of the cache is one the promise allows, or is not seen by commands.
LEMMA PromiseStep ==
  ASSUME Known, CacheTypeOK', [CacheNext]_cacheVars
  PROVE  [Lists!Next]_(Lists!vars)
<1> USE DEF Lists!vars
<1>1. CacheTypeOK
  BY DEF Known
<1>2. ASSUME UNCHANGED <<now, start, floor, got, newest>>, pc' = pc
      PROVE  UNCHANGED Lists!vars
  BY <1>2 DEF Status
<1>3. ASSUME NEW c \in Callers, ListNamespaces(c)
      PROVE  Lists!Next
  <2>1. /\ pc[c] = "idle" /\ start' = [start EXCEPT ![c] = now]
        /\ floor' = [floor EXCEPT ![c] = newest] /\ UNCHANGED <<now, newest>>
    BY <1>3 DEF ListNamespaces, Idle
  <2>2. CASE Fresh /\ pc' = [pc EXCEPT ![c] = "returning"]
             /\ got' = [got EXCEPT ![c] = cached]
    <3>1. Status' = [Status EXCEPT ![c] = "answered"]
      BY <1>1, <2>2 DEF Status, CacheTypeOK
    <3>2. Status[c] = "idle" /\ cached \in 0..now /\ Lists!Good(cached, newest)
      BY <1>1, <2>1, <2>2, StatusOf, CachedIsGood
    <3>3. Lists!Ask(c)
      BY <2>1, <2>2, <3>1, <3>2 DEF Lists!Ask
    <3> QED BY <3>3 DEF Lists!Next
  <2>3. CASE pc' = [pc EXCEPT ![c] = "missed"] /\ UNCHANGED got
    <3>1. Status' = [Status EXCEPT ![c] = "asked"]
      BY <1>1, <2>3 DEF Status, CacheTypeOK
    <3>2. Status[c] = "idle"
      BY <1>1, <2>1, StatusOf
    <3>3. Lists!Ask(c)
      BY <2>1, <2>3, <3>1, <3>2 DEF Lists!Ask
    <3> QED BY <3>3 DEF Lists!Next
  <2> QED BY <1>3, <2>2, <2>3 DEF ListNamespaces
<1>4. ASSUME NEW c \in Callers, Do(c)
      PROVE  UNCHANGED Lists!vars
  <2>1. Status' = Status
    BY <1>1, <1>4 DEF Do, Status, CacheTypeOK
  <2> QED BY <1>4, <2>1 DEF Do
<1>5. ASSUME NEW c \in Callers, Return(c)
      PROVE  Lists!Next
  <2>1. Status' = [Status EXCEPT ![c] = "idle"] /\ Status[c] = "answered"
    BY <1>1, <1>5 DEF Return, Status, CacheTypeOK
  <2> QED BY <1>5, <2>1 DEF Return, Lists!Next, Lists!Leave
<1>6. ASSUME NEW c \in Callers, ContextEnds(c)
      PROVE  UNCHANGED Lists!vars
  BY <1>2, <1>6 DEF ContextEnds, callVars
<1>7. CASE ListAnswered \/ ListFailed \/ FillCache
  BY <1>2, <1>7 DEF ListAnswered, ListFailed, FillCache, callVars
<1>8. CASE Land
  <2> DEFINE answer == IF flight = "filled" THEN snap ELSE 0
  <2>1. answer \in 0..now /\ (answer # 0 => \A c \in Waiting : Lists!Good(answer, floor[c]))
    BY <1>1, CachedIsGood DEF CacheTypeOK
  <2>2. Waiting \in SUBSET Lists!Asked
    BY <1>1, StatusOf
  <2>3. got' = [c \in Callers |-> IF c \in Waiting THEN answer ELSE got[c]]
    BY <1>8 DEF Land
  <2>4. Status' = [c \in Callers |-> IF c \in Waiting THEN "answered" ELSE Status[c]]
    BY <1>1, <1>8 DEF Land, Status, CacheTypeOK
  <2>5. UNCHANGED <<now, start, floor, newest>>
    BY <1>8 DEF Land
  <2> QED BY <2>1, <2>2, <2>3, <2>4, <2>5 DEF Lists!Next, Lists!Answer
<1>9. CASE Tick
  <2>1. \A c \in Callers : Status[c] # "answered"
    BY <1>1, <1>9, StatusOf DEF Tick
  <2>2. ASSUME NEW c \in Lists!Asked
        PROVE  now < start[c] + Timeout
    <3>1. c \in Waiting
      BY <1>1, <1>9, <2>2, StatusOf DEF Tick, Waiting
    <3>2. leader \in Waiting /\ leader \notin expired /\ start[leader] <= start[c]
      BY <1>9, <3>1 DEF Known, FlightInv, Tick, FetchCancelled
    <3>3. now < start[leader] + Timeout
      BY <1>9, <3>2 DEF Tick
    <3> QED BY <1>1, <3>1, <3>2, <3>3, TimesAssumption DEF CacheTypeOK, Waiting
  <2>3. now' = now + 1 /\ UNCHANGED <<pc, start, floor, got, newest>>
    BY <1>9 DEF Tick, callVars
  <2>4. Status' = Status
    BY <2>3 DEF Status
  <2> QED BY <2>1, <2>2, <2>3, <2>4 DEF Lists!Next, Lists!Tick
<1>10. CASE UNCHANGED cacheVars
  BY <1>2, <1>10 DEF cacheVars, callVars
<1> QED BY <1>3, <1>4, <1>5, <1>6, <1>7, <1>8, <1>9, <1>10 DEF CacheNext

\* Every behaviour of the cache is one the promise to commands allows
\* (namespaces.go:10-47).
THEOREM PromiseKept == CacheSpec => KeepsListPromise
<1>1. CacheInit => Lists!Init
  BY DEF CacheInit, Lists!Init, Status
<1>2. Known /\ Known' /\ [CacheNext]_cacheVars => [Lists!Next]_(Lists!vars)
  BY PromiseStep DEF Known
<1>3. CacheSpec => []Known
  BY CacheTyped, ListsNeverOlder, ListsYoung, PTL DEF Known
<1> QED BY <1>1, <1>2, <1>3, PTL DEF CacheSpec, KeepsListPromise, Lists!Spec

============================================================================
