--------------------------- MODULE NamespaceCache ---------------------------
(***************************************************************************)
(* internal/kube/namespaces.go: the namespace list that commands share.    *)
(* ListNamespaces answers from a cache; callers that miss it share one     *)
(* call of a singleflight group, which runs under the context of the       *)
(* caller that started it.                                                 *)
(*                                                                         *)
(* A list is identified by the time at which the API server took it.  The  *)
(* clock moves only while every caller waits: the agent's own steps take   *)
(* no time, context deadlines fire when they are due, and a call of        *)
(* client-go whose context has ended returns at once.                      *)
(***************************************************************************)
EXTENDS Naturals

CONSTANTS
    Callers,        \* commands that may run at once
    Nobody,         \* no caller
    TTL,            \* namespaceCacheTTL
    Timeout,        \* the command timeout, the same for every command
    MaxTime         \* bound on the clock

ASSUME CallersAssumption == Nobody \notin Callers
ASSUME TimesAssumption == TTL \in Nat \ {0} /\ Timeout \in Nat \ {0} /\ MaxTime \in Nat

VARIABLES
    now,
    cached, cachedAt,   \* nsCache (0: no list) and nsCachedAt
    pc,                 \* caller -> idle, missed, waiting or returning
    start,              \* caller -> when its command started
    floor,              \* caller -> the newest list known when it started (history)
    got,                \* caller -> the list it returns, 0 for an error
    expired,            \* callers whose context has ended
    flight,             \* the call of the singleflight group
    leader,             \* the caller that runs it
    snap,               \* the list it has fetched
    newest              \* the newest list any caller has returned (history)

storeVars  == <<cached, cachedAt>>
callVars   == <<pc, start, floor, got>>
flightVars == <<flight, leader, snap>>
cacheVars == <<now, storeVars, callVars, expired, flightVars, newest>>

Idle(c) == pc[c] = "idle"
Waiting == {c \in Callers : pc[c] = "waiting"}

\* Lists are not empty: a cluster has its system namespaces.
Fresh == cached # 0 /\ now - cachedAt < TTL

\* The fetch runs under the context of the caller that started it.
FetchCancelled == leader \in expired

CacheInit ==
    /\ now = 1 /\ cached = 0 /\ cachedAt = 0
    /\ pc = [c \in Callers |-> "idle"]
    /\ start = [c \in Callers |-> 0] /\ floor = [c \in Callers |-> 0]
    /\ got = [c \in Callers |-> 0] /\ expired = {}
    /\ flight = "none" /\ leader = Nobody /\ snap = 0 /\ newest = 0

\* A command calls ListNamespaces, and looks at the cache under nsMu.
ListNamespaces(c) ==
    /\ Idle(c)
    /\ start' = [start EXCEPT ![c] = now] /\ floor' = [floor EXCEPT ![c] = newest]
    /\ \/ Fresh /\ pc' = [pc EXCEPT ![c] = "returning"]
                /\ got' = [got EXCEPT ![c] = cached]
       \/ ~Fresh /\ pc' = [pc EXCEPT ![c] = "missed"] /\ UNCHANGED got
    /\ UNCHANGED <<now, storeVars, expired, flightVars, newest>>

\* nsSf.Do, after nsMu is released: start the call or wait for the one there is.
Do(c) ==
    /\ pc[c] = "missed" /\ pc' = [pc EXCEPT ![c] = "waiting"]
    /\ \/ flight = "none" /\ flight' = "fetching" /\ leader' = c
       \/ flight # "none" /\ UNCHANGED <<flight, leader>>
    /\ UNCHANGED <<now, storeVars, start, floor, got, expired, snap, newest>>

\* Slip: ResourceVersion "0", which the API server may answer from its watch cache.
ListAnswered_watchCache ==
    /\ flight = "fetching" /\ flight' = "fetched"
    /\ snap' \in 1..now
    /\ UNCHANGED <<now, storeVars, callVars, expired, leader, newest>>

\* The API server answers with a list it took since the call began.
ListAnswered ==
    /\ flight = "fetching" /\ flight' = "fetched"
    /\ snap' \in start[leader]..now
    /\ UNCHANGED <<now, storeVars, callVars, expired, leader, newest>>

\* Or it fails, or the context of the leader ends first.
ListFailed ==
    /\ flight = "fetching" /\ flight' = "failed"
    /\ UNCHANGED <<now, storeVars, callVars, expired, leader, snap, newest>>

\* Slip: the end of the lifetime is stored and compared as if it were its start.
FillCache_expiry ==
    /\ flight = "fetched" /\ flight' = "filled"
    /\ cached' = snap /\ cachedAt' = now + TTL
    /\ UNCHANGED <<now, callVars, expired, leader, snap, newest>>

\* fetchNamespaces fills the cache before it returns.
FillCache ==
    /\ flight = "fetched" /\ flight' = "filled"
    /\ cached' = snap /\ cachedAt' = now
    /\ UNCHANGED <<now, callVars, expired, leader, snap, newest>>

\* The call is over: singleflight forgets it and wakes whoever waits, all with
\* the same list or the same error.
Land ==
    /\ flight \in {"filled", "failed"} /\ flight' = "none" /\ leader' = Nobody
    /\ pc' = [c \in Callers |-> IF c \in Waiting THEN "returning" ELSE pc[c]]
    /\ got' = [c \in Callers |-> IF c \notin Waiting THEN got[c]
                                 ELSE IF flight = "filled" THEN snap ELSE 0]
    /\ UNCHANGED <<now, storeVars, start, floor, expired, snap, newest>>

Return(c) ==
    /\ pc[c] = "returning" /\ pc' = [pc EXCEPT ![c] = "idle"]
    /\ expired' = expired \ {c}
    /\ newest' = IF got[c] > newest THEN got[c] ELSE newest
    /\ UNCHANGED <<now, storeVars, start, floor, got, flightVars>>

\* The deadline of the command, or the end of its connection.
ContextEnds(c) ==
    /\ pc[c] \in {"missed", "waiting"} /\ c \notin expired
    /\ expired' = expired \cup {c}
    /\ UNCHANGED <<now, storeVars, callVars, flightVars, newest>>

Tick ==
    /\ now < MaxTime /\ now' = now + 1
    /\ \A c \in Callers : pc[c] \in {"idle", "waiting"}
    /\ \A c \in Waiting \ expired : now < start[c] + Timeout
    /\ flight = "none" \/ (flight = "fetching" /\ ~FetchCancelled)
    /\ UNCHANGED <<storeVars, callVars, expired, flightVars, newest>>

CacheNext ==
    \/ \E c \in Callers : ListNamespaces(c) \/ Do(c) \/ Return(c) \/ ContextEnds(c)
    \/ ListAnswered \/ ListFailed \/ FillCache \/ Land
    \/ Tick

CacheSpec == CacheInit /\ [][CacheNext]_cacheVars

----------------------------------------------------------------------------
(* Properties *)

\* Every variable has its type, and no list is from the future.
CacheTypeOK ==
    /\ now \in Nat /\ cached \in 0..now /\ cachedAt \in 0..now
    /\ pc \in [Callers -> {"idle", "missed", "waiting", "returning"}]
    /\ start \in [Callers -> 0..now] /\ floor \in [Callers -> 0..now]
    /\ got \in [Callers -> 0..now] /\ expired \subseteq Callers
    /\ flight \in {"none", "fetching", "fetched", "filled", "failed"}
    /\ leader \in Callers \cup {Nobody}
    /\ snap \in 0..now /\ newest \in 0..now

\* Once a command has been answered with a list, no command that starts later
\* is answered with an older one: neither the cache, nor a fetch that was
\* decided on before the cache was filled, takes the list back
\* (namespaces.go:12-26, 42-46).
NeverOlder ==
    \A c \in Callers : pc[c] = "returning" /\ got[c] # 0 => got[c] >= floor[c]

\* An answer is not older than the cache's lifetime and one fetch together.  The
\* lifetime is counted from the end of the fetch (namespaces.go:12, 44).
BoundedAge ==
    \A c \in Callers : pc[c] = "returning" /\ got[c] # 0 => now - got[c] < TTL + Timeout

\* A command that waits for the fetch of another one does not watch its own
\* context, and is still answered by its own deadline: the leader started
\* no later and has the same timeout (namespaces.go:20).
NobodyOverstays ==
    \A c \in Callers : pc[c] = "waiting" => now <= start[c] + Timeout

============================================================================
