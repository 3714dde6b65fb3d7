---------------------------- MODULE SessionClock ----------------------------
(***************************************************************************)
(* The durations of internal/gateway, which GatewayClient leaves out: how  *)
(* long a command is remembered, waits and runs (client.go), when silence  *)
(* ends a session (websocket.go, heartbeat.go), and how long Run waits     *)
(* before it dials again (reconnect.go).                                   *)
(*                                                                         *)
(* They meet in the reader.  It alone takes pongs and commands off the     *)
(* connection, in the order the gateway sent them, and takes nothing while *)
(* it waits for a slot of the semaphore.                                   *)
(*                                                                         *)
(* Times are ages and remaining times, counted in ticks.  The clock moves  *)
(* only when nothing is due: local work takes no time, a handler returns   *)
(* when its context expires, and writes do not block.                      *)
(***************************************************************************)
EXTENDS Naturals, Sequences, FiniteSets

CONSTANTS
    Ids,                \* command ids the gateway may send
    NoId,               \* "no command"
    Pong,               \* the gateway's answer to a ping
    Slots,              \* the slots of commandSem
    MaxRemembered,      \* maxRememberedCommands
    ReplayTTL,          \* commandReplayTTL
    CommandTimeout,     \* cfg.CommandTimeout
    HeartbeatPeriod,    \* cfg.HeartbeatPeriod
    PongFloor,          \* the two minutes in dialWebSocket
    StableDuration,     \* stableConnectionDuration
    MinDelay, MaxDelay, \* Backoff.Min and Backoff.Max
    MaxInFlight,        \* bound on the commands the gateway leaves unanswered
    MaxFailures         \* bound on the count of failures

ASSUME NamesAssumption == NoId \notin Ids /\ Pong \notin Ids /\ Pong # NoId
ASSUME SlotsAssumption == IsFiniteSet(Slots) /\ Slots # {}
ASSUME BoundsAssumption == {MaxRemembered, MaxInFlight, MaxFailures} \subseteq Nat \ {0}
ASSUME PeriodsAssumption ==
    {HeartbeatPeriod, PongFloor, StableDuration, CommandTimeout} \subseteq Nat \ {0}
\* What a configured command timeout must leave of the ten minutes.
ASSUME ReplayAssumption == ReplayTTL \in Nat /\ 2 * CommandTimeout <= ReplayTTL
\* rand.Int64N wants a positive bound: half the smallest delay.
ASSUME DelayAssumption ==
    MinDelay \in Nat /\ MaxDelay \in Nat /\ 2 <= MinDelay /\ MinDelay <= MaxDelay

\* The powers of two, as a function, for the sake of the proofs.
Pow2[n \in Nat] == IF n = 0 THEN 1 ELSE 2 * Pow2[n - 1]

\* Failures are counted up to where the delay no longer grows.
ASSUME CountAssumption == MaxDelay <= MinDelay * Pow2[MaxFailures - 1]

VARIABLES
    link,       \* Run: dialing, up (a session), down (sleeping) or revoked
    wait,       \* what is left of the sleep
    current,    \* Backoff.current
    failures,   \* attempts since the client began or last was stable (history)
    uptime,     \* time since connectedAt, no longer counted once it is stable
    stream,     \* what the gateway has sent and the reader has not taken
    buffered,   \* how much of it is in the buffer of the reader already
    claimed,    \* the command the reader holds while it waits for a slot
    running,    \* slot -> the command its handler works on
    left,       \* slot -> what is left of the handler's timeout
    age,        \* id -> time since it was claimed; more than the TTL: forgotten
    since,      \* id -> time since this client last started it (history)
    deadline,   \* what is left of the read deadline
    beat,       \* time to the next heartbeat
    prompt,     \* every ping of this session was answered at once (history)
    quiet,      \* time since the reader last took a pong (history)
    stalled     \* how much of that it has waited for a slot (history)

backoffVars == <<current, failures>>
memVars     == <<age, since>>
slotVars    == <<running, left>>
pongVars    == <<deadline, quiet, stalled>>
readVars    == <<stream, buffered, claimed, pongVars>>
beatVars    == <<beat, prompt>>
vars == <<link, wait, backoffVars, uptime, readVars, slotVars, memVars, beatVars>>

\* Slip: the two minutes alone.
PongWait_floor == PongFloor

\* dialWebSocket: three periods, and two minutes at least.
PongWait == IF 3 * HeartbeatPeriod < PongFloor THEN PongFloor ELSE 3 * HeartbeatPeriod

Capped(n, max) == IF n < max THEN n ELSE max

TypeOK ==
    /\ link \in {"dialing", "up", "down", "revoked"}
    /\ wait \in Nat /\ current \in Nat /\ failures \in 0..MaxFailures
    /\ uptime \in 0..StableDuration
    /\ stream \in Seq(Ids \cup {Pong}) /\ buffered \in 0..Len(stream)
    /\ claimed \in Ids \cup {NoId}
    /\ running \in [Slots -> Ids \cup {NoId}] /\ left \in [Slots -> 0..CommandTimeout]
    /\ age \in [Ids -> 0..(ReplayTTL + 1)] /\ since \in [Ids -> 0..(ReplayTTL + 1)]
    /\ deadline \in 0..PongWait /\ quiet \in Nat /\ stalled \in Nat
    /\ beat \in 0..HeartbeatPeriod /\ prompt \in BOOLEAN

FreshMemory == [i \in Ids |-> ReplayTTL + 1]

Init ==
    /\ link = "dialing" /\ wait = 0 /\ current = 0 /\ failures = 0 /\ uptime = 0
    /\ stream = <<>> /\ buffered = 0 /\ claimed = NoId
    /\ running = [s \in Slots |-> NoId] /\ left = [s \in Slots |-> 0]
    /\ age = FreshMemory /\ since = FreshMemory
    /\ deadline = 0 /\ quiet = 0 /\ stalled = 0 /\ beat = 0 /\ prompt = TRUE

----------------------------------------------------------------------------
(* Run *)

NextDelay(c) == IF c = 0 THEN MinDelay ELSE Capped(2 * c, MaxDelay)

\* Backoff.Next after current has been c, and the sleep it draws.
BackOff(c) ==
    /\ link' = "down"
    /\ current' = NextDelay(c)
    /\ \E jitter \in 0..((current' \div 2) - 1) : wait' = current' + jitter

NoSession ==
    /\ uptime' = 0 /\ beat' = 0 /\ prompt' = TRUE
    /\ deadline' = 0 /\ quiet' = 0 /\ stalled' = 0 /\ claimed' = NoId

NoHandlers == running' = [s \in Slots |-> NoId] /\ left' = [s \in Slots |-> 0]

\* Slip: the next connection goes on with the buffer of this one.
Teardown_keepsBuffer == NoSession /\ NoHandlers /\ stream' = <<>> /\ UNCHANGED buffered

\* serveConnection on its way out: everything that belonged to the session ends.
Teardown == NoSession /\ NoHandlers /\ stream' = <<>> /\ buffered' = 0

\* Slip: a successful dial resets the backoff.
Connect_resets ==
    /\ link = "dialing"
    /\ link' = "up" /\ beat' = HeartbeatPeriod /\ deadline' = PongWait /\ current' = 0
    /\ UNCHANGED <<wait, failures, uptime, stream, buffered, claimed, quiet, stalled,
                   slotVars, memVars, prompt>>

\* A new session; configureHeartbeat sets the first read deadline.
Connect ==
    /\ link = "dialing"
    /\ link' = "up" /\ beat' = HeartbeatPeriod /\ deadline' = PongWait
    /\ UNCHANGED <<wait, backoffVars, uptime, stream, buffered, claimed, quiet, stalled,
                   slotVars, memVars, prompt>>

DialFails ==
    /\ link = "dialing"
    /\ BackOff(current) /\ failures' = Capped(failures + 1, MaxFailures)
    /\ UNCHANGED <<uptime, readVars, slotVars, memVars, beatVars>>

\* sleepContext returns.
Wake ==
    /\ link = "down" /\ wait = 0 /\ link' = "dialing"
    /\ UNCHANGED <<wait, backoffVars, uptime, readVars, slotVars, memVars, beatVars>>

\* Run after serveConnection: a session that was stable resets the backoff.
SessionLost ==
    /\ Teardown
    /\ IF uptime >= StableDuration
       THEN BackOff(0) /\ failures' = 1
       ELSE BackOff(current) /\ failures' = Capped(failures + 1, MaxFailures)
    /\ UNCHANGED memVars

\* The connection breaks, or the gateway closes it.
Drop == link = "up" /\ SessionLost

\* Slip: Run returns before the handlers have: the new client finds them at work.
Revoked_early ==
    /\ link \in {"dialing", "up"} /\ link' = "revoked"
    /\ NoSession /\ stream' = <<>> /\ buffered' = 0
    /\ UNCHANGED <<wait, backoffVars, slotVars, memVars>>

\* The handshake is refused, or the session closed with 1008.
Revoked ==
    /\ link \in {"dialing", "up"} /\ link' = "revoked"
    /\ Teardown
    /\ UNCHANGED <<wait, backoffVars, memVars>>

\* App.Run makes a new client, whose replay memory is empty, once the
\* credentials have been rotated.
NewClient ==
    /\ link = "revoked" /\ link' = "dialing"
    /\ age' = FreshMemory /\ since' = FreshMemory /\ current' = 0 /\ failures' = 0
    /\ UNCHANGED <<wait, uptime, readVars, slotVars, beatVars>>

----------------------------------------------------------------------------
(* heartbeat *)

\* The ticker fires: a ping, which the gateway answers at once, or not.
Heartbeat ==
    /\ link = "up" /\ beat = 0 /\ beat' = HeartbeatPeriod
    /\ \/ stream' = Append(stream, Pong) /\ UNCHANGED prompt
       \/ prompt' = FALSE /\ UNCHANGED stream
    /\ UNCHANGED <<link, wait, backoffVars, uptime, buffered, claimed, pongVars,
                   slotVars, memVars>>

----------------------------------------------------------------------------
(* readLoop *)

Expired == deadline = 0

\* ReadMessage takes the next message.  What the buffer holds is returned
\* whatever the deadline; filling it is a read, which fails past the deadline.
Receive(m) ==
    /\ link = "up" /\ claimed = NoId
    /\ stream # <<>> /\ m = Head(stream) /\ stream' = Tail(stream)
    /\ \/ buffered > 0 /\ buffered' = buffered - 1
       \/ buffered = 0 /\ ~Expired /\ buffered' \in 0..(Len(stream) - 1)

\* The pong handler sets a new deadline.
ReadPong ==
    /\ Receive(Pong)
    /\ deadline' = PongWait /\ quiet' = 0 /\ stalled' = 0
    /\ UNCHANGED <<link, wait, backoffVars, uptime, claimed, slotVars, memVars, beatVars>>

DeadlineHit == link = "up" /\ claimed = NoId /\ buffered = 0 /\ Expired

\* ReadMessage fails: the deadline has passed and the buffer is empty.
ReadTimesOut == DeadlineHit /\ SessionLost

\* claimCommand drops what is older than the TTL before it looks.
Live == {i \in Ids : age[i] <= ReplayTTL}

\* Slip: an entry is dropped when its handler has ended, not by its age.
CanClaim_running(id) ==
    /\ \A s \in Slots : running[s] # id
    /\ Cardinality(Live) < MaxRemembered

CanClaim(id) == id \notin Live /\ Cardinality(Live) < MaxRemembered

\* Slip: a command renews the deadline like a pong.
Claim_renews(id) ==
    /\ Receive(id) /\ CanClaim(id)
    /\ claimed' = id /\ age' = [age EXCEPT ![id] = 0] /\ deadline' = PongWait
    /\ UNCHANGED <<link, wait, backoffVars, uptime, quiet, stalled, slotVars, since,
                   beatVars>>

\* The claim is counted from here, before the command has a slot.
Claim(id) ==
    /\ Receive(id) /\ CanClaim(id)
    /\ claimed' = id /\ age' = [age EXCEPT ![id] = 0]
    /\ UNCHANGED <<link, wait, backoffVars, uptime, pongVars, slotVars, since, beatVars>>

RefuseDuplicate(id) ==
    /\ Receive(id) /\ ~CanClaim(id)
    /\ UNCHANGED <<link, wait, backoffVars, uptime, claimed, pongVars, slotVars,
                   memVars, beatVars>>

\* Slip: the timeout is that of each of two calls instead of the command's.
Start_perCall(s) ==
    /\ claimed # NoId /\ running[s] = NoId
    /\ running' = [running EXCEPT ![s] = claimed]
    /\ left' = [left EXCEPT ![s] = 2 * CommandTimeout]
    /\ since' = [since EXCEPT ![claimed] = 0] /\ claimed' = NoId
    /\ UNCHANGED <<link, wait, backoffVars, uptime, stream, buffered, pongVars, age,
                   beatVars>>

\* A slot is free: the handler starts, and its timeout with it.
Start(s) ==
    /\ claimed # NoId /\ running[s] = NoId
    /\ running' = [running EXCEPT ![s] = claimed]
    /\ left' = [left EXCEPT ![s] = CommandTimeout]
    /\ since' = [since EXCEPT ![claimed] = 0] /\ claimed' = NoId
    /\ UNCHANGED <<link, wait, backoffVars, uptime, stream, buffered, pongVars, age, beatVars>>

\* Slip: a command that is finished is taken out of the replay memory.
Finish_forgets(s) ==
    /\ running[s] # NoId
    /\ running' = [running EXCEPT ![s] = NoId] /\ left' = [left EXCEPT ![s] = 0]
    /\ age' = [age EXCEPT ![running[s]] = ReplayTTL + 1]
    /\ UNCHANGED <<link, wait, backoffVars, uptime, readVars, since, beatVars>>

\* handleCommand returns, at the latest when its context expires.
Finish(s) ==
    /\ running[s] # NoId
    /\ running' = [running EXCEPT ![s] = NoId] /\ left' = [left EXCEPT ![s] = 0]
    /\ UNCHANGED <<link, wait, backoffVars, uptime, readVars, memVars, beatVars>>

----------------------------------------------------------------------------
(* The gateway and the clock *)

InFlight ==
    Cardinality({k \in DOMAIN stream : stream[k] # Pong})
    + Cardinality({s \in Slots : running[s] # NoId})
    + (IF claimed = NoId THEN 0 ELSE 1)

\* The gateway sends a command, a new one or one it has sent before.
Send(id) ==
    /\ link = "up" /\ InFlight < MaxInFlight
    /\ stream' = Append(stream, id)
    /\ UNCHANGED <<link, wait, backoffVars, uptime, buffered, claimed, pongVars,
                   slotVars, memVars, beatVars>>

\* Something happens before time goes on.
Due ==
    \/ link = "down" /\ wait = 0
    \/ link = "up" /\ beat = 0
    \/ link = "up" /\ claimed = NoId /\ stream # <<>>
    \/ DeadlineHit
    \/ \E s \in Slots : running[s] # NoId /\ left[s] = 0
    \/ claimed # NoId /\ \E s \in Slots : running[s] = NoId

Older(times) == [i \in Ids |-> Capped(times[i] + 1, ReplayTTL + 1)]

Less(n) == IF n = 0 THEN 0 ELSE n - 1

Tick ==
    /\ ~Due
    /\ wait' = Less(wait)
    /\ left' = [s \in Slots |-> Less(left[s])]
    /\ age' = Older(age) /\ since' = Older(since)
    /\ IF link = "up"
       THEN /\ uptime' = Capped(uptime + 1, StableDuration)
            /\ beat' = beat - 1 /\ deadline' = Less(deadline) /\ quiet' = quiet + 1
            /\ stalled' = IF claimed = NoId THEN stalled ELSE stalled + 1
       ELSE UNCHANGED <<uptime, beat, pongVars>>
    /\ UNCHANGED <<link, backoffVars, stream, buffered, claimed, running, prompt>>

Next ==
    \/ Connect \/ DialFails \/ Wake \/ Drop \/ Revoked \/ NewClient
    \/ Heartbeat \/ ReadPong \/ ReadTimesOut
    \/ \E i \in Ids : Claim(i) \/ RefuseDuplicate(i) \/ Send(i)
    \/ \E s \in Slots : Start(s) \/ Finish(s)
    \/ Tick

Spec == Init /\ [][Next]_vars

----------------------------------------------------------------------------
(* Properties *)

\* No two handlers work on one command at a time, however long the first waited
\* and ran, and whichever client or session started it: the TTL, counted from
\* the claim, outlasts waiting and running (client.go:294-312, 350).
NoOverlap ==
    \A s, t \in Slots : running[s] = running[t] /\ running[s] # NoId => s = t

\* One client starts a command again only when more than the TTL less one command
\* timeout has gone by: that is what is left of the ten minutes, which are
\* counted from a claim that may wait for a slot (client.go:234, 243, 299).
StartsSpaced ==
    [][\A s \in Slots : running'[s] # running[s] /\ running'[s] # NoId
          => since[running'[s]] + CommandTimeout > ReplayTTL]_vars

\* The reader never holds a command, and with it the pongs behind it, for more
\* than one command timeout (client.go:242-246).
ReaderStallBounded == claimed # NoId => age[claimed] <= CommandTimeout

\* A gateway that answers every ping at once loses its session to the read
\* deadline only when commands kept the reader from its pongs for two heartbeat
\* periods and more (websocket.go:50-57, client.go:242-246).
DroppedForStalls == DeadlineHit /\ prompt => stalled >= 2 * HeartbeatPeriod

\* "pongWait must be larger than heartbeatPeriod so the connection isn't closed
\* between pings" (websocket.go:50): no session of such a gateway reaches its
\* read deadline.
PromptGatewayKept == DeadlineHit => ~prompt

\* A gateway that has stopped answering pings is found out, even one that goes on
\* sending commands: what the reader had buffered at the deadline, at one timeout
\* a command, is the most that can put the end off (heartbeat.go:10).
SilentGatewayLeft == quiet <= PongWait + MaxInFlight * CommandTimeout

\* The delay doubles with each attempt that led to no stable session, dials that
\* succeed included, up to its maximum; a stable session starts it over; half
\* of it is the most that jitter adds (client.go:116, 138-142, reconnect.go:23).
DelayFollowsFailures ==
    /\ current = IF failures = 0 THEN 0
                 ELSE Capped(MinDelay * Pow2[failures - 1], MaxDelay)
    /\ wait < current + (current \div 2) \/ wait = 0

============================================================================
