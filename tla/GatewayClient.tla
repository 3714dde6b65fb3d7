--------------------------- MODULE GatewayClient ---------------------------
(***************************************************************************)
(* internal/gateway/client.go: Client.Run and the goroutines of one        *)
(* gateway session at a time.                                              *)
(*                                                                         *)
(*   Run             dials, serves, backs off and dials again              *)
(*   serveConnection starts the two loops, waits for the first error or    *)
(*                   for shutdown, closes the socket, joins everything     *)
(*   heartbeat       writes a ping and a heartbeat on every tick           *)
(*   readLoop        reads commands, refuses or starts them                *)
(*   handleCommand   one goroutine per started command; a slot of the      *)
(*                   semaphore (commandSem) is held from start to exit     *)
(*                                                                         *)
(* What they share: writeMu, errCh (capacity 2), the connection context,   *)
(* the socket, the replay memory (seenCommands, which outlives a session)  *)
(* and the readiness flag the heartbeat sets.  The gateway and the network *)
(* are the environment.  Frames the agent has received are read also after *)
(* the connection is gone.  Durations are left out: a timer that can fire  *)
(* is an enabled action.                                                   *)
(***************************************************************************)
EXTENDS Naturals, Sequences, FiniteSets

CONSTANTS
    Ids,            \* command ids the gateway may send
    NoId,           \* "no command", not an id
    Slots,          \* the slots of commandSem: maxConcurrentCommands of them
    MaxRemembered,  \* maxRememberedCommands: size of the replay memory
    MaxUnread       \* how many frames the receive buffers hold

ASSUME IdsAssumption == NoId \notin Ids
ASSUME SlotsAssumption ==
    IsFiniteSet(Slots) /\ Slots # {} /\ Slots \cap {"free", "hb", "rd"} = {}
ASSUME MaxRememberedAssumption == MaxRemembered \in Nat \ {0}
ASSUME MaxUnreadAssumption == MaxUnread \in Nat

\* Slip: errCh without a buffer, so the default case drops every error.
ErrChCapacity_unbuffered == 0

ErrChCapacity == 2

VARIABLES
    pc,             \* where Run / serveConnection is
    result,         \* error serveConnection settled on, then what Run returned
    ctxDone,        \* the context of Run is cancelled (SIGTERM)
    connCancelled,  \* connCancel() has been called for this session
    errCh,          \* errors the loops reported, oldest first
    sock,           \* the websocket connection
    unread,         \* frames received that ReadMessage has not returned yet
    goodbye,        \* the close frame 1008 of the gateway is behind them
    draining,       \* the peer reads what the agent sends, so writes complete
    access,         \* the gateway's view of this agent's token
    hb,             \* where the heartbeat goroutine is
    rd,             \* where the reader goroutine is
    rdCmd,          \* command the reader is working on
    why,            \* reason behind the reader's current step
    phase,          \* slot of commandSem -> where its handler goroutine is
    writeMu,        \* owner of the write mutex
    ready,          \* HealthState.gatewayConnected
    seen,           \* ids whose replay entry has not outlived its TTL
    starts          \* id -> handlers started under the current entry (history)

runVars  == <<pc, result, ctxDone, connCancelled>>
netVars  == <<sock, unread, goodbye, draining, access>>
rdVars   == <<rd, rdCmd, why>>
memVars  == <<seen, starts>>
vars == <<pc, result, ctxDone, connCancelled, errCh, sock, unread, goodbye, draining,
          access, hb, rd, rdCmd, why, phase, writeMu, ready, seen, starts>>

Session  == {"serving", "closing", "joinLoops", "joinCommands"}
PcStates == {"top", "dialing", "backoff", "returned"} \cup Session
Results  == {"none", "canceled", "revoked", "other"}
Pending  == {q \in Seq({"revoked", "other"}) : Len(q) <= ErrChCapacity}
Sockets  == {"none", "open", "broken", "closed"}
HbStates == {"off", "idle", "wantLock", "pinging", "beating", "callback",
             "report", "done"}
RdStates == {"off", "reading", "refuse", "refusing", "acquire", "report", "done"}
Reasons  == {"none", "denied", "duplicate", "claimed", "lapsed", "revoked", "other"}
Phases   == [Slots -> {"idle", "running", "wantLock", "writing"}]
Owners   == {"free", "hb", "rd"} \cup Slots
Counts   == [Ids -> Nat]

\* Every variable has its type; errCh never exceeds its capacity and carries
\* only the two errors a loop can report (client.go:158).
TypeOK ==
    /\ pc \in PcStates /\ result \in Results
    /\ ctxDone \in BOOLEAN /\ connCancelled \in BOOLEAN
    /\ errCh \in Pending
    /\ sock \in Sockets /\ unread \in 0..MaxUnread /\ goodbye \in BOOLEAN
    /\ draining \in BOOLEAN /\ access \in {"granted", "revoked"}
    /\ hb \in HbStates
    /\ rd \in RdStates /\ rdCmd \in Ids \cup {NoId} /\ why \in Reasons
    /\ phase \in Phases /\ writeMu \in Owners
    /\ ready \in BOOLEAN
    /\ seen \subseteq Ids /\ starts \in Counts

Init ==
    /\ pc = "top" /\ result = "none" /\ ctxDone = FALSE /\ connCancelled = FALSE
    /\ errCh = <<>>
    /\ sock = "none" /\ unread = 0 /\ goodbye = FALSE /\ draining = TRUE /\ access = "granted"
    /\ hb = "off"
    /\ rd = "off" /\ rdCmd = NoId /\ why = "none"
    /\ phase = [s \in Slots |-> "idle"]
    /\ writeMu = "free" /\ ready = FALSE
    /\ seen = {} /\ starts = [i \in Ids |-> 0]

\* connCtx.Done() is closed: connCtx is a child of the context of Run.
ConnDone == ctxDone \/ connCancelled

\* conn.WriteMessage has no deadline: it returns when the peer drains the
\* socket or when the connection is gone.
WriteReturns == draining \/ sock \in {"broken", "closed"}
WriteWorks   == draining /\ sock = "open"

\* A connection that goes takes along what the kernel holds of the frames; what
\* the reader's own buffer holds can still be read.
KeepBuffered == \/ UNCHANGED <<unread, goodbye>>
                \/ unread' \in 0..unread /\ goodbye' = FALSE

----------------------------------------------------------------------------
(* Run and serveConnection *)

Return(err) == pc' = "returned" /\ result' = err

\* The check at the top of the loop of Run.
LoopTop ==
    /\ pc = "top"
    /\ IF ctxDone THEN Return("canceled") ELSE pc' = "dialing" /\ UNCHANGED result
    /\ UNCHANGED <<ctxDone, connCancelled, errCh, netVars, hb, rdVars, phase,
                   writeMu, ready, memVars>>

\* Slip: the replay memory is created per connection, not per client.
Connect_forgets ==
    /\ pc = "dialing" /\ access = "granted"
    /\ pc' = "serving" /\ result' = "none" /\ connCancelled' = FALSE
    /\ errCh' = <<>>
    /\ sock' = "open" /\ unread' = 0 /\ goodbye' = FALSE /\ draining' = TRUE
    /\ hb' = "idle"
    /\ rd' = "reading" /\ rdCmd' = NoId /\ why' = "none"
    /\ seen' = {}
    /\ UNCHANGED <<ctxDone, access, phase, writeMu, ready, starts>>

\* A new session: fresh context, channel and semaphore, both loops started.
Connect ==
    /\ pc = "dialing" /\ access = "granted"
    /\ pc' = "serving" /\ result' = "none" /\ connCancelled' = FALSE
    /\ errCh' = <<>>
    /\ sock' = "open" /\ unread' = 0 /\ goodbye' = FALSE /\ draining' = TRUE
    /\ hb' = "idle"
    /\ rd' = "reading" /\ rdCmd' = NoId /\ why' = "none"
    /\ UNCHANGED <<ctxDone, access, phase, writeMu, ready, memVars>>

\* The handshake is answered 401 or 403: Run gives up on this token.
DialRefused ==
    /\ pc = "dialing" /\ access = "revoked"
    /\ Return("revoked")
    /\ UNCHANGED <<ctxDone, connCancelled, errCh, netVars, hb, rdVars, phase,
                   writeMu, ready, memVars>>

DialFailed ==
    /\ pc = "dialing"
    /\ pc' = "backoff"
    /\ UNCHANGED <<result, ctxDone, connCancelled, errCh, netVars, hb, rdVars,
                   phase, writeMu, ready, memVars>>

\* sleepContext: the timer fires, or the context is done.
Sleep ==
    /\ pc = "backoff"
    /\ IF ctxDone THEN Return("canceled") ELSE pc' = "top" /\ UNCHANGED result
    /\ UNCHANGED <<ctxDone, connCancelled, errCh, netVars, hb, rdVars, phase,
                   writeMu, ready, memVars>>

\* The select of serveConnection and the connCancel() after it.  With both
\* cases ready, select takes either.
ServeUntilDone ==
    /\ pc = "serving"
    /\ \/ ctxDone /\ result' = "canceled" /\ UNCHANGED errCh
       \/ errCh # <<>> /\ result' = Head(errCh) /\ errCh' = Tail(errCh)
    /\ pc' = "closing" /\ connCancelled' = TRUE
    /\ UNCHANGED <<ctxDone, netVars, hb, rdVars, phase, writeMu, ready, memVars>>

\* The close frame (at most a second) and conn.Close, which unblocks the
\* pending read and write.
CloseSocket ==
    /\ pc = "closing"
    /\ pc' = "joinLoops" /\ sock' = "closed" /\ KeepBuffered
    /\ UNCHANGED <<result, ctxDone, connCancelled, errCh, draining, access, hb,
                   rdVars, phase, writeMu, ready, memVars>>

\* Slip: only the heartbeat is waited for.
JoinLoops_heartbeatOnly ==
    /\ pc = "joinLoops" /\ hb = "done"
    /\ pc' = "joinCommands"
    /\ UNCHANGED <<result, ctxDone, connCancelled, errCh, netVars, hb, rdVars,
                   phase, writeMu, ready, memVars>>

\* loopWG.Wait()
JoinLoops ==
    /\ pc = "joinLoops" /\ hb = "done" /\ rd = "done"
    /\ pc' = "joinCommands"
    /\ UNCHANGED <<result, ctxDone, connCancelled, errCh, netVars, hb, rdVars,
                   phase, writeMu, ready, memVars>>

\* Slip: the connection state is reset only on the way to a reconnect.
SessionOver_keepsReady ==
    /\ pc = "joinCommands" /\ \A s \in Slots : phase[s] = "idle"
    /\ ready' = (ready /\ result # "other")
    /\ pc' = IF result = "other" THEN "backoff" ELSE "returned"
    /\ UNCHANGED <<result, ctxDone, connCancelled, errCh, netVars, hb, rdVars,
                   phase, writeMu, memVars>>

\* commandWG.Wait(), the return of serveConnection and what Run does with it.
SessionOver ==
    /\ pc = "joinCommands" /\ \A s \in Slots : phase[s] = "idle"
    /\ ready' = FALSE
    /\ pc' = IF result = "other" THEN "backoff" ELSE "returned"
    /\ UNCHANGED <<result, ctxDone, connCancelled, errCh, netVars, hb, rdVars,
                   phase, writeMu, memVars>>

\* reportConnectionError: never blocks.  A done context may win the select,
\* and a full channel takes the default case.
Report(err) ==
    \/ /\ Len(errCh) < ErrChCapacity
       /\ errCh' = Append(errCh, err)
    \/ /\ ConnDone \/ Len(errCh) >= ErrChCapacity
       /\ UNCHANGED errCh

----------------------------------------------------------------------------
(* heartbeat *)

HeartbeatStops ==
    /\ hb = "idle" /\ ConnDone
    /\ hb' = "done"
    /\ UNCHANGED <<runVars, errCh, netVars, rdVars, phase, writeMu, ready, memVars>>

HeartbeatTick ==
    /\ hb = "idle"
    /\ hb' = "wantLock"
    /\ UNCHANGED <<runVars, errCh, netVars, rdVars, phase, writeMu, ready, memVars>>

HeartbeatLocks ==
    /\ hb = "wantLock" /\ writeMu = "free"
    /\ hb' = "pinging" /\ writeMu' = "hb"
    /\ UNCHANGED <<runVars, errCh, netVars, rdVars, phase, ready, memVars>>

\* Slip: a failed ping returns without unlocking.
HeartbeatPings_keepsLock ==
    /\ hb = "pinging"
    /\ \/ sock = "open" /\ hb' = "beating"
       \/ hb' = "report"
    /\ UNCHANGED <<runVars, errCh, netVars, rdVars, phase, writeMu, ready, memVars>>

\* WriteControl(Ping) has a deadline of ten seconds, so it always returns.
HeartbeatPings ==
    /\ hb = "pinging"
    /\ \/ sock = "open" /\ hb' = "beating" /\ UNCHANGED writeMu
       \/ hb' = "report" /\ writeMu' = "free"
    /\ UNCHANGED <<runVars, errCh, netVars, rdVars, phase, ready, memVars>>

\* Slip: a heartbeat that cannot be written is tried again at the next tick.
HeartbeatWrites_retries ==
    /\ hb = "beating" /\ WriteReturns
    /\ \/ WriteWorks /\ hb' = "callback"
       \/ hb' = "idle"
    /\ writeMu' = "free"
    /\ UNCHANGED <<runVars, errCh, netVars, rdVars, phase, ready, memVars>>

HeartbeatWrites ==
    /\ hb = "beating" /\ WriteReturns
    /\ \/ WriteWorks /\ hb' = "callback"
       \/ hb' = "report"
    /\ writeMu' = "free"
    /\ UNCHANGED <<runVars, errCh, netVars, rdVars, phase, ready, memVars>>

\* onHeartbeat, which the app wires to SetGatewayConnected(true).
HeartbeatCallback ==
    /\ hb = "callback"
    /\ hb' = "idle" /\ ready' = TRUE
    /\ UNCHANGED <<runVars, errCh, netVars, rdVars, phase, writeMu, memVars>>

HeartbeatReports ==
    /\ hb = "report"
    /\ Report("other")
    /\ hb' = "done"
    /\ UNCHANGED <<runVars, netVars, rdVars, phase, writeMu, ready, memVars>>

----------------------------------------------------------------------------
(* readLoop *)

\* claimCommand: an id still in the replay memory is refused, and so is any
\* id while the memory is full.
CanClaim(id) == id \notin seen /\ Cardinality(seen) < MaxRemembered

\* ReadMessage returns the next frame, no matter whether the connection still
\* stands: serveConnection may have closed it.
ReadMessage ==
    /\ rd = "reading" /\ unread > 0 /\ unread' = unread - 1
    /\ UNCHANGED <<sock, goodbye, draining, access>>

\* A frame that is no command is discarded.
ReadInvalid ==
    /\ ReadMessage
    /\ UNCHANGED <<runVars, errCh, hb, rdVars, phase, writeMu, ready, memVars>>

\* The policy is consulted before the replay memory: a denied id is not
\* remembered.
ReadDenied(id) ==
    /\ ReadMessage
    /\ rd' = "refuse" /\ rdCmd' = id /\ why' = "denied"
    /\ UNCHANGED <<runVars, errCh, hb, phase, writeMu, ready, memVars>>

ReadDuplicate(id) ==
    /\ ReadMessage
    /\ ~CanClaim(id)
    /\ rd' = "refuse" /\ rdCmd' = id /\ why' = "duplicate"
    /\ UNCHANGED <<runVars, errCh, hb, phase, writeMu, ready, memVars>>

ReadClaimed(id) ==
    /\ ReadMessage
    /\ CanClaim(id)
    /\ seen' = seen \cup {id}
    /\ rd' = "acquire" /\ rdCmd' = id /\ why' = "claimed"
    /\ UNCHANGED <<runVars, errCh, hb, phase, writeMu, ready, starts>>

\* writeResponse of a refusal: lock, write, unlock; a failed write is logged.
RefusalLocks ==
    /\ rd = "refuse" /\ writeMu = "free"
    /\ rd' = "refusing" /\ writeMu' = "rd"
    /\ UNCHANGED <<runVars, errCh, netVars, hb, rdCmd, why, phase, ready, memVars>>

RefusalWritten ==
    /\ rd = "refusing" /\ WriteReturns
    /\ rd' = "reading" /\ rdCmd' = NoId /\ why' = "none" /\ writeMu' = "free"
    /\ UNCHANGED <<runVars, errCh, netVars, hb, phase, ready, memVars>>

\* A slot of the semaphore is free: the handler goroutine starts in it.
StartHandler(s) ==
    /\ rd = "acquire" /\ phase[s] = "idle"
    /\ phase' = [phase EXCEPT ![s] = "running"]
    /\ starts' = IF why = "claimed" THEN [starts EXCEPT ![rdCmd] = @ + 1] ELSE starts
    /\ rd' = "reading" /\ rdCmd' = NoId /\ why' = "none"
    /\ UNCHANGED <<runVars, errCh, netVars, hb, writeMu, ready, seen>>

\* Slip: the reader reports the context error before it returns.
AbandonCommand_reports ==
    /\ rd = "acquire" /\ ConnDone
    /\ rd' = "report" /\ why' = "canceled"
    /\ UNCHANGED <<runVars, errCh, netVars, hb, rdCmd, phase, writeMu, ready, memVars>>

\* The select at the semaphore takes ctx.Done: the claimed command is dropped.
AbandonCommand ==
    /\ rd = "acquire" /\ ConnDone
    /\ rd' = "done"
    /\ UNCHANGED <<runVars, errCh, netVars, hb, rdCmd, why, phase, writeMu, ready,
                   memVars>>

\* ReadMessage returns the gateway's close frame 1008.  The close handler has
\* answered it, after which every write fails, unless a write that the peer does
\* not drain kept the handler from it.
ReadGoodbye ==
    /\ rd = "reading" /\ unread = 0 /\ goodbye
    /\ rd' = "report" /\ why' = "revoked"
    /\ \/ sock = "open" /\ sock' = "broken"
       \/ (sock = "open" => ~draining) /\ UNCHANGED sock
    /\ UNCHANGED <<runVars, errCh, unread, goodbye, draining, access, hb, rdCmd, phase,
                   writeMu, ready, memVars>>

\* ReadMessage fails: the connection is gone, and nothing is left of it ...
ReadFails ==
    /\ rd = "reading" /\ sock \in {"broken", "closed"} /\ unread = 0 /\ ~goodbye
    /\ rd' = "report" /\ why' = "other"
    /\ UNCHANGED <<runVars, errCh, netVars, hb, rdCmd, phase, writeMu, ready, memVars>>

\* Slip: no read deadline is set.
ReadTimesOut_never ==
    /\ FALSE
    /\ UNCHANGED vars

\* ... or no pong moved the read deadline forward in time, and the reader's buffer
\* is empty; frames it has not taken from the kernel are not read any more.
ReadTimesOut ==
    /\ rd = "reading" /\ sock = "open"
    /\ rd' = "report" /\ why' = "other"
    /\ UNCHANGED <<runVars, errCh, netVars, hb, rdCmd, phase, writeMu, ready, memVars>>

ReaderReports ==
    /\ rd = "report"
    /\ Report(why)
    /\ rd' = "done"
    /\ UNCHANGED <<runVars, netVars, hb, rdCmd, why, phase, writeMu, ready, memVars>>

----------------------------------------------------------------------------
(* handleCommand *)

\* The router returns, at the latest when cmdCtx expires.  A response that
\* cannot be encoded is dropped.
HandlerReturns(s) ==
    /\ phase[s] = "running"
    /\ \E next \in {"wantLock", "idle"} : phase' = [phase EXCEPT ![s] = next]
    /\ UNCHANGED <<runVars, errCh, netVars, hb, rdVars, writeMu, ready, memVars>>

\* Slip: the response is written without the write mutex.
HandlerLocks_unlocked(s) ==
    /\ phase[s] = "wantLock"
    /\ phase' = [phase EXCEPT ![s] = "writing"]
    /\ UNCHANGED <<runVars, errCh, netVars, hb, rdVars, writeMu, ready, memVars>>

HandlerLocks(s) ==
    /\ phase[s] = "wantLock" /\ writeMu = "free"
    /\ phase' = [phase EXCEPT ![s] = "writing"] /\ writeMu' = s
    /\ UNCHANGED <<runVars, errCh, netVars, hb, rdVars, ready, memVars>>

\* Slip: an explicit unlock that the error return skips.
HandlerExits_keepsLock(s) ==
    /\ phase[s] = "writing" /\ WriteReturns
    /\ phase' = [phase EXCEPT ![s] = "idle"]
    /\ \/ WriteWorks /\ writeMu' = "free"
       \/ UNCHANGED writeMu
    /\ UNCHANGED <<runVars, errCh, netVars, hb, rdVars, ready, memVars>>

\* The write returns, and the deferred unlock, semaphore release and Done run.
HandlerExits(s) ==
    /\ phase[s] = "writing" /\ WriteReturns
    /\ phase' = [phase EXCEPT ![s] = "idle"] /\ writeMu' = "free"
    /\ UNCHANGED <<runVars, errCh, netVars, hb, rdVars, ready, memVars>>

----------------------------------------------------------------------------
(* Environment: the process, the clock, the network and the gateway *)

Shutdown ==
    /\ ~ctxDone /\ ctxDone' = TRUE
    /\ UNCHANGED <<pc, result, connCancelled, errCh, netVars, hb, rdVars, phase,
                   writeMu, ready, memVars>>

\* A replay entry outlives commandReplayTTL; the next claim purges it.  A
\* command still waiting for a slot then no longer counts for the entry.
Expire(id) ==
    /\ id \in seen
    /\ seen' = seen \ {id}
    /\ starts' = [starts EXCEPT ![id] = 0]
    /\ why' = IF rd = "acquire" /\ rdCmd = id THEN "lapsed" ELSE why
    /\ UNCHANGED <<runVars, errCh, netVars, hb, rd, rdCmd, phase, writeMu, ready>>

Revoke ==
    /\ access = "granted" /\ access' = "revoked"
    /\ UNCHANGED <<runVars, errCh, sock, unread, goodbye, draining, hb, rdVars, phase,
                   writeMu, ready, memVars>>

\* A frame of the gateway arrives.
Receive ==
    /\ sock = "open" /\ ~goodbye /\ unread < MaxUnread
    /\ unread' = unread + 1
    /\ UNCHANGED <<runVars, errCh, sock, goodbye, draining, access, hb, rdVars, phase,
                   writeMu, ready, memVars>>

\* The gateway sends close frame 1008 (policy violation) to a revoked agent.
SayGoodbye ==
    /\ access = "revoked" /\ sock = "open" /\ ~goodbye /\ goodbye' = TRUE
    /\ UNCHANGED <<runVars, errCh, sock, unread, draining, access, hb, rdVars, phase,
                   writeMu, ready, memVars>>

Drop ==
    /\ sock = "open" /\ sock' = "broken" /\ KeepBuffered
    /\ UNCHANGED <<runVars, errCh, draining, access, hb, rdVars, phase, writeMu,
                   ready, memVars>>

\* The peer stops draining its receive buffer, or starts again.
StallOrResume ==
    /\ sock = "open" /\ draining' = ~draining
    /\ UNCHANGED <<runVars, errCh, sock, unread, goodbye, access, hb, rdVars, phase,
                   writeMu, ready, memVars>>

----------------------------------------------------------------------------

Run == LoopTop \/ Connect \/ DialRefused \/ DialFailed \/ Sleep
       \/ ServeUntilDone \/ CloseSocket \/ JoinLoops \/ SessionOver

Heartbeat == HeartbeatStops \/ HeartbeatTick \/ HeartbeatLocks \/ HeartbeatPings
             \/ HeartbeatWrites \/ HeartbeatCallback \/ HeartbeatReports

ReadFrame == ReadInvalid
             \/ \E id \in Ids : ReadDenied(id) \/ ReadDuplicate(id) \/ ReadClaimed(id)

ReadLoop ==
    \/ ReadFrame \/ RefusalLocks \/ RefusalWritten
    \/ \E s \in Slots : StartHandler(s)
    \/ AbandonCommand \/ ReadGoodbye \/ ReadFails \/ ReadTimesOut \/ ReaderReports

HandleCommand == \E s \in Slots : HandlerReturns(s) \/ HandlerLocks(s) \/ HandlerExits(s)

Environment == \/ Shutdown \/ Revoke \/ Receive \/ SayGoodbye \/ Drop \/ StallOrResume
               \/ \E id \in Ids : Expire(id)

Next == Run \/ Heartbeat \/ ReadLoop \/ HandleCommand \/ Environment

Spec == Init /\ [][Next]_vars

\* A goroutine that can take its next step takes it; sync.Mutex hands over to
\* a waiter that waited too long, hence SF on the lock; the read deadline is
\* absolute, so a peer that answers no ping meets it.  Nothing is assumed of
\* the environment, and nothing of the dial: the dialer has no handshake
\* timeout (client.go:93).
Fairness ==
    /\ WF_vars(LoopTop) /\ WF_vars(Sleep) /\ WF_vars(ServeUntilDone)
    /\ WF_vars(CloseSocket) /\ WF_vars(JoinLoops) /\ WF_vars(SessionOver)
    /\ WF_vars(HeartbeatStops \/ HeartbeatTick) /\ SF_vars(HeartbeatLocks)
    /\ WF_vars(HeartbeatPings) /\ WF_vars(HeartbeatWrites)
    /\ WF_vars(HeartbeatCallback) /\ WF_vars(HeartbeatReports)
    /\ SF_vars(RefusalLocks) /\ WF_vars(RefusalWritten)
    /\ WF_vars(AbandonCommand \/ \E s \in Slots : StartHandler(s))
    /\ WF_vars(ReadFrame) /\ WF_vars(ReadGoodbye) /\ WF_vars(ReadFails) /\ WF_vars(ReaderReports)
    /\ SF_vars(ReadTimesOut /\ ~draining)
    /\ \A s \in Slots : /\ WF_vars(HandlerReturns(s)) /\ SF_vars(HandlerLocks(s))
                        /\ WF_vars(HandlerExits(s))

FairSpec == Spec /\ Fairness

----------------------------------------------------------------------------
(* Safety *)

\* No goroutine of a session outlives it: while Run dials, sleeps or has
\* returned, both loops and every handler of earlier sessions have exited and
\* none holds the write mutex (the two Wait calls, client.go:185).
SessionIsolated ==
    pc \notin Session =>
        /\ hb \in {"off", "done"} /\ rd \in {"off", "done"}
        /\ \A s \in Slots : phase[s] = "idle"
        /\ writeMu = "free"

\* The agent reports a connected gateway only during a session: no late
\* heartbeat callback sets the flag after Run cleared it (client.go:129,209).
ReadyMeansSession == ready => pc \in Session

Writers == {w \in {"hb", "rd"} \cup Slots : \/ w = "hb" /\ hb = "beating"
                                            \/ w = "rd" /\ rd = "refusing"
                                            \/ w \in Slots /\ phase[w] = "writing"}

\* Heartbeats, refusals and responses are data frames of three kinds of
\* goroutine; the websocket library allows one of them in WriteMessage at a
\* time and panics otherwise (client.go:198,320,379).
OneWriter == \A v, w \in Writers : v = w

\* While the gateway's command id is remembered its command is started at most
\* once, across redeliveries and across reconnects (client.go:294).
AtMostOnce == \A id \in Ids : starts[id] <= 1

\* Run gives up for the reason it returns: "access revoked" only when the
\* gateway revoked the token, "canceled" only on shutdown (client.go:131-136).
OutcomeIsReal ==
    pc = "returned" => \/ result = "revoked" /\ access = "revoked"
                       \/ result = "canceled" /\ ctxDone

\* A session that lost one of its loops is not left serving: unless shutdown
\* will wake serveConnection, an error is waiting for it, although neither
\* report may block (client.go:158,329).
LostLoopIsReported ==
    pc = "serving" /\ "done" \in {hb, rd} => errCh # <<>> \/ ctxDone

\* How many steps each goroutine takes at the most once the socket is closed: a
\* heartbeat may still tick; a reader may still start the command it holds, and
\* read, refuse or start what is left in its buffer, at five steps for each frame.
HbMoves == [off |-> 0, done |-> 0, report |-> 1, beating |-> 2, pinging |-> 3,
            wantLock |-> 4, idle |-> 5, callback |-> 6]
RdMoves == [off |-> 0, done |-> 0, report |-> 1, reading |-> 2, refusing |-> 3,
            refuse |-> 4, acquire |-> 6]
ReaderMovesLeft == IF rd \in {"off", "done", "report"} THEN RdMoves[rd]
                   ELSE RdMoves[rd] + 5 * unread
At(f, p) == {s \in Slots : f[s] = p}
HandlerMoves(f) == 3 * Cardinality(At(f, "running")) + 2 * Cardinality(At(f, "wantLock"))
                   + Cardinality(At(f, "writing"))
MovesLeft == HbMoves[hb] + ReaderMovesLeft + HandlerMoves(phase)

\* Once the socket is closed the session winds down: whichever of its goroutines
\* moves, whatever they still do to each other and whatever commands the reader
\* still finds in its buffer, there is less left to do, so the two Wait calls end
\* (client.go:151, 184-185, 218).
TeardownAdvances ==
    [][(pc \in {"joinLoops", "joinCommands"})
         => MovesLeft' < MovesLeft
            \/ UNCHANGED <<hb, rd, unread, phase, writeMu, sock>>]_vars

\* A goroutine with a step to take that waits for no other one.
HeartbeatMoves ==
    \/ hb \in {"idle", "pinging", "callback", "report"}
    \/ hb = "wantLock" /\ writeMu = "free"
    \/ hb = "beating" /\ WriteReturns
ReaderMoves ==
    \/ rd \in {"reading", "report"}
    \/ rd = "acquire" /\ (ConnDone \/ \E s \in Slots : phase[s] = "idle")
    \/ rd = "refuse" /\ writeMu = "free"
    \/ rd = "refusing" /\ WriteReturns
HandlerCanMove(s) ==
    \/ phase[s] = "running"
    \/ phase[s] = "wantLock" /\ writeMu = "free"
    \/ phase[s] = "writing" /\ WriteReturns

\* And it never gets stuck on the way: as long as anything is left to do, not all
\* that is left waits for the write mutex, for a slot or for the peer, for whoever
\* has the mutex then writes to a closed socket (client.go:151, 198, 320, 379).
TeardownNeverStuck ==
    pc \in {"joinLoops", "joinCommands"} /\ MovesLeft > 0 =>
        HeartbeatMoves \/ ReaderMoves \/ \E s \in Slots : HandlerCanMove(s)

(* Liveness, under FairSpec *)

\* Shutdown completes whatever the peer does, also with a write stuck on it:
\* closing the socket frees every goroutine (client.go:151).  A handshake
\* nobody answers is the exception.
ShutdownCompletes == (ctxDone /\ pc # "dialing") ~> (pc = "returned")

\* A broken connection is noticed, wherever the reader waits: in a read, for
\* the write mutex or for a slot (client.go:206,219,243).
BrokenSessionEnds == (sock = "broken") ~> (pc # "serving")

\* With a peer that keeps draining, every started handler writes its response
\* and frees its slot, whoever competes for the write mutex (client.go:247).
HandlersFinish ==
    <>[]draining => \A s \in Slots : (phase[s] = "running") ~> (phase[s] = "idle")

\* A session that a non-draining peer keeps up for ever is stuck in one way
\* only: a writer sits in WriteMessage with the mutex and the reader waits
\* behind it.  Otherwise the read deadline ends the session (heartbeat.go:10).
StuckOnlyBehindAWrite ==
    <>[](pc = "serving" /\ ~draining) =>
        <>[](writeMu # "free" /\ rd \in {"refuse", "refusing", "acquire"})

(* What the source says and the code does not do *)

\* A command is answered "command id was already processed" (client.go:235)
\* only if a handler was started for that id.
DuplicateMeansStarted ==
    [][rd = "reading" /\ rd' = "refuse" /\ why' = "duplicate"
         => starts[rdCmd'] > 0]_vars

\* A serveConnection whose reader has received close frame 1008 settles on it
\* (or on shutdown), so that Run does not retry the revoked token
\* (client.go:31; "subsequent errors are irrelevant", client.go:328).
RevocationNotLost ==
    [][pc = "serving" /\ why = "revoked" => result' # "other"]_vars

============================================================================
