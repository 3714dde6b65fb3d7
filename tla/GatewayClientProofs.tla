------------------------ MODULE GatewayClientProofs ------------------------
(***************************************************************************)
(* Proofs about GatewayClient for every set of ids, every number of        *)
(* semaphore slots and every size of the replay memory.                    *)
(*                                                                         *)
(* The safety properties of GatewayClient are not inductive on their own.  *)
(* Each gets the strengthening that its argument needs, one named          *)
(* conjunction per argument, and each of these is shown to be kept by      *)
(* every step, action by action.                                           *)
(***************************************************************************)
EXTENDS GatewayRefinement, Integers, FiniteSetTheorems, TLAPS

\* A reader that reports has read 1008 or met another error.
TypeInv == TypeOK /\ (rd = "report" => why \in {"revoked", "other"})

\* The owner recorded in writeMu is the one goroutine inside its critical
\* section, and nobody is inside when the mutex is free.
LockInv ==
    /\ writeMu = "hb" <=> hb \in {"pinging", "beating"}
    /\ writeMu = "rd" <=> rd = "refusing"
    /\ \A s \in Slots : writeMu = s <=> phase[s] = "writing"

\* serveConnection passes loopWG.Wait only with both loops gone, and leaves
\* only with every handler gone.
JoinInv ==
    /\ pc \notin Session => /\ hb \in {"off", "done"} /\ rd \in {"off", "done"}
                            /\ \A s \in Slots : phase[s] = "idle"
    /\ pc = "joinCommands" => hb = "done" /\ rd = "done"

\* Whatever can become the result of a session is already true of the world.
ReasonInv ==
    /\ goodbye => access = "revoked"
    /\ why = "revoked" => access = "revoked"
    /\ \A i \in 1..Len(errCh) : errCh[i] = "revoked" => access = "revoked"
    /\ pc \in Session \ {"serving"} =>
         /\ result # "none"
         /\ result = "revoked" => access = "revoked"
         /\ result = "canceled" => ctxDone

\* A start is counted against an entry, and a claim is spent by its start.
ClaimInv ==
    /\ \A id \in Ids : id \notin seen => starts[id] = 0
    /\ rd = "acquire" /\ why = "claimed" =>
         rdCmd \in Ids /\ rdCmd \in seen /\ starts[rdCmd] = 0

\* While serving, the connection context is cancelled only by shutdown.
ServingInv == pc = "serving" => ~connCancelled

----------------------------------------------------------------------------

\* Reporting an error never overflows errCh, and adds an error of its type.
LEMMA ReportTyped ==
  ASSUME TypeOK, NEW err \in {"revoked", "other"}, Report(err)
  PROVE  errCh' \in Pending
<1> USE DEF TypeOK, ErrChCapacity, Pending
<1>1. CASE Len(errCh) < ErrChCapacity /\ errCh' = Append(errCh, err)
  <2>1. errCh' \in Seq({"revoked", "other"})
    BY <1>1
  <2>2. Len(errCh') = Len(errCh) + 1
    BY <1>1
  <2> QED BY <1>1, <2>1, <2>2
<1>2. CASE UNCHANGED errCh
  BY <1>2
<1> QED BY <1>1, <1>2 DEF Report

\* Receiving from errCh keeps its type.
LEMMA ReceiveTyped ==
  ASSUME TypeOK, errCh # <<>>
  PROVE  /\ Head(errCh) \in {"revoked", "other"}
         /\ Tail(errCh) \in Pending
BY DEF TypeOK, Pending, ErrChCapacity

\* Counting one more start, or forgetting the starts of an id, keeps the type.
LEMMA CountsClosed ==
  ASSUME NEW count \in Counts, NEW id
  PROVE  /\ [count EXCEPT ![id] = @ + 1] \in Counts
         /\ [count EXCEPT ![id] = 0] \in Counts
<1>1. \A i \in Ids : count[i] + 1 \in Nat
  BY DEF Counts
<1> QED BY <1>1 DEF Counts

\* What is left of the buffered frames is no more than there was.
LEMMA BufferTyped ==
  ASSUME TypeOK, KeepBuffered
  PROVE  unread' \in 0..MaxUnread /\ goodbye' \in BOOLEAN
<1>1. unread' \in 0..MaxUnread
  BY MaxUnreadAssumption DEF TypeOK, KeepBuffered
<1>2. goodbye' \in BOOLEAN
  BY DEF TypeOK, KeepBuffered
<1> QED BY <1>1, <1>2

\* Every variable keeps its type, and a reader that reports holds an error.
THEOREM TypeCorrect == Spec => []TypeInv
<1>1. Init => TypeInv
  <2> SUFFICES ASSUME Init PROVE TypeInv
    OBVIOUS
  <2>1. errCh \in Pending
    BY DEF Init, Pending, ErrChCapacity
  <2>2. phase \in Phases /\ starts \in Counts
    BY DEF Init, Phases, Counts
  <2>3. unread \in 0..MaxUnread
    BY MaxUnreadAssumption DEF Init
  <2> QED BY <2>1, <2>2, <2>3 DEF Init, TypeInv, TypeOK, PcStates, Results, Sockets,
       HbStates, RdStates, Reasons, Owners
<1>2. TypeInv /\ [Next]_vars => TypeInv'
  <2> SUFFICES ASSUME TypeInv, [Next]_vars PROVE TypeInv'
    OBVIOUS
  <2> USE DEF TypeInv, TypeOK, runVars, netVars, rdVars, memVars
  <2>1. CASE Run
    <3>1. CASE LoopTop \/ Sleep
      BY <3>1 DEF LoopTop, Sleep, Return, PcStates, Results
    <3>2. CASE Connect
      <4>1. errCh' \in Pending
        BY <3>2 DEF Connect, Pending, ErrChCapacity
      <4>2. unread' \in 0..MaxUnread
        BY <3>2, MaxUnreadAssumption DEF Connect
      <4> QED BY <3>2, <4>1, <4>2 DEF Connect, PcStates, Session, Results,
           Sockets, HbStates, RdStates, Reasons
    <3>3. CASE DialRefused \/ DialFailed
      BY <3>3 DEF DialRefused, DialFailed, Return, PcStates, Results
    <3>4. CASE ServeUntilDone
      <4>1. errCh' \in Pending /\ result' \in {"canceled", "revoked", "other"}
        BY <3>4, ReceiveTyped DEF ServeUntilDone
      <4> QED BY <3>4, <4>1 DEF ServeUntilDone, PcStates, Session, Results
    <3>5. CASE CloseSocket
      <4>1. unread' \in 0..MaxUnread /\ goodbye' \in BOOLEAN
        BY <3>5, BufferTyped DEF CloseSocket
      <4> QED BY <3>5, <4>1 DEF CloseSocket, PcStates, Session, Sockets
    <3>6. CASE JoinLoops
      BY <3>6 DEF JoinLoops, PcStates, Session
    <3>7. CASE SessionOver
      BY <3>7 DEF SessionOver, PcStates
    <3> QED BY <2>1, <3>1, <3>2, <3>3, <3>4, <3>5, <3>6, <3>7 DEF Run
  <2>2. CASE Heartbeat
    <3>1. CASE HeartbeatReports
      <4>1. errCh' \in Pending
        BY <3>1, ReportTyped DEF HeartbeatReports
      <4> QED BY <3>1, <4>1 DEF HeartbeatReports, HbStates
    <3>2. CASE HeartbeatStops \/ HeartbeatTick \/ HeartbeatCallback
      BY <3>2 DEF HeartbeatStops, HeartbeatTick, HeartbeatCallback, HbStates
    <3>3. CASE HeartbeatLocks \/ HeartbeatPings \/ HeartbeatWrites
      BY <3>3 DEF HeartbeatLocks, HeartbeatPings, HeartbeatWrites, HbStates, Owners
    <3> QED BY <2>2, <3>1, <3>2, <3>3 DEF Heartbeat
  <2>3. CASE ReadLoop
    <3>1. CASE ReadFrame
      <4>1. unread' \in 0..MaxUnread /\ UNCHANGED <<sock, goodbye, draining, access>>
        BY <3>1, MaxUnreadAssumption DEF ReadFrame, ReadMessage, ReadInvalid, ReadDenied,
           ReadDuplicate, ReadClaimed
      <4> QED BY <3>1, <4>1 DEF ReadFrame, ReadInvalid, ReadDenied, ReadDuplicate,
           ReadClaimed, RdStates, Reasons
    <3>2. CASE RefusalLocks \/ RefusalWritten
      BY <3>2 DEF RefusalLocks, RefusalWritten, RdStates, Reasons, Owners
    <3>3. ASSUME NEW s \in Slots, StartHandler(s) PROVE TypeInv'
      <4>1. phase' \in Phases
        BY <3>3 DEF StartHandler, Phases
      <4>2. starts' \in Counts
        BY <3>3, CountsClosed DEF StartHandler
      <4>3. /\ rd' = "reading" /\ rdCmd' = NoId /\ why' = "none"
            /\ UNCHANGED <<runVars, errCh, netVars, hb, writeMu, ready, seen>>
        BY <3>3 DEF StartHandler
      <4> QED BY <4>1, <4>2, <4>3 DEF RdStates, Reasons
    <3>4. CASE AbandonCommand \/ ReadFails \/ ReadTimesOut
      BY <3>4 DEF AbandonCommand, ReadFails, ReadTimesOut, RdStates, Reasons
    <3>5. CASE ReadGoodbye
      BY <3>5 DEF ReadGoodbye, RdStates, Reasons, Sockets
    <3>6. CASE ReaderReports
      <4>1. errCh' \in Pending
        BY <3>6, ReportTyped DEF ReaderReports
      <4> QED BY <3>6, <4>1 DEF ReaderReports, RdStates
    <3> QED BY <2>3, <3>1, <3>2, <3>3, <3>4, <3>5, <3>6 DEF ReadLoop
  <2>4. CASE HandleCommand
    <3>1. PICK s \in Slots : HandlerReturns(s) \/ HandlerLocks(s) \/ HandlerExits(s)
      BY <2>4 DEF HandleCommand
    <3>2. phase' \in Phases
      BY <3>1 DEF HandlerReturns, HandlerLocks, HandlerExits, Phases
    <3> QED BY <3>1, <3>2 DEF HandlerReturns, HandlerLocks, HandlerExits, Owners
  <2>5. CASE Environment
    <3>1. CASE Shutdown \/ Revoke \/ StallOrResume
      BY <3>1 DEF Shutdown, Revoke, StallOrResume
    <3>2. CASE Receive \/ SayGoodbye \/ Drop
      <4>1. unread' \in 0..MaxUnread
        BY <3>2, BufferTyped, MaxUnreadAssumption DEF Receive, SayGoodbye, Drop
      <4>2. goodbye' \in BOOLEAN
        BY <3>2, BufferTyped DEF Receive, SayGoodbye, Drop
      <4> QED BY <3>2, <4>1, <4>2 DEF Receive, SayGoodbye, Drop, Sockets
    <3>3. ASSUME NEW id \in Ids, Expire(id) PROVE TypeInv'
      <4>1. starts' \in Counts
        BY <3>3 DEF Expire, Counts
      <4> QED BY <3>3, <4>1 DEF Expire, Reasons
    <3> QED BY <2>5, <3>1, <3>2, <3>3 DEF Environment
  <2>6. CASE UNCHANGED vars
    BY <2>6 DEF vars
  <2> QED BY <2>1, <2>2, <2>3, <2>4, <2>5, <2>6 DEF Next
<1> QED BY <1>1, <1>2, PTL DEF Spec

\* So the type invariant the runs check holds for any number of ids and slots.
THEOREM TypesKept == Spec => []TypeOK
<1>1. TypeInv => TypeOK
  BY DEF TypeInv
<1> QED BY <1>1, TypeCorrect, PTL

----------------------------------------------------------------------------
(* Goroutines: the write mutex and the end of a session *)

\* The mutex owner is the goroutine in its critical section, and a session
\* leaves none of its goroutines behind.  The two go together: Connect resets
\* the loops, which is harmless only because neither holds the mutex.
THEOREM GoroutinesCorrect == Spec => [](LockInv /\ JoinInv)
<1>1. Init => LockInv /\ JoinInv
  <2> SUFFICES ASSUME Init PROVE LockInv /\ JoinInv
    OBVIOUS
  <2>1. \A s \in Slots : s # "free" /\ phase[s] = "idle"
    BY SlotsAssumption DEF Init
  <2> QED BY <2>1 DEF Init, LockInv, JoinInv, Session
<1>2. TypeInv /\ LockInv /\ JoinInv /\ [Next]_vars => LockInv' /\ JoinInv'
  <2> SUFFICES ASSUME TypeInv, LockInv, JoinInv, [Next]_vars
               PROVE  LockInv' /\ JoinInv'
    OBVIOUS
  <2>1. \A s \in Slots : s \notin {"free", "hb", "rd"}
    BY SlotsAssumption
  <2>2. phase \in [Slots -> {"idle", "running", "wantLock", "writing"}]
    BY DEF TypeInv, TypeOK, Phases
  <2> USE DEF LockInv, JoinInv, Session
  <2>3. CASE UNCHANGED <<pc, hb, rd, phase, writeMu>>
    BY <2>3
  <2>4. CASE Run
    <3>1. CASE LoopTop \/ DialRefused \/ DialFailed \/ Sleep
      BY <3>1 DEF LoopTop, DialRefused, DialFailed, Sleep, Return, rdVars
    <3>2. CASE Connect
      BY <3>2 DEF Connect
    <3>3. CASE ServeUntilDone \/ CloseSocket
      BY <3>3 DEF ServeUntilDone, CloseSocket, rdVars
    <3>4. CASE JoinLoops \/ SessionOver
      BY <3>4 DEF JoinLoops, SessionOver, rdVars
    <3> QED BY <2>4, <3>1, <3>2, <3>3, <3>4 DEF Run
  <2>5. CASE Heartbeat
    <3>1. CASE HeartbeatStops \/ HeartbeatTick \/ HeartbeatCallback \/ HeartbeatReports
      BY <3>1 DEF HeartbeatStops, HeartbeatTick, HeartbeatCallback,
         HeartbeatReports, runVars, rdVars
    <3>2. CASE HeartbeatLocks \/ HeartbeatPings \/ HeartbeatWrites
      BY <2>1, <3>2 DEF HeartbeatLocks, HeartbeatPings, HeartbeatWrites, runVars, rdVars
    <3> QED BY <2>5, <3>1, <3>2 DEF Heartbeat
  <2>6. CASE ReadLoop
    <3>1. CASE ReadFrame
      BY <3>1 DEF ReadFrame, ReadMessage, ReadInvalid, ReadDenied, ReadDuplicate,
         ReadClaimed, runVars, rdVars
    <3>2. CASE RefusalLocks \/ RefusalWritten
      BY <2>1, <3>2 DEF RefusalLocks, RefusalWritten, runVars
    <3>3. ASSUME NEW s \in Slots, StartHandler(s) PROVE LockInv' /\ JoinInv'
      BY <2>2, <3>3 DEF StartHandler, runVars
    <3>4. CASE AbandonCommand \/ ReadGoodbye \/ ReadFails \/ ReadTimesOut \/ ReaderReports
      BY <3>4 DEF AbandonCommand, ReadGoodbye, ReadFails, ReadTimesOut,
         ReaderReports, runVars
    <3> QED BY <2>6, <3>1, <3>2, <3>3, <3>4 DEF ReadLoop
  <2>7. ASSUME NEW s \in Slots, HandlerReturns(s) \/ HandlerLocks(s) \/ HandlerExits(s)
        PROVE LockInv' /\ JoinInv'
    <3>1. CASE HandlerReturns(s)
      BY <2>2, <3>1 DEF HandlerReturns, runVars, rdVars
    <3>2. CASE HandlerLocks(s) \/ HandlerExits(s)
      BY <2>1, <2>2, <3>2 DEF HandlerLocks, HandlerExits, runVars, rdVars
    <3> QED BY <2>7, <3>1, <3>2
  <2>8. CASE Environment
    BY <2>3, <2>8 DEF Environment, Shutdown, Revoke, Receive, SayGoodbye, Drop,
       StallOrResume, Expire, runVars, rdVars
  <2>9. CASE UNCHANGED vars
    BY <2>3, <2>9 DEF vars
  <2> QED BY <2>4, <2>5, <2>6, <2>7, <2>8, <2>9 DEF Next, HandleCommand
<1> QED BY <1>1, <1>2, TypeCorrect, PTL DEF Spec

\* At most one goroutine is in WriteMessage.
THEOREM WritesExclusive == Spec => []OneWriter
<1>1. TypeInv /\ LockInv => OneWriter
  BY SlotsAssumption DEF LockInv, OneWriter, Writers
<1> QED BY <1>1, TypeCorrect, GoroutinesCorrect, PTL

\* Between sessions, and after Run returned, no goroutine of a session exists
\* and the mutex is free.
THEOREM SessionsIsolated == Spec => []SessionIsolated
<1>1. TypeInv /\ LockInv /\ JoinInv => SessionIsolated
  <2> SUFFICES ASSUME TypeInv, LockInv, JoinInv, pc \notin Session
               PROVE  writeMu = "free"
    BY DEF JoinInv, SessionIsolated
  <2>1. writeMu # "hb" /\ writeMu # "rd" /\ writeMu \notin Slots
    BY DEF LockInv, JoinInv
  <2> QED BY <2>1 DEF TypeInv, TypeOK, Owners
<1> QED BY <1>1, TypeCorrect, GoroutinesCorrect, PTL

\* The readiness flag is up only during a session: the callback that raises it
\* runs in a heartbeat that SessionOver has waited for.
THEOREM ReadinessHonest == Spec => []ReadyMeansSession
<1>1. Init => ReadyMeansSession
  BY DEF Init, ReadyMeansSession
<1>2. JoinInv /\ ReadyMeansSession /\ [Next]_vars => ReadyMeansSession'
  <2> SUFFICES ASSUME JoinInv, ReadyMeansSession, [Next]_vars
               PROVE  ReadyMeansSession'
    OBVIOUS
  <2> USE DEF ReadyMeansSession, Session
  <2>1. CASE UNCHANGED <<pc, ready>>
    BY <2>1
  <2>2. CASE Run
    BY <2>2 DEF Run, LoopTop, Connect, DialRefused, DialFailed, Sleep, Return,
       ServeUntilDone, CloseSocket, JoinLoops, SessionOver
  <2>3. CASE HeartbeatCallback
    BY <2>3 DEF HeartbeatCallback, JoinInv, runVars
  <2>4. CASE Heartbeat /\ ~HeartbeatCallback
    BY <2>1, <2>4 DEF Heartbeat, HeartbeatStops, HeartbeatTick, HeartbeatLocks,
       HeartbeatPings, HeartbeatWrites, HeartbeatReports, runVars
  <2>5. CASE ReadLoop
    BY <2>1, <2>5 DEF ReadLoop, ReadFrame, ReadMessage, ReadInvalid, ReadDenied,
       ReadDuplicate, ReadClaimed,
       RefusalLocks, RefusalWritten, StartHandler, AbandonCommand, ReadGoodbye,
       ReadFails, ReadTimesOut, ReaderReports, runVars
  <2>6. CASE HandleCommand
    BY <2>1, <2>6 DEF HandleCommand, HandlerReturns, HandlerLocks, HandlerExits, runVars
  <2>7. CASE Environment
    BY <2>1, <2>7 DEF Environment, Shutdown, Revoke, Receive, SayGoodbye, Drop,
       StallOrResume, Expire, runVars
  <2>8. CASE UNCHANGED vars
    BY <2>1, <2>8 DEF vars
  <2> QED BY <2>2, <2>3, <2>4, <2>5, <2>6, <2>7, <2>8 DEF Next
<1> QED BY <1>1, <1>2, GoroutinesCorrect, PTL DEF Spec

----------------------------------------------------------------------------
(* The replay memory *)

\* Between two expiries of its replay entry a command is started at most once:
\* a claim needs an id nobody started, and the start spends the claim.
THEOREM CommandsAtMostOnce == Spec => [](ClaimInv /\ AtMostOnce)
<1>1. Init => ClaimInv /\ AtMostOnce
  BY DEF Init, ClaimInv, AtMostOnce
<1>2. TypeInv /\ ClaimInv /\ AtMostOnce /\ [Next]_vars => ClaimInv' /\ AtMostOnce'
  <2> SUFFICES ASSUME TypeInv, ClaimInv, AtMostOnce, [Next]_vars
               PROVE  ClaimInv' /\ AtMostOnce'
    OBVIOUS
  <2>1. seen \subseteq Ids /\ starts \in [Ids -> Nat]
    BY DEF TypeInv, TypeOK, Counts
  <2> USE DEF ClaimInv, AtMostOnce
  <2>2. CASE UNCHANGED <<rd, rdCmd, why, seen, starts>>
    BY <2>2
  <2>3. CASE Connect
    BY <2>3 DEF Connect, memVars
  <2>4. CASE Run /\ ~Connect
    BY <2>2, <2>4 DEF Run, LoopTop, DialRefused, DialFailed, Sleep,
       ServeUntilDone, CloseSocket, JoinLoops, SessionOver, rdVars, memVars
  <2>5. CASE Heartbeat
    BY <2>2, <2>5 DEF Heartbeat, HeartbeatStops, HeartbeatTick, HeartbeatLocks,
       HeartbeatPings, HeartbeatWrites, HeartbeatCallback, HeartbeatReports,
       rdVars, memVars
  <2>6. ASSUME NEW id \in Ids, ReadDenied(id) \/ ReadDuplicate(id)
        PROVE  ClaimInv' /\ AtMostOnce'
    BY <2>6 DEF ReadDenied, ReadDuplicate, memVars
  <2>7. ASSUME NEW id \in Ids, ReadClaimed(id) PROVE ClaimInv' /\ AtMostOnce'
    BY <2>1, <2>7 DEF ReadClaimed, CanClaim
  <2>14. CASE ReadInvalid
    BY <2>2, <2>14 DEF ReadInvalid, rdVars, memVars
  <2>8. ASSUME NEW s \in Slots, StartHandler(s) PROVE ClaimInv' /\ AtMostOnce'
    <3>1. CASE why = "claimed"
      BY <2>1, <2>8, <3>1 DEF StartHandler
    <3>2. CASE why # "claimed"
      BY <2>8, <3>2 DEF StartHandler
    <3> QED BY <3>1, <3>2
  <2>9. CASE RefusalLocks \/ RefusalWritten \/ AbandonCommand \/ ReadGoodbye
             \/ ReadFails \/ ReadTimesOut \/ ReaderReports
    BY <2>9 DEF RefusalLocks, RefusalWritten, AbandonCommand, ReadGoodbye,
       ReadFails, ReadTimesOut, ReaderReports, memVars
  <2>10. CASE HandleCommand
    BY <2>2, <2>10 DEF HandleCommand, HandlerReturns, HandlerLocks, HandlerExits,
       rdVars, memVars
  <2>11. ASSUME NEW id \in Ids, Expire(id) PROVE ClaimInv' /\ AtMostOnce'
    BY <2>1, <2>11 DEF Expire
  <2>12. CASE Shutdown \/ Revoke \/ Receive \/ SayGoodbye \/ Drop \/ StallOrResume
    BY <2>2, <2>12 DEF Shutdown, Revoke, Receive, SayGoodbye, Drop, StallOrResume,
       rdVars, memVars
  <2>13. CASE UNCHANGED vars
    BY <2>2, <2>13 DEF vars
  <2> QED BY <2>3, <2>4, <2>5, <2>6, <2>7, <2>8, <2>9, <2>10, <2>11, <2>12, <2>13,
       <2>14 DEF Next, ReadLoop, ReadFrame, Environment
<1> QED BY <1>1, <1>2, TypeCorrect, PTL DEF Spec

----------------------------------------------------------------------------
(* Errors: what Run returns, and that a lost loop is never silent *)

\* Reporting an error that is true of the world keeps ReasonInv's part on errCh.
LEMMA ReportReal ==
  ASSUME TypeOK, NEW err \in {"revoked", "other"}, Report(err),
         err = "revoked" => access = "revoked",
         \A i \in 1..Len(errCh) : errCh[i] = "revoked" => access = "revoked"
  PROVE  \A i \in 1..Len(errCh') : errCh'[i] = "revoked" => access = "revoked"
<1> USE DEF TypeOK, Pending
<1>1. CASE errCh' = Append(errCh, err)
  <2>1. /\ Len(errCh') = Len(errCh) + 1
        /\ \A i \in 1..Len(errCh) : errCh'[i] = errCh[i]
        /\ errCh'[Len(errCh) + 1] = err
    BY <1>1
  <2>2. \A i \in 1..Len(errCh') : i \in 1..Len(errCh) \/ i = Len(errCh) + 1
    BY <2>1
  <2> QED BY <2>1, <2>2
<1>2. CASE UNCHANGED errCh
  BY <1>2
<1> QED BY <1>1, <1>2 DEF Report

\* Run returns "access revoked" only when the gateway revoked the token, and
\* "canceled" only on shutdown: every error keeps its meaning on its way from
\* the socket through the reader, errCh and serveConnection.
THEOREM OutcomesReal == Spec => [](ReasonInv /\ OutcomeIsReal)
<1>1. Init => ReasonInv /\ OutcomeIsReal
  BY DEF Init, ReasonInv, OutcomeIsReal, Session
<1>2. TypeInv /\ ReasonInv /\ OutcomeIsReal /\ [Next]_vars
        => ReasonInv' /\ OutcomeIsReal'
  <2> SUFFICES ASSUME TypeInv, ReasonInv, OutcomeIsReal, [Next]_vars
               PROVE  ReasonInv' /\ OutcomeIsReal'
    OBVIOUS
  <2> USE DEF ReasonInv, OutcomeIsReal, Session
  <2>1. CASE UNCHANGED <<pc, result, ctxDone, errCh, goodbye, access, why>>
    BY <2>1
  <2>2. CASE Run
    <3>1. CASE Connect
      BY <3>1 DEF Connect
    <3>2. CASE LoopTop \/ DialRefused \/ DialFailed \/ Sleep
      BY <3>2 DEF LoopTop, DialRefused, DialFailed, Sleep, Return, netVars, rdVars
    <3>3. CASE ServeUntilDone
      <4>1. CASE ctxDone /\ result' = "canceled" /\ UNCHANGED errCh
        BY <3>3, <4>1 DEF ServeUntilDone, netVars, rdVars
      <4>2. CASE errCh # <<>> /\ result' = Head(errCh) /\ errCh' = Tail(errCh)
        <5>1. errCh \in Seq({"revoked", "other"})
          BY DEF TypeInv, TypeOK, Pending
        <5>2. /\ result' \in {"revoked", "other"}
              /\ result' = "revoked" => access = "revoked"
          BY <4>2, <5>1
        <5>3. \A i \in 1..Len(errCh') : errCh'[i] = errCh[i+1] /\ i+1 \in 1..Len(errCh)
          BY <4>2, <5>1
        <5> QED BY <3>3, <5>2, <5>3 DEF ServeUntilDone, netVars, rdVars
      <4> QED BY <3>3, <4>1, <4>2 DEF ServeUntilDone
    <3>4. CASE CloseSocket \/ JoinLoops
      BY <3>4 DEF CloseSocket, KeepBuffered, JoinLoops, netVars, rdVars
    <3>5. CASE SessionOver
      <4>1. result \in {"none", "canceled", "revoked", "other"}
        BY DEF TypeInv, TypeOK, Results
      <4> QED BY <3>5, <4>1 DEF SessionOver, netVars, rdVars
    <3> QED BY <2>2, <3>1, <3>2, <3>3, <3>4, <3>5 DEF Run
  <2>3. CASE HeartbeatReports
    <3>1. \A i \in 1..Len(errCh') : errCh'[i] = "revoked" => access = "revoked"
      BY <2>3, ReportReal DEF HeartbeatReports, TypeInv
    <3> QED BY <2>3, <3>1 DEF HeartbeatReports, runVars, netVars, rdVars
  <2>4. CASE Heartbeat /\ ~HeartbeatReports
    BY <2>1, <2>4 DEF Heartbeat, HeartbeatStops, HeartbeatTick, HeartbeatLocks,
       HeartbeatPings, HeartbeatWrites, HeartbeatCallback, runVars, netVars, rdVars
  <2>5. CASE ReaderReports
    <3>1. \A i \in 1..Len(errCh') : errCh'[i] = "revoked" => access = "revoked"
      BY <2>5, ReportReal DEF ReaderReports, TypeInv
    <3> QED BY <2>5, <3>1 DEF ReaderReports, runVars, netVars
  <2>6. CASE ReadGoodbye
    BY <2>6 DEF ReadGoodbye, runVars
  <2>7. CASE ReadLoop /\ ~ReaderReports /\ ~ReadGoodbye
    BY <2>7 DEF ReadLoop, ReadFrame, ReadMessage, ReadInvalid, ReadDenied,
       ReadDuplicate, ReadClaimed, RefusalLocks,
       RefusalWritten, StartHandler, AbandonCommand, ReadFails, ReadTimesOut,
       runVars, netVars, rdVars
  <2>8. CASE HandleCommand
    BY <2>1, <2>8 DEF HandleCommand, HandlerReturns, HandlerLocks, HandlerExits,
       runVars, netVars, rdVars
  <2>9. CASE Environment
    <3>1. CASE Shutdown \/ StallOrResume
      BY <3>1 DEF Shutdown, StallOrResume, runVars, netVars, rdVars
    <3>2. CASE Revoke
      BY <3>2 DEF Revoke, runVars, rdVars
    <3>3. CASE Receive \/ SayGoodbye \/ Drop
      BY <3>3 DEF Receive, SayGoodbye, Drop, KeepBuffered, runVars, rdVars
    <3>4. ASSUME NEW id \in Ids, Expire(id) PROVE ReasonInv' /\ OutcomeIsReal'
      BY <3>4 DEF Expire, runVars, netVars
    <3> QED BY <2>9, <3>1, <3>2, <3>3, <3>4 DEF Environment
  <2>10. CASE UNCHANGED vars
    BY <2>1, <2>10 DEF vars
  <2> QED BY <2>2, <2>3, <2>4, <2>5, <2>6, <2>7, <2>8, <2>9, <2>10 DEF Next
<1> QED BY <1>1, <1>2, TypeCorrect, PTL DEF Spec

\* A serving session that lost a loop has an error waiting for it, unless
\* shutdown wakes it: Report drops an error only when the context is done or
\* the channel already holds one.
THEOREM LostLoopsReported == Spec => [](ServingInv /\ LostLoopIsReported)
<1>1. Init => ServingInv /\ LostLoopIsReported
  BY DEF Init, ServingInv, LostLoopIsReported
<1>2. TypeInv /\ ServingInv /\ LostLoopIsReported /\ [Next]_vars
        => ServingInv' /\ LostLoopIsReported'
  <2> SUFFICES ASSUME TypeInv, ServingInv, LostLoopIsReported, [Next]_vars
               PROVE  ServingInv' /\ LostLoopIsReported'
    OBVIOUS
  <2> USE DEF ServingInv, LostLoopIsReported
  <2>1. errCh \in Seq({"revoked", "other"})
    BY DEF TypeInv, TypeOK, Pending
  <2>2. \A err : Report(err) => errCh' # <<>> \/ ConnDone
    <3>1. ASSUME NEW err, Report(err), errCh' = <<>> PROVE ConnDone
      <4>1. \/ Len(errCh) < 2 /\ errCh' = Append(errCh, err)
            \/ (ConnDone \/ Len(errCh) >= 2) /\ errCh' = errCh
        BY <3>1 DEF Report, ErrChCapacity
      <4>2. Append(errCh, err) # <<>>
        BY <2>1
      <4> QED BY <3>1, <4>1, <4>2
    <3> QED BY <3>1
  <2>3. CASE UNCHANGED <<pc, ctxDone, connCancelled, errCh, hb, rd>>
    BY <2>3
  <2>4. CASE Run
    BY <2>4 DEF Run, LoopTop, Connect, DialRefused, DialFailed, Sleep, Return,
       ServeUntilDone, CloseSocket, JoinLoops, SessionOver
  <2>5. CASE HeartbeatReports \/ ReaderReports
    BY <2>2, <2>5 DEF HeartbeatReports, ReaderReports, ConnDone, runVars
  <2>6. CASE HeartbeatStops \/ AbandonCommand
    BY <2>6 DEF HeartbeatStops, AbandonCommand, ConnDone, runVars
  <2>7. CASE HeartbeatTick \/ HeartbeatLocks \/ HeartbeatPings \/ HeartbeatWrites
             \/ HeartbeatCallback
    BY <2>7 DEF HeartbeatTick, HeartbeatLocks, HeartbeatPings, HeartbeatWrites,
       HeartbeatCallback, runVars, rdVars
  <2>8. CASE ReadFrame
    BY <2>8 DEF ReadFrame, ReadMessage, ReadInvalid, ReadDenied, ReadDuplicate,
       ReadClaimed, runVars, rdVars
  <2>9. CASE RefusalLocks \/ RefusalWritten \/ ReadGoodbye \/ ReadFails \/ ReadTimesOut
    BY <2>9 DEF RefusalLocks, RefusalWritten, ReadGoodbye, ReadFails, ReadTimesOut,
       runVars
  <2>10. ASSUME NEW s \in Slots, StartHandler(s)
         PROVE  ServingInv' /\ LostLoopIsReported'
    BY <2>10 DEF StartHandler, runVars
  <2>11. CASE HandleCommand
    BY <2>3, <2>11 DEF HandleCommand, HandlerReturns, HandlerLocks, HandlerExits,
       runVars, rdVars
  <2>12. CASE Environment
    BY <2>12 DEF Environment, Shutdown, Revoke, Receive, SayGoodbye, Drop, StallOrResume,
       Expire, runVars, rdVars
  <2>13. CASE UNCHANGED vars
    BY <2>3, <2>13 DEF vars
  <2> QED BY <2>4, <2>5, <2>6, <2>7, <2>8, <2>9, <2>10, <2>11, <2>12, <2>13
       DEF Next, Heartbeat, ReadLoop
<1> QED BY <1>1, <1>2, TypeCorrect, PTL DEF Spec

----------------------------------------------------------------------------
(* The contract *)

\* What a step of the client has to know to be a step of the contract.
Known == TypeInv /\ LockInv /\ JoinInv /\ ReasonInv /\ ReadyMeansSession

\* Most steps are invisible to the application.
LEMMA Invisible ==
  ASSUME UNCHANGED <<pc, result, ready, ctxDone, access>>
  PROVE  UNCHANGED Contract!vars
BY DEF Contract!vars, Mode, Outcome, Session

LEMMA HeartbeatInSession ==
  ASSUME Known, hb = "callback"
  PROVE  pc \in Session
BY DEF Known, JoinInv

\* Every step of the client is a step of the contract or stutters.
LEMMA ContractStep ==
  ASSUME Known, Known', [Next]_vars
  PROVE  [Contract!Next]_(Contract!vars)
<1> USE DEF Contract!Next, Contract!Client
<1>1. CASE UNCHANGED vars
  BY <1>1, Invisible DEF vars
<1>2. CASE Run
  <2> USE DEF Mode, Outcome, Session
  <2>1. CASE (LoopTop \/ Sleep) /\ ctxDone
    <3>1. /\ pc \in {"top", "backoff"} /\ pc' = "returned" /\ result' = "canceled"
          /\ UNCHANGED <<ready, ctxDone, access>>
      <4>1. CASE LoopTop
        BY <2>1, <4>1 DEF LoopTop, Return, netVars
      <4>2. CASE Sleep
        BY <2>1, <4>2 DEF Sleep, Return, netVars
      <4> QED BY <2>1, <4>1, <4>2
    <3>2. ~ready
      BY <3>1 DEF Known, ReadyMeansSession
    <3>3. Contract!Return("canceled")
      BY <2>1, <3>1, <3>2 DEF Contract!Return
    <3> QED BY <3>3
  <2>2. CASE (LoopTop \/ Sleep) /\ ~ctxDone
    BY <2>2 DEF LoopTop, Sleep, Return, Contract!vars, netVars
  <2>3. CASE Connect
    <3>1. Contract!Open
      BY <2>3 DEF Connect, Contract!Open
    <3> QED BY <3>1
  <2>4. CASE DialRefused
    <3>1. ~ready /\ ~ready'
      BY <2>4 DEF DialRefused, Known, ReadyMeansSession
    <3>2. Contract!Return("revoked")
      BY <2>4, <3>1 DEF DialRefused, Return, Contract!Return, netVars
    <3> QED BY <3>2
  <2>5. CASE DialFailed
    BY <2>5 DEF DialFailed, Contract!vars, netVars
  <2>6. CASE ServeUntilDone \/ CloseSocket \/ JoinLoops
    BY <2>6 DEF ServeUntilDone, CloseSocket, JoinLoops, Contract!vars, netVars
  <2>7. CASE SessionOver /\ result = "other"
    <3>1. Contract!Lose
      BY <2>7 DEF SessionOver, Contract!Lose, netVars
    <3> QED BY <3>1
  <2>8. CASE SessionOver /\ result # "other"
    <3>1. result \in {"canceled", "revoked"}
      BY <2>8 DEF SessionOver, Known, TypeInv, TypeOK, Results, ReasonInv
    <3>2. Contract!Return(result)
      BY <2>8, <3>1 DEF SessionOver, Known, ReasonInv, Contract!Return, netVars
    <3> QED BY <3>1, <3>2
  <2> QED BY <1>2, <2>1, <2>2, <2>3, <2>4, <2>5, <2>6, <2>7, <2>8 DEF Run
<1>3. CASE Heartbeat
  <2>1. CASE HeartbeatCallback
    <3>1. pc \in Session
      BY <2>1, HeartbeatInSession DEF HeartbeatCallback
    <3>2. Contract!Beat
      BY <2>1, <3>1 DEF HeartbeatCallback, Contract!Beat, Mode, Outcome, runVars,
         netVars
    <3> QED BY <3>2
  <2>2. CASE HeartbeatStops \/ HeartbeatTick \/ HeartbeatLocks \/ HeartbeatPings
             \/ HeartbeatWrites \/ HeartbeatReports
    BY <2>2, Invisible DEF HeartbeatStops, HeartbeatTick, HeartbeatLocks,
       HeartbeatPings, HeartbeatWrites, HeartbeatReports, runVars, netVars
  <2> QED BY <1>3, <2>1, <2>2 DEF Heartbeat
<1>4. CASE ReadLoop
  BY <1>4, Invisible DEF ReadLoop, ReadFrame, ReadMessage, ReadInvalid, ReadDenied,
       ReadDuplicate, ReadClaimed,
     RefusalLocks, RefusalWritten, StartHandler, AbandonCommand, ReadGoodbye,
     ReadFails, ReadTimesOut, ReaderReports, runVars, netVars
<1>5. CASE HandleCommand
  BY <1>5, Invisible DEF HandleCommand, HandlerReturns, HandlerLocks, HandlerExits,
     runVars, netVars
<1>6. CASE Environment
  <2>1. CASE Shutdown
    <3>1. Contract!Cancel
      BY <2>1 DEF Shutdown, Contract!Cancel, Mode, Outcome, netVars
    <3> QED BY <3>1
  <2>2. CASE Revoke
    <3>1. Contract!Deny
      BY <2>2 DEF Revoke, Contract!Deny, Mode, Outcome, runVars
    <3> QED BY <3>1
  <2>3. CASE Receive \/ SayGoodbye \/ Drop \/ StallOrResume \/ \E id \in Ids : Expire(id)
    BY <2>3, Invisible DEF Receive, SayGoodbye, Drop, StallOrResume, Expire, runVars, netVars
  <2> QED BY <1>6, <2>1, <2>2, <2>3 DEF Environment
<1> QED BY <1>1, <1>2, <1>3, <1>4, <1>5, <1>6 DEF Next

\* Every behaviour of the client is one its contract allows (client.go:105-187).
THEOREM ContractKept == Spec => ImplementsContract
<1>1. Init => Contract!Init
  BY DEF Init, Contract!Init, Mode, Outcome, Session
<1>2. Known /\ Known' /\ [Next]_vars => [Contract!Next]_(Contract!vars)
  BY ContractStep
<1>3. Spec => []Known
  BY TypeCorrect, GoroutinesCorrect, OutcomesReal, ReadinessHonest, PTL DEF Known
<1> QED BY <1>1, <1>2, <1>3, PTL DEF Spec, ImplementsContract, Contract!Spec

----------------------------------------------------------------------------
(* The teardown *)

\* While the loops and the handlers are waited for, the socket is closed and the
\* connection context done.
SocketInv ==
    /\ pc \in {"joinLoops", "joinCommands"} => sock = "closed"
    /\ pc \in {"closing", "joinLoops", "joinCommands"} => connCancelled

LEMMA SocketClosed == Spec => []SocketInv
<1>1. Init => SocketInv
  BY DEF Init, SocketInv
<1>2. SocketInv /\ [Next]_vars => SocketInv'
  <2> SUFFICES ASSUME SocketInv, [Next]_vars
               PROVE  SocketInv'
    OBVIOUS
  <2> USE DEF SocketInv
  <2>1. CASE UNCHANGED <<pc, sock, connCancelled>>
    BY <2>1
  <2>2. CASE LoopTop \/ Connect \/ DialRefused \/ DialFailed \/ Sleep \/ SessionOver
    BY <2>2 DEF LoopTop, Connect, DialRefused, DialFailed, Sleep, SessionOver, Return
  <2>3. CASE ServeUntilDone \/ CloseSocket \/ JoinLoops
    BY <2>3 DEF ServeUntilDone, CloseSocket, JoinLoops, netVars
  <2>4. CASE Heartbeat
    BY <2>1, <2>4 DEF Heartbeat, HeartbeatStops, HeartbeatTick, HeartbeatLocks,
       HeartbeatPings, HeartbeatWrites, HeartbeatCallback, HeartbeatReports,
       runVars, netVars
  <2>5. CASE ReadGoodbye
    BY <2>5 DEF ReadGoodbye, runVars
  <2>6. CASE ReadLoop /\ ~ReadGoodbye
    BY <2>1, <2>6 DEF ReadLoop, ReadFrame, ReadMessage, ReadInvalid, ReadDenied,
       ReadDuplicate, ReadClaimed, RefusalLocks,
       RefusalWritten, StartHandler, AbandonCommand, ReadFails, ReadTimesOut,
       ReaderReports, runVars, netVars
  <2>7. CASE HandleCommand
    BY <2>1, <2>7 DEF HandleCommand, HandlerReturns, HandlerLocks, HandlerExits,
       runVars, netVars
  <2>8. CASE Environment
    BY <2>8 DEF Environment, Shutdown, Revoke, Receive, SayGoodbye, Drop, StallOrResume,
       Expire, runVars, netVars
  <2>9. CASE UNCHANGED vars
    BY <2>1, <2>9 DEF vars
  <2> QED BY <2>2, <2>3, <2>4, <2>5, <2>6, <2>7, <2>8, <2>9 DEF Next, Run
<1> QED BY <1>1, <1>2, PTL DEF Spec

\* A handler that moves is one more where it goes and one less where it was.
LEMMA HandlerCounted ==
  ASSUME NEW f \in Phases, NEW s \in Slots, NEW q, f[s] # q, NEW p,
         NEW g, \A t \in Slots : g[t] = IF t = s THEN q ELSE f[t]
  PROVE  /\ Cardinality(At(f, p)) \in Nat
         /\ Cardinality(At(g, p)) = IF p = q THEN Cardinality(At(f, p)) + 1
                                    ELSE IF p = f[s] THEN Cardinality(At(f, p)) - 1
                                    ELSE Cardinality(At(f, p))
<1>1. At(f, p) \in SUBSET Slots
  BY DEF At
<1>2. IsFiniteSet(At(f, p)) /\ Cardinality(At(f, p)) \in Nat
  BY <1>1, SlotsAssumption, FS_Subset, FS_CardinalityType
<1>3. CASE p = q
  <2>1. At(g, p) = At(f, p) \cup {s} /\ s \notin At(f, p)
    BY <1>3 DEF At
  <2> QED BY <1>2, <1>3, <2>1, FS_AddElement
<1>4. CASE p # q /\ p = f[s]
  <2>1. At(g, p) = At(f, p) \ {s} /\ s \in At(f, p)
    BY <1>4 DEF At
  <2> QED BY <1>2, <1>4, <2>1, FS_RemoveElement
<1>5. CASE p # q /\ p # f[s]
  <2>1. At(g, p) = At(f, p)
    BY <1>5 DEF At
  <2> QED BY <1>2, <1>5, <2>1
<1> QED BY <1>2, <1>3, <1>4, <1>5

\* The steps a handler has left.
PhaseMoves == [idle |-> 0, writing |-> 1, wantLock |-> 2, running |-> 3]

LEMMA HandlersAdvance ==
  ASSUME NEW f \in Phases, NEW s \in Slots,
         NEW q \in {"idle", "running", "wantLock", "writing"}, f[s] # q,
         NEW g, \A t \in Slots : g[t] = IF t = s THEN q ELSE f[t]
  PROVE  /\ HandlerMoves(f) \in Nat
         /\ HandlerMoves(g) = HandlerMoves(f) + PhaseMoves[q] - PhaseMoves[f[s]]
<1>1. ASSUME NEW p \in {"running", "wantLock", "writing"}
      PROVE  /\ Cardinality(At(f, p)) \in Nat
             /\ Cardinality(At(g, p)) = IF p = q THEN Cardinality(At(f, p)) + 1
                                        ELSE IF p = f[s] THEN Cardinality(At(f, p)) - 1
                                        ELSE Cardinality(At(f, p))
  BY HandlerCounted
<1>2. f[s] \in {"idle", "running", "wantLock", "writing"}
  BY DEF Phases
<1> DEFINE n(h, p) == Cardinality(At(h, p))
<1>3. \A p \in {"running", "wantLock", "writing"} :
         /\ n(f, p) \in Nat
         /\ n(g, p) = IF p = q THEN n(f, p) + 1
                      ELSE IF p = f[s] THEN n(f, p) - 1 ELSE n(f, p)
  BY <1>1
<1> HIDE DEF n
<1>4. /\ HandlerMoves(f) = 3 * n(f, "running") + 2 * n(f, "wantLock") + n(f, "writing")
      /\ HandlerMoves(g) = 3 * n(g, "running") + 2 * n(g, "wantLock") + n(g, "writing")
  BY DEF HandlerMoves, n
<1> QED BY <1>2, <1>3, <1>4 DEF PhaseMoves

\* Every part of MovesLeft is a number.
LEMMA MovesCounted ==
  ASSUME TypeInv
  PROVE  HbMoves[hb] \in Nat /\ ReaderMovesLeft \in Nat /\ HandlerMoves(phase) \in Nat
<1>1. hb \in HbStates /\ rd \in RdStates /\ unread \in Nat
  BY MaxUnreadAssumption DEF TypeInv, TypeOK
<1>2. HbMoves[hb] \in Nat /\ RdMoves[rd] \in Nat
  BY <1>1 DEF HbStates, RdStates, HbMoves, RdMoves
<1>3. /\ Cardinality(At(phase, "running")) \in Nat /\ Cardinality(At(phase, "wantLock")) \in Nat
      /\ Cardinality(At(phase, "writing")) \in Nat
  BY SlotsAssumption, FS_Subset, FS_CardinalityType DEF At
<1>4. HandlerMoves(phase) \in Nat
  BY <1>3 DEF HandlerMoves
<1>5. ReaderMovesLeft \in Nat
  BY <1>1, <1>2 DEF ReaderMovesLeft
<1> QED BY <1>2, <1>4, <1>5

\* What the reader does once the socket is closed leaves it less to do: a frame it
\* takes from its buffer is worth more than refusing or holding a command.
LEMMA ReaderAdvances ==
  ASSUME TypeInv, sock = "closed",
         \/ ReadFrame \/ RefusalLocks \/ RefusalWritten \/ AbandonCommand \/ ReadGoodbye
         \/ ReadFails \/ ReaderReports
  PROVE  /\ hb' = hb /\ phase' = phase
         /\ ReaderMovesLeft' \in Nat /\ ReaderMovesLeft' < ReaderMovesLeft
<1>1. unread \in Nat
  BY MaxUnreadAssumption DEF TypeInv, TypeOK
<1> USE DEF ReaderMovesLeft, RdMoves
<1>2. CASE ReadFrame
  <2>1. rd = "reading" /\ unread > 0 /\ unread' = unread - 1
    BY <1>2 DEF ReadFrame, ReadInvalid, ReadDenied, ReadDuplicate, ReadClaimed, ReadMessage
  <2>2. rd' \in {"reading", "refuse", "acquire"} /\ hb' = hb /\ phase' = phase
    BY <1>2, <2>1 DEF ReadFrame, ReadInvalid, ReadDenied, ReadDuplicate, ReadClaimed, rdVars
  <2> QED BY <1>1, <2>1, <2>2
<1>3. CASE RefusalLocks \/ RefusalWritten
  BY <1>1, <1>3 DEF RefusalLocks, RefusalWritten, netVars
<1>4. CASE AbandonCommand \/ ReadGoodbye \/ ReadFails \/ ReaderReports
  BY <1>1, <1>4 DEF AbandonCommand, ReadGoodbye, ReadFails, ReaderReports, netVars
<1> QED BY <1>2, <1>3, <1>4

\* Less for one of the goroutines is less altogether.
LEMMA LessLeft ==
  ASSUME NEW x \in Nat, NEW y \in Nat, NEW z \in Nat
  PROVE  \A w \in Nat : (w < x => w + y + z < x + y + z) /\ (w < y => x + w + z < x + y + z)
OBVIOUS

\* A step after the close leaves less to do, or moves no goroutine of the session.
LEMMA TeardownStep ==
  ASSUME TypeInv, SocketInv, [Next]_vars, pc \in {"joinLoops", "joinCommands"}
  PROVE  MovesLeft' < MovesLeft \/ UNCHANGED <<hb, rd, unread, phase, writeMu, sock>>
<1> DEFINE hbLeft == HbMoves[hb]
           rdLeft == ReaderMovesLeft
           phLeft == HandlerMoves(phase)
<1>1. MovesLeft = hbLeft + rdLeft + phLeft /\ MovesLeft' = hbLeft' + rdLeft' + phLeft'
  BY DEF MovesLeft
<1>2. phase \in Phases
  BY DEF TypeInv, TypeOK
<1>3. hbLeft \in Nat /\ rdLeft \in Nat /\ phLeft \in Nat
  BY MovesCounted
<1>4. sock = "closed" /\ connCancelled
  BY DEF SocketInv
<1>5. ASSUME hbLeft' \in Nat, hbLeft' < hbLeft, rdLeft' = rdLeft, phLeft' = phLeft
      PROVE  MovesLeft' < MovesLeft
  <2>1. MovesLeft' = hbLeft' + rdLeft + phLeft
    BY <1>1, <1>5
  <2> QED BY <1>1, <1>3, <1>5, <2>1, LessLeft
<1>6. ASSUME rdLeft' \in Nat, rdLeft' < rdLeft, hbLeft' = hbLeft, phLeft' = phLeft
      PROVE  MovesLeft' < MovesLeft
  <2>1. MovesLeft' = hbLeft + rdLeft' + phLeft
    BY <1>1, <1>6
  <2> QED BY <1>1, <1>3, <1>6, <2>1, LessLeft
<1>7. CASE Run
  BY <1>7 DEF Run, LoopTop, Connect, DialRefused, DialFailed, Sleep, ServeUntilDone,
     CloseSocket, JoinLoops, SessionOver, rdVars, netVars
<1>8. CASE Heartbeat
  <2>1. rd' = rd /\ unread' = unread /\ phase' = phase
    BY <1>8 DEF Heartbeat, HeartbeatStops, HeartbeatTick, HeartbeatLocks, HeartbeatPings,
       HeartbeatWrites, HeartbeatCallback, HeartbeatReports, rdVars, netVars
  <2>2. hbLeft' \in Nat /\ hbLeft' < hbLeft
    BY <1>4, <1>8 DEF Heartbeat, HeartbeatStops, HeartbeatTick, HeartbeatLocks,
       HeartbeatPings, HeartbeatWrites, HeartbeatCallback, HeartbeatReports, WriteWorks,
       HbMoves
  <2>3. rdLeft' = rdLeft /\ phLeft' = phLeft
    BY <2>1 DEF ReaderMovesLeft, HandlerMoves, At
  <2> QED BY <1>5, <2>2, <2>3
<1>9. CASE ReadLoop
  <2>1. ASSUME NEW s \in Slots, StartHandler(s)
        PROVE  MovesLeft' < MovesLeft
    <3>1. /\ phase[s] = "idle" /\ phase' = [phase EXCEPT ![s] = "running"]
          /\ hb' = hb /\ unread' = unread /\ rd = "acquire" /\ rd' = "reading"
      BY <2>1 DEF StartHandler, netVars
    <3>2. /\ phase[s] # "running" /\ "running" \in {"idle", "running", "wantLock", "writing"}
          /\ \A t \in Slots : phase'[t] = IF t = s THEN "running" ELSE phase[t]
      BY <1>2, <3>1 DEF Phases
    <3>3. HandlerMoves(phase') = HandlerMoves(phase) + PhaseMoves["running"] - PhaseMoves[phase[s]]
      BY <1>2, <3>2, HandlersAdvance
    <3>4. phLeft' = phLeft + 3
      BY <1>3, <3>1, <3>3 DEF HandlerMoves, At, PhaseMoves
    <3>5. rdLeft' = rdLeft - 4 /\ hbLeft' = hbLeft
      <4>1. unread \in Nat
        BY MaxUnreadAssumption DEF TypeInv, TypeOK
      <4> QED BY <3>1, <4>1 DEF ReaderMovesLeft, RdMoves
    <3> HIDE DEF hbLeft, rdLeft, phLeft
    <3> QED BY <1>1, <1>3, <3>4, <3>5
  <2>2. CASE ReadFrame \/ RefusalLocks \/ RefusalWritten \/ AbandonCommand \/ ReadGoodbye
             \/ ReadFails \/ ReaderReports
    <3>1. /\ hb' = hb /\ phase' = phase
          /\ rdLeft' \in Nat /\ rdLeft' < rdLeft
      BY <1>4, <2>2, ReaderAdvances
    <3>2. hbLeft' = hbLeft /\ phLeft' = phLeft
      BY <3>1 DEF HandlerMoves, At
    <3> QED BY <1>6, <3>1, <3>2
  <2>3. ~ReadTimesOut
    BY <1>4 DEF ReadTimesOut
  <2> QED BY <1>9, <2>1, <2>2, <2>3 DEF ReadLoop
<1>10. CASE HandleCommand
  <2>1. PICK s \in Slots : HandlerReturns(s) \/ HandlerLocks(s) \/ HandlerExits(s)
    BY <1>10 DEF HandleCommand
  <2>2. PICK q \in {"idle", "wantLock", "writing"} :
          /\ phase' = [phase EXCEPT ![s] = q] /\ phase[s] # q
          /\ PhaseMoves[q] \in Nat /\ PhaseMoves[phase[s]] \in Nat
          /\ PhaseMoves[q] < PhaseMoves[phase[s]]
    BY <2>1 DEF HandlerReturns, HandlerLocks, HandlerExits, PhaseMoves
  <2>3. hb' = hb /\ rd' = rd /\ unread' = unread
    BY <2>1 DEF HandlerReturns, HandlerLocks, HandlerExits, rdVars, netVars
  <2>4. phLeft' = phLeft + PhaseMoves[q] - PhaseMoves[phase[s]]
    <3>1. \A t \in Slots : phase'[t] = IF t = s THEN q ELSE phase[t]
      BY <1>2, <2>2 DEF Phases
    <3>2. q \in {"idle", "running", "wantLock", "writing"} /\ phase[s] # q
      BY <2>2
    <3>3. HandlerMoves(phase') = HandlerMoves(phase) + PhaseMoves[q] - PhaseMoves[phase[s]]
      BY <1>2, <3>1, <3>2, HandlersAdvance
    <3> QED BY <3>3 DEF HandlerMoves, At
  <2>5. hbLeft' = hbLeft /\ rdLeft' = rdLeft
    BY <2>3 DEF ReaderMovesLeft
  <2> HIDE DEF hbLeft, rdLeft, phLeft
  <2> QED BY <1>1, <1>3, <2>2, <2>4, <2>5
<1>11. CASE Environment
  BY <1>4, <1>11 DEF Environment, Shutdown, Revoke, Receive, SayGoodbye, Drop,
     StallOrResume, Expire, netVars, rdVars, runVars
<1>12. CASE UNCHANGED vars
  BY <1>12 DEF vars
<1> QED BY <1>7, <1>8, <1>9, <1>10, <1>11, <1>12 DEF Next

\* Once the socket is closed every step of a goroutine of the session is one of at
\* most twelve, three for each slot and five for each frame in the reader's buffer:
\* the Wait calls end, although ReadMessage goes on to return what the buffer holds
\* (client.go:151, 184-185, 218).
THEOREM TeardownEnds == Spec => TeardownAdvances
<1>1. TypeInv /\ SocketInv /\ [Next]_vars =>
        [(pc \in {"joinLoops", "joinCommands"})
           => MovesLeft' < MovesLeft
              \/ UNCHANGED <<hb, rd, unread, phase, writeMu, sock>>]_vars
  BY TeardownStep
<1> QED BY <1>1, TypeCorrect, SocketClosed, PTL DEF Spec, TeardownAdvances

\* Nor do they wait for each other: the two theorems together say that the Wait
\* calls return, if every goroutine that can go on does (client.go:151, 185).
THEOREM TeardownGoesOn == Spec => []TeardownNeverStuck
<1>1. ASSUME TypeInv, LockInv, SocketInv PROVE TeardownNeverStuck
  <2> SUFFICES ASSUME pc \in {"joinLoops", "joinCommands"}, MovesLeft > 0
               PROVE  HeartbeatMoves \/ ReaderMoves \/ \E s \in Slots : HandlerCanMove(s)
    BY DEF TeardownNeverStuck
  <2>1. hb \in HbStates /\ rd \in RdStates /\ phase \in Phases /\ writeMu \in Owners
    BY <1>1 DEF TypeInv, TypeOK
  <2>2. WriteReturns /\ ConnDone
    BY <1>1 DEF SocketInv, WriteReturns, ConnDone
  <2>3. \/ hb \notin {"off", "done"} \/ rd \notin {"off", "done"}
        \/ \E s \in Slots : phase[s] # "idle"
    <3> SUFFICES ASSUME hb \in {"off", "done"}, rd \in {"off", "done"},
                        \A s \in Slots : phase[s] = "idle"
                 PROVE  FALSE
      OBVIOUS
    <3>1. At(phase, "running") = {} /\ At(phase, "wantLock") = {} /\ At(phase, "writing") = {}
      BY DEF At
    <3>2. HandlerMoves(phase) = 0
      BY <3>1, FS_EmptySet DEF HandlerMoves
    <3>3. HbMoves[hb] = 0 /\ ReaderMovesLeft = 0
      BY DEF HbMoves, RdMoves, ReaderMovesLeft
    <3> QED BY <3>2, <3>3 DEF MovesLeft
  <2>4. CASE writeMu = "free"
    <3>1. hb \notin {"pinging", "beating"} /\ rd # "refusing"
          /\ \A s \in Slots : phase[s] # "writing"
      BY <1>1, <2>4, SlotsAssumption DEF LockInv
    <3> QED BY <2>1, <2>2, <2>3, <2>4, <3>1 DEF HeartbeatMoves, ReaderMoves,
         HandlerCanMove, HbStates, RdStates, Phases
  <2>5. CASE writeMu = "hb"
    BY <1>1, <2>2, <2>5 DEF LockInv, HeartbeatMoves
  <2>6. CASE writeMu = "rd"
    BY <1>1, <2>2, <2>6 DEF LockInv, ReaderMoves
  <2>7. CASE writeMu \in Slots
    BY <1>1, <2>2, <2>7 DEF LockInv, HandlerCanMove
  <2> QED BY <2>1, <2>4, <2>5, <2>6, <2>7 DEF Owners
<1> QED BY <1>1, TypeCorrect, GoroutinesCorrect, SocketClosed, PTL

============================================================================
