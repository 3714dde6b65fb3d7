------------------------- MODULE SessionClockProofs -------------------------
(***************************************************************************)
(* Proofs about SessionClock for every number of ids and slots, and every  *)
(* choice of the durations that meets the assumptions of that module.      *)
(*                                                                         *)
(* The arguments add up times.  A command is at most one timeout old when  *)
(* it gets its slot, because the slots that are busy all free up within a  *)
(* timeout; so it is at most two old when its handler ends (HandlerInv).   *)
(* An id that may be claimed was started long ago (SpacingInv).  And the   *)
(* time since the last pong was taken exceeds the time the reader stood    *)
(* still by no more than a heartbeat, unless a ping went unanswered        *)
(* (StallInv).                                                             *)
(***************************************************************************)
EXTENDS SessionRefinement, Integers, WellFoundedInduction, FiniteSetTheorems,
        FunctionTheorems, TLAPS

Assumptions ==
    /\ NoId \notin Ids /\ Pong \notin Ids /\ Pong # NoId
    /\ IsFiniteSet(Slots) /\ Slots # {}
    /\ MaxFailures \in Nat \ {0} /\ MaxInFlight \in Nat \ {0}
    /\ HeartbeatPeriod \in Nat \ {0} /\ PongFloor \in Nat \ {0}
    /\ StableDuration \in Nat \ {0} /\ CommandTimeout \in Nat \ {0}
    /\ ReplayTTL \in Nat /\ 2 * CommandTimeout <= ReplayTTL
    /\ MinDelay \in Nat /\ MaxDelay \in Nat /\ 2 <= MinDelay /\ MinDelay <= MaxDelay

LEMMA Given == Assumptions
BY NamesAssumption, SlotsAssumption, BoundsAssumption, PeriodsAssumption,
   ReplayAssumption, DelayAssumption DEF Assumptions

Busy(s) == running[s] # NoId

\* Handlers and the command that waits for one of them, by age.
HandlerInv ==
    /\ link # "up" => claimed = NoId /\ \A s \in Slots : ~Busy(s)
    /\ NoOverlap
    /\ ReaderStallBounded
    /\ \A s \in Slots : Busy(s) => age[running[s]] + left[s] <= 2 * CommandTimeout
    /\ claimed # NoId =>
         \A s \in Slots : Busy(s) => /\ running[s] # claimed
                                     /\ age[claimed] + left[s] <= CommandTimeout

\* A claim is older than the start it led to by one timeout at most.
SpacingInv ==
    /\ \A i \in Ids : age[i] <= since[i] + CommandTimeout
    /\ claimed # NoId => since[claimed] + CommandTimeout > ReplayTTL

NoPong == \A k \in DOMAIN stream : stream[k] # Pong

\* The time since the last pong, against the time the reader stood still.
StallInv ==
    /\ link # "up" => stream = <<>> /\ quiet = 0 /\ stalled = 0
    /\ link = "up" => deadline + quiet >= PongWait
    /\ link = "up" /\ prompt => quiet <= stalled + HeartbeatPeriod
    /\ link = "up" /\ prompt /\ NoPong => quiet + beat <= stalled + HeartbeatPeriod

----------------------------------------------------------------------------
(* Types *)

LEMMA PongWaitBounds == PongWait \in Nat /\ PongWait >= 3 * HeartbeatPeriod
BY Given DEF Assumptions, PongWait

\* Less and Capped move a time by one tick and keep it in its range.
LEMMA Ticking ==
  ASSUME NEW n \in Nat, NEW max \in Nat, n <= max
  PROVE  /\ Capped(n + 1, max) \in 0..max /\ Capped(n + 1, max) <= n + 1
         /\ n < max => Capped(n + 1, max) = n + 1
         /\ Less(n) \in 0..max
         /\ n > 0 => Less(n) = n - 1
BY DEF Capped, Less

\* A delay and its jitter are times.
LEMMA BackOffTyped ==
  ASSUME NEW c \in Nat, BackOff(c)
  PROVE  link' = "down" /\ current' \in Nat /\ wait' \in Nat
<1>1. current' \in Nat
  BY Given DEF BackOff, NextDelay, Capped, Assumptions
<1>2. \A d \in Nat : \A j \in 0..((d \div 2) - 1) : d + j \in Nat
  OBVIOUS
<1> QED
  BY <1>1, <1>2 DEF BackOff

\* Taking a message leaves a stream and a buffer within it.
LEMMA ReceiveTyped ==
  ASSUME TypeOK, NEW m, Receive(m)
  PROVE  /\ stream' \in Seq(Ids \cup {Pong}) /\ buffered' \in 0..Len(stream')
         /\ m \in Ids \cup {Pong}
<1>1. stream # <<>> /\ stream \in Seq(Ids \cup {Pong}) /\ stream' = Tail(stream)
  BY DEF TypeOK, Receive
<1>2. stream' \in Seq(Ids \cup {Pong}) /\ Len(stream') = Len(stream) - 1
  BY <1>1
<1>3. m \in Ids \cup {Pong}
  BY <1>1 DEF Receive
<1>4. buffered' \in 0..(Len(stream) - 1)
  BY <1>1 DEF Receive, TypeOK
<1> QED
  BY <1>2, <1>3, <1>4

\* The count of failures stays within its bound.
LEMMA CountTyped ==
  ASSUME TypeOK
  PROVE  Capped(failures + 1, MaxFailures) \in 0..MaxFailures /\ 1 \in 0..MaxFailures
BY Given DEF TypeOK, Capped, Assumptions

LEMMA SessionLostTyped ==
  ASSUME TypeOK, SessionLost
  PROVE  TypeOK'
<1> USE DEF TypeOK
<1>1. link' = "down" /\ current' \in Nat /\ wait' \in Nat
  BY BackOffTyped DEF SessionLost
<1>2. failures' \in 0..MaxFailures
  BY CountTyped DEF SessionLost
<1>3. /\ stream' \in Seq(Ids \cup {Pong}) /\ buffered' \in 0..Len(stream')
      /\ running' \in [Slots -> Ids \cup {NoId}] /\ left' \in [Slots -> 0..CommandTimeout]
      /\ uptime' \in 0..StableDuration /\ claimed' \in Ids \cup {NoId}
      /\ deadline' \in 0..PongWait /\ quiet' \in Nat /\ stalled' \in Nat
      /\ beat' \in 0..HeartbeatPeriod /\ prompt' \in BOOLEAN
  BY Given, PongWaitBounds DEF SessionLost, Teardown, NoSession, NoHandlers, Assumptions
<1>4. age' \in [Ids -> 0..(ReplayTTL + 1)] /\ since' \in [Ids -> 0..(ReplayTTL + 1)]
  BY DEF SessionLost, memVars
<1> QED
  BY <1>1, <1>2, <1>3, <1>4

LEMMA TickTyped ==
  ASSUME TypeOK, Tick
  PROVE  TypeOK'
<1> USE DEF TypeOK
<1>1. wait' \in Nat
  BY DEF Tick, Less
<1>2. left' \in [Slots -> 0..CommandTimeout]
  BY Given DEF Tick, Less, Assumptions
<1>3. age' \in [Ids -> 0..(ReplayTTL + 1)] /\ since' \in [Ids -> 0..(ReplayTTL + 1)]
  BY Given DEF Tick, Older, Capped, Assumptions
<1>4. uptime' \in 0..StableDuration
  BY Given DEF Tick, Capped, Assumptions
<1>5. link = "up" => beat > 0
  BY Given DEF Tick, Due, Assumptions
<1>6. /\ deadline' \in 0..PongWait /\ quiet' \in Nat /\ stalled' \in Nat
      /\ beat' \in 0..HeartbeatPeriod
  <2>1. CASE link = "up"
    <3>1. quiet' \in Nat /\ stalled' \in Nat
      BY <2>1 DEF Tick
    <3>2. beat' \in 0..HeartbeatPeriod
      BY <1>5, <2>1, Given DEF Tick, Assumptions
    <3>3. deadline' \in 0..PongWait
      BY <2>1, PongWaitBounds DEF Tick, Less
    <3> QED
      BY <3>1, <3>2, <3>3
  <2>2. CASE link # "up"
    BY <2>2 DEF Tick, pongVars
  <2> QED
    BY <2>1, <2>2
<1>7. /\ link' \in {"dialing", "up", "down", "revoked"} /\ current' \in Nat
      /\ failures' \in 0..MaxFailures
      /\ stream' \in Seq(Ids \cup {Pong}) /\ buffered' \in 0..Len(stream')
      /\ claimed' \in Ids \cup {NoId} /\ running' \in [Slots -> Ids \cup {NoId}]
      /\ prompt' \in BOOLEAN
  BY DEF Tick, backoffVars
<1> QED
  BY <1>1, <1>2, <1>3, <1>4, <1>6, <1>7

\* Every variable keeps its type.
THEOREM ClockTyped == Spec => []TypeOK
<1>1. Init => TypeOK
  BY Given, PongWaitBounds DEF Init, TypeOK, Assumptions, FreshMemory
<1>2. TypeOK /\ [Next]_vars => TypeOK'
  <2> SUFFICES ASSUME TypeOK, [Next]_vars
               PROVE  TypeOK'
    OBVIOUS
  <2> USE DEF TypeOK, memVars, slotVars, pongVars, readVars, beatVars, backoffVars
  <2>1. CASE Connect
    BY <2>1, Given, PongWaitBounds DEF Connect, Assumptions
  <2>2. CASE DialFails
    <3>1. link' = "down" /\ current' \in Nat /\ wait' \in Nat
      BY <2>2, BackOffTyped DEF DialFails
    <3>2. failures' \in 0..MaxFailures
      BY <2>2, CountTyped DEF DialFails
    <3> QED
      BY <2>2, <3>1, <3>2 DEF DialFails
  <2>3. CASE Wake
    BY <2>3 DEF Wake
  <2>4. CASE Drop \/ ReadTimesOut
    BY <2>4, SessionLostTyped DEF Drop, ReadTimesOut
  <2>5. CASE Revoked
    BY <2>5, Given, PongWaitBounds
       DEF Revoked, Teardown, NoSession, NoHandlers, Assumptions
  <2>6. CASE NewClient
    BY <2>6, Given DEF NewClient, FreshMemory, Assumptions
  <2>7. CASE Heartbeat
    <3>1. stream' = stream \/ stream' = Append(stream, Pong)
      BY <2>7 DEF Heartbeat
    <3>2. /\ Append(stream, Pong) \in Seq(Ids \cup {Pong})
          /\ Len(Append(stream, Pong)) = Len(stream) + 1
          /\ Len(stream) \in Nat
      OBVIOUS
    <3>3. stream' \in Seq(Ids \cup {Pong}) /\ Len(stream') >= Len(stream)
      <4>1. CASE stream' = stream
        BY <3>2, <4>1
      <4>2. CASE stream' = Append(stream, Pong)
        BY <3>2, <4>2
      <4> QED
        BY <3>1, <4>1, <4>2
    <3>4. buffered' \in 0..Len(stream')
      BY <2>7, <3>3 DEF Heartbeat
    <3>5. beat' \in 0..HeartbeatPeriod
      BY <2>7, Given DEF Heartbeat, Assumptions
    <3>6. prompt' \in BOOLEAN
      BY <2>7, Zenon DEF Heartbeat
    <3> QED
      BY <2>7, <3>3, <3>4, <3>5, <3>6 DEF Heartbeat
  <2>8. CASE ReadPong
    BY <2>8, ReceiveTyped, PongWaitBounds DEF ReadPong, Receive
  <2>9. ASSUME NEW i \in Ids, Claim(i)
        PROVE  TypeOK'
    <3>1. age' \in [Ids -> 0..(ReplayTTL + 1)]
      BY <2>9, Given DEF Claim, Assumptions
    <3> QED
      BY <2>9, <3>1, ReceiveTyped DEF Claim, Receive
  <2>10. ASSUME NEW i \in Ids, RefuseDuplicate(i)
         PROVE  TypeOK'
    BY <2>10, ReceiveTyped DEF RefuseDuplicate, Receive
  <2>11. ASSUME NEW i \in Ids, Send(i)
         PROVE  TypeOK'
    <3>1. stream' \in Seq(Ids \cup {Pong}) /\ Len(stream') >= Len(stream)
      BY <2>11 DEF Send
    <3>2. buffered' \in 0..Len(stream')
      BY <2>11, <3>1 DEF Send
    <3> QED
      BY <2>11, <3>1, <3>2 DEF Send
  <2>12. ASSUME NEW s \in Slots, Start(s)
         PROVE  TypeOK'
    BY <2>12, Given DEF Start, Assumptions
  <2>13. ASSUME NEW s \in Slots, Finish(s)
         PROVE  TypeOK'
    BY <2>13, Given DEF Finish, Assumptions
  <2>14. CASE Tick
    BY <2>14, TickTyped
  <2>15. CASE UNCHANGED vars
    BY <2>15 DEF vars
  <2> QED
    BY <2>1, <2>2, <2>3, <2>4, <2>5, <2>6, <2>7, <2>8, <2>9, <2>10, <2>11, <2>12,
       <2>13, <2>14, <2>15 DEF Next
<1> QED
  BY <1>1, <1>2, PTL DEF Spec

----------------------------------------------------------------------------
(* One command, one handler *)

\* A command leaves the memory only once any handler of it has ended.
LEMMA ClaimFresh ==
  ASSUME TypeOK, HandlerInv, NEW i \in Ids, CanClaim(i), NEW s \in Slots, Busy(s)
  PROVE  running[s] # i
<1>1. SUFFICES ASSUME running[s] = i
               PROVE  FALSE
  OBVIOUS
<1>2. age[i] + left[s] <= 2 * CommandTimeout
  BY <1>1 DEF HandlerInv
<1>3. age[i] \in Nat /\ left[s] \in Nat
  BY Given DEF TypeOK, Assumptions
<1>4. age[i] <= ReplayTTL
  BY <1>2, <1>3, Given DEF Assumptions
<1> QED
  BY <1>4 DEF CanClaim, Live

\* While a command waits, every slot is busy and none of them is overdue.
LEMMA AllBusy ==
  ASSUME TypeOK, HandlerInv, ~Due, NEW s \in Slots
  PROVE  /\ Busy(s) => left[s] \in Nat /\ left[s] > 0
         /\ claimed # NoId => Busy(s)
<1>1. left[s] \in Nat
  BY Given DEF TypeOK, Assumptions
<1> QED
  BY <1>1 DEF Due, Busy

LEMMA HandlersTick ==
  ASSUME TypeOK, HandlerInv, Tick
  PROVE  HandlerInv'
<1>1. running' = running /\ claimed' = claimed /\ link' = link
  BY DEF Tick
<1>2. \A i \in Ids : age[i] \in Nat /\ age'[i] \in Nat /\ age'[i] <= age[i] + 1
  BY Given DEF Tick, Older, Capped, TypeOK, Assumptions
<1>3. \A s \in Slots : Busy(s) =>
        left[s] \in Nat /\ left'[s] \in Nat /\ left'[s] = left[s] - 1 /\ running[s] \in Ids
  <2> SUFFICES ASSUME NEW s \in Slots, Busy(s)
               PROVE  left[s] \in Nat /\ left'[s] \in Nat /\ left'[s] = left[s] - 1
                      /\ running[s] \in Ids
    OBVIOUS
  <2>1. left[s] \in Nat /\ left[s] > 0
    BY AllBusy DEF Tick
  <2>2. left'[s] = left[s] - 1
    BY <2>1 DEF Tick, Less
  <2>3. running[s] \in Ids
    BY DEF Busy, TypeOK
  <2> QED
    BY <2>1, <2>2, <2>3
<1>4. \A s \in Slots : Busy(s) => age'[running[s]] + left'[s] <= 2 * CommandTimeout
  BY <1>2, <1>3, Given DEF HandlerInv, Assumptions
<1>5. claimed # NoId => \A s \in Slots : Busy(s) =>
        running[s] # claimed /\ age'[claimed] + left'[s] <= CommandTimeout
  <2> SUFFICES ASSUME claimed # NoId, NEW s \in Slots, Busy(s)
               PROVE  running[s] # claimed /\ age'[claimed] + left'[s] <= CommandTimeout
    OBVIOUS
  <2>1. claimed \in Ids
    BY DEF TypeOK
  <2>2. age[claimed] + left[s] <= CommandTimeout /\ running[s] # claimed
    BY DEF HandlerInv
  <2> QED
    BY <1>2, <1>3, <2>1, <2>2, Given DEF Assumptions
<1>6. claimed # NoId => age'[claimed] <= CommandTimeout
  <2> SUFFICES ASSUME claimed # NoId
               PROVE  age'[claimed] <= CommandTimeout
    OBVIOUS
  <2>1. PICK s \in Slots : Busy(s)
    BY AllBusy, Given DEF Tick, Assumptions
  <2>2. left'[s] \in Nat /\ age'[claimed] \in Nat
    BY <1>2, <1>3, <2>1 DEF TypeOK
  <2> QED
    BY <1>5, <2>1, <2>2, Given DEF Assumptions
<1> QED
  BY <1>1, <1>4, <1>5, <1>6 DEF HandlerInv, NoOverlap, ReaderStallBounded, Busy

\* The invariant of handlers and claims.
THEOREM HandlersTimed == Spec => []HandlerInv
<1>1. Init => HandlerInv
  BY DEF Init, HandlerInv, NoOverlap, ReaderStallBounded, Busy
<1>2. TypeOK /\ HandlerInv /\ [Next]_vars => HandlerInv'
  <2> SUFFICES ASSUME TypeOK, HandlerInv, [Next]_vars
               PROVE  HandlerInv'
    OBVIOUS
  <2> USE DEF HandlerInv, NoOverlap, ReaderStallBounded, Busy
  <2>1. ASSUME Teardown
        PROVE  HandlerInv'
    BY <2>1 DEF Teardown, NoSession, NoHandlers
  <2>2. CASE Connect
    BY <2>2 DEF Connect, slotVars, memVars
  <2>3. CASE DialFails \/ Wake
    BY <2>3 DEF DialFails, BackOff, Wake, slotVars, memVars, readVars
  <2>4. CASE Drop \/ ReadTimesOut \/ Revoked
    BY <2>4, <2>1 DEF Drop, ReadTimesOut, Revoked, SessionLost
  <2>5. CASE NewClient
    BY <2>5 DEF NewClient, slotVars, readVars
  <2>6. CASE Heartbeat
    BY <2>6 DEF Heartbeat, slotVars, memVars
  <2>7. CASE ReadPong
    BY <2>7 DEF ReadPong, slotVars, memVars
  <2>8. ASSUME NEW i \in Ids, Claim(i)
        PROVE  HandlerInv'
    <3>1. /\ claimed' = i /\ link' = link /\ running' = running /\ left' = left
          /\ link = "up" /\ CanClaim(i) /\ age' = [age EXCEPT ![i] = 0]
      BY <2>8 DEF Claim, Receive, slotVars
    <3>2. \A s \in Slots : Busy(s) => running[s] # i /\ age'[running[s]] = age[running[s]]
      BY <3>1, ClaimFresh DEF TypeOK
    <3>3. age'[i] = 0
      BY <3>1 DEF TypeOK
    <3>4. \A s \in Slots : left[s] \in Nat /\ left[s] <= CommandTimeout
      BY Given DEF TypeOK, Assumptions
    <3>5. \A s \in Slots : Busy(s) => age'[i] + left'[s] <= CommandTimeout
      BY <3>1, <3>3, <3>4
    <3> QED
      BY <3>1, <3>2, <3>3, <3>5, Given DEF Assumptions
  <2>9. ASSUME NEW i \in Ids, RefuseDuplicate(i) \/ Send(i)
        PROVE  HandlerInv'
    BY <2>9 DEF RefuseDuplicate, Send, slotVars, memVars
  <2>10. ASSUME NEW s \in Slots, Start(s)
         PROVE  HandlerInv'
    <3>1. /\ link' = link /\ age' = age /\ claimed' = NoId /\ link = "up"
          /\ claimed \in Ids /\ age[claimed] <= CommandTimeout
      BY <2>10 DEF Start, TypeOK
    <3>2. running'[s] = claimed /\ left'[s] = CommandTimeout
      BY <2>10 DEF Start, TypeOK
    <3>3. \A t \in Slots \ {s} : running'[t] = running[t] /\ left'[t] = left[t]
      BY <2>10 DEF Start, TypeOK
    <3>4. age[claimed] + CommandTimeout <= 2 * CommandTimeout
      BY <3>1, Given DEF TypeOK, Assumptions
    <3> QED
      BY <3>1, <3>2, <3>3, <3>4, Given DEF Assumptions
  <2>11. ASSUME NEW s \in Slots, Finish(s)
         PROVE  HandlerInv'
    <3>1. /\ link' = link /\ age' = age /\ claimed' = claimed /\ running'[s] = NoId
          /\ \A t \in Slots \ {s} : running'[t] = running[t] /\ left'[t] = left[t]
      BY <2>11 DEF Finish, TypeOK, readVars, memVars
    <3> QED
      BY <3>1
  <2>12. CASE Tick
    BY <2>12, HandlersTick
  <2>13. CASE UNCHANGED vars
    BY <2>13 DEF vars, readVars, slotVars, memVars
  <2> QED
    BY <2>2, <2>3, <2>4, <2>5, <2>6, <2>7, <2>8, <2>9, <2>10, <2>11, <2>12, <2>13 DEF Next
<1> QED
  BY <1>1, <1>2, ClockTyped, PTL DEF Spec

\* No command is worked on by two handlers, across sessions and rotations.
THEOREM HandlersNeverOverlap == Spec => []NoOverlap
<1>1. HandlerInv => NoOverlap
  BY DEF HandlerInv
<1> QED
  BY <1>1, HandlersTimed, PTL

\* A command waits for a slot for one command timeout at most.
THEOREM StallsBounded == Spec => []ReaderStallBounded
<1>1. HandlerInv => ReaderStallBounded
  BY DEF HandlerInv
<1> QED
  BY <1>1, HandlersTimed, PTL

----------------------------------------------------------------------------
(* One command, one start in the time the memory lasts *)

LEMMA SpacingTick ==
  ASSUME TypeOK, SpacingInv, Tick
  PROVE  SpacingInv'
<1>1. claimed' = claimed
  BY DEF Tick
<1>2. ASSUME NEW i \in Ids
      PROVE  /\ age[i] \in 0..(ReplayTTL + 1) /\ since[i] \in 0..(ReplayTTL + 1)
             /\ age'[i] = Capped(age[i] + 1, ReplayTTL + 1)
             /\ since'[i] = Capped(since[i] + 1, ReplayTTL + 1)
  BY DEF Tick, Older, TypeOK
<1>3. \A i \in Ids : age'[i] <= since'[i] + CommandTimeout
  BY <1>2, Given DEF SpacingInv, Capped, Assumptions
<1>4. claimed # NoId => since'[claimed] + CommandTimeout > ReplayTTL
  <2> SUFFICES ASSUME claimed # NoId
               PROVE  since'[claimed] + CommandTimeout > ReplayTTL
    OBVIOUS
  <2>1. claimed \in Ids /\ since[claimed] + CommandTimeout > ReplayTTL
    BY DEF TypeOK, SpacingInv
  <2> QED
    BY <1>2, <2>1, Given DEF Capped, Assumptions
<1> QED
  BY <1>1, <1>3, <1>4 DEF SpacingInv

LEMMA SpacingStep ==
  ASSUME TypeOK, HandlerInv, SpacingInv, [Next]_vars
  PROVE  SpacingInv'
<1> USE DEF SpacingInv
<1>1. CASE Connect
  BY <1>1 DEF Connect, memVars
<1>2. CASE DialFails \/ Wake
  BY <1>2 DEF DialFails, Wake, memVars, readVars
<1>3. CASE Drop \/ ReadTimesOut \/ Revoked
  BY <1>3 DEF Drop, ReadTimesOut, Revoked, SessionLost, Teardown, NoSession, memVars
<1>4. CASE NewClient
  <2>1. claimed' = NoId
    BY <1>4 DEF NewClient, HandlerInv, readVars
  <2> QED
    BY <1>4, <2>1, Given DEF NewClient, FreshMemory, Assumptions
<1>5. CASE Heartbeat
  BY <1>5 DEF Heartbeat, memVars
<1>6. CASE ReadPong
  BY <1>6 DEF ReadPong, memVars
<1>7. ASSUME NEW i \in Ids, Claim(i)
      PROVE  SpacingInv'
  <2>1. age' = [age EXCEPT ![i] = 0] /\ since' = since /\ claimed' = i /\ CanClaim(i)
    BY <1>7 DEF Claim
  <2>2. age[i] = ReplayTTL + 1
    <3>1. ~(age[i] <= ReplayTTL)
      BY <2>1 DEF CanClaim, Live
    <3>2. age[i] \in 0..(ReplayTTL + 1)
      BY DEF TypeOK
    <3> QED
      BY <3>1, <3>2, Given DEF Assumptions
  <2>3. since[i] + CommandTimeout > ReplayTTL
    BY <2>2, Given DEF TypeOK, Assumptions
  <2>4. \A j \in Ids : since[j] + CommandTimeout >= 0 /\ (age'[j] = age[j] \/ age'[j] = 0)
    BY <2>1, Given DEF TypeOK, Assumptions
  <2> QED
    BY <2>1, <2>3, <2>4
<1>8. ASSUME NEW i \in Ids, RefuseDuplicate(i) \/ Send(i)
      PROVE  SpacingInv'
  BY <1>8 DEF RefuseDuplicate, Send, memVars
<1>9. ASSUME NEW s \in Slots, Start(s)
      PROVE  SpacingInv'
  <2>1. /\ age' = age /\ since' = [since EXCEPT ![claimed] = 0] /\ claimed' = NoId
        /\ claimed \in Ids /\ age[claimed] <= CommandTimeout
    BY <1>9 DEF Start, TypeOK, HandlerInv, ReaderStallBounded
  <2>2. \A j \in Ids : since'[j] = IF j = claimed THEN 0 ELSE since[j]
    BY <2>1 DEF TypeOK
  <2> QED
    BY <2>1, <2>2, Given DEF Assumptions
<1>10. ASSUME NEW s \in Slots, Finish(s)
       PROVE  SpacingInv'
  BY <1>10 DEF Finish, readVars, memVars
<1>11. CASE Tick
  BY <1>11, SpacingTick
<1>12. CASE UNCHANGED vars
  BY <1>12 DEF vars, readVars, memVars
<1> QED
  BY <1>1, <1>2, <1>3, <1>4, <1>5, <1>6, <1>7, <1>8, <1>9, <1>10, <1>11, <1>12 DEF Next

\* A new handler is one that Start began.
LEMMA OnlyStartBegins ==
  ASSUME TypeOK, [Next]_vars, NEW s \in Slots,
         running'[s] # running[s], running'[s] # NoId
  PROVE  running'[s] = claimed /\ claimed # NoId
<1>1. ASSUME NEW t \in Slots, Start(t)
      PROVE  running'[s] = claimed /\ claimed # NoId
  BY <1>1 DEF Start, TypeOK
<1>2. ASSUME NEW t \in Slots, Finish(t)
      PROVE  FALSE
  BY <1>2 DEF Finish, TypeOK
<1>3. ASSUME Teardown
      PROVE  FALSE
  BY <1>3 DEF Teardown, NoHandlers
<1>4. CASE Drop \/ ReadTimesOut \/ Revoked
  BY <1>3, <1>4 DEF Drop, ReadTimesOut, Revoked, SessionLost
<1>5. CASE Connect \/ DialFails \/ Wake \/ NewClient \/ Heartbeat \/ ReadPong \/ Tick
  BY <1>5 DEF Connect, DialFails, Wake, NewClient, Heartbeat, ReadPong, Tick, slotVars
<1>6. ASSUME NEW i \in Ids, Claim(i) \/ RefuseDuplicate(i) \/ Send(i)
      PROVE  FALSE
  BY <1>6 DEF Claim, RefuseDuplicate, Send, slotVars
<1>7. CASE UNCHANGED vars
  BY <1>7 DEF vars, slotVars
<1> QED
  BY <1>1, <1>2, <1>4, <1>5, <1>6, <1>7 DEF Next

\* A client starts a command a second time only when the TTL, less one command
\* timeout, has gone by.
THEOREM StartsFarApart == Spec => StartsSpaced
<1>1. Init => SpacingInv
  BY Given DEF Init, SpacingInv, FreshMemory, Assumptions
<1>2. TypeOK /\ HandlerInv /\ SpacingInv /\ [Next]_vars => SpacingInv'
  BY SpacingStep
<1>3. Spec => []SpacingInv
  BY <1>1, <1>2, ClockTyped, HandlersTimed, PTL DEF Spec
<1>4. TypeOK /\ SpacingInv /\ [Next]_vars =>
        [\A s \in Slots : running'[s] # running[s] /\ running'[s] # NoId
            => since[running'[s]] + CommandTimeout > ReplayTTL]_vars
  BY OnlyStartBegins DEF SpacingInv
<1> QED
  BY <1>3, <1>4, ClockTyped, PTL DEF Spec, StartsSpaced

----------------------------------------------------------------------------
(* The read deadline *)

\* Taking a command, or a pong that leaves others, hides no pong.
LEMMA PongsStay ==
  ASSUME TypeOK, NEW m, Receive(m), m # Pong, NoPong'
  PROVE  NoPong
<1>1. stream \in Seq(Ids \cup {Pong}) /\ stream # <<>> /\ m = Head(stream)
      /\ stream' = Tail(stream)
  BY DEF TypeOK, Receive
<1>2. ASSUME NEW k \in DOMAIN stream
      PROVE  stream[k] # Pong
  <2>1. CASE k = 1
    BY <1>1, <2>1
  <2>2. CASE k # 1
    <3>1. k - 1 \in DOMAIN stream' /\ stream'[k - 1] = stream[k]
      BY <1>1, <2>2
    <3> QED
      BY <3>1 DEF NoPong
  <2> QED
    BY <2>1, <2>2
<1> QED
  BY <1>2 DEF NoPong

\* Nor does sending one.
LEMMA PongsStaySent ==
  ASSUME TypeOK, NEW m \in Ids \cup {Pong}, stream' = Append(stream, m), NoPong'
  PROVE  NoPong /\ m # Pong
<1>1. stream \in Seq(Ids \cup {Pong})
  BY DEF TypeOK
<1>2. /\ \A k \in DOMAIN stream : k \in DOMAIN stream' /\ stream'[k] = stream[k]
      /\ Len(stream) + 1 \in DOMAIN stream' /\ stream'[Len(stream) + 1] = m
  BY <1>1
<1> QED
  BY <1>2 DEF NoPong

LEMMA StallTick ==
  ASSUME TypeOK, StallInv, Tick
  PROVE  StallInv'
<1>1. /\ link' = link /\ stream' = stream /\ prompt' = prompt /\ claimed' = claimed
      /\ link # "up" => quiet' = quiet /\ stalled' = stalled
      /\ link = "up" => /\ beat' = beat - 1 /\ quiet' = quiet + 1
                        /\ deadline' = Less(deadline)
                        /\ stalled' = IF claimed = NoId THEN stalled ELSE stalled + 1
  BY DEF Tick, pongVars
<1>2. link = "up" => beat > 0 /\ (claimed = NoId => stream = <<>>)
  BY Given DEF Tick, Due, TypeOK, Assumptions
<1>3. stream = <<>> => NoPong
  BY DEF NoPong
<1>4. link = "up" => deadline' + quiet' >= PongWait
  BY <1>1, PongWaitBounds DEF StallInv, TypeOK, Less
<1>5. link = "up" /\ prompt => quiet' <= stalled' + HeartbeatPeriod
  BY <1>1, <1>2, <1>3, Given DEF StallInv, TypeOK, Assumptions
<1>6. link = "up" /\ prompt /\ NoPong => quiet' + beat' <= stalled' + HeartbeatPeriod
  BY <1>1, <1>2, <1>3, Given DEF StallInv, TypeOK, Assumptions
<1> QED
  BY <1>1, <1>4, <1>5, <1>6 DEF StallInv, NoPong

LEMMA StallStep ==
  ASSUME TypeOK, StallInv, [Next]_vars
  PROVE  StallInv'
<1> USE DEF StallInv
<1>1. CASE Connect
  BY <1>1, Given, PongWaitBounds DEF Connect, TypeOK, Assumptions
<1>2. CASE DialFails \/ Wake
  BY <1>2 DEF DialFails, BackOff, Wake, readVars, pongVars
<1>3. CASE Drop \/ ReadTimesOut \/ Revoked
  BY <1>3 DEF Drop, ReadTimesOut, Revoked, SessionLost, Teardown, NoSession, BackOff
<1>4. CASE NewClient
  BY <1>4 DEF NewClient, readVars, pongVars
<1>5. CASE Heartbeat
  <2>1. /\ link = "up" /\ link' = "up" /\ deadline' = deadline
        /\ quiet' = quiet /\ stalled' = stalled
    BY <1>5 DEF Heartbeat, pongVars
  <2>2. CASE stream' = Append(stream, Pong) /\ prompt' = prompt
    BY <2>1, <2>2, PongsStaySent
  <2>3. CASE prompt' = FALSE
    BY <2>1, <2>3
  <2> QED
    BY <1>5, <2>2, <2>3 DEF Heartbeat
<1>6. CASE ReadPong
  BY <1>6, Given, PongWaitBounds
     DEF ReadPong, Receive, TypeOK, Assumptions, beatVars
<1>7. ASSUME NEW i \in Ids, Claim(i) \/ RefuseDuplicate(i)
      PROVE  StallInv'
  <2>1. /\ Receive(i) /\ link = "up" /\ i # Pong
        /\ UNCHANGED <<link, deadline, quiet, stalled, beat, prompt>>
    BY <1>7, Given DEF Claim, RefuseDuplicate, Receive, pongVars, beatVars, Assumptions
  <2>2. NoPong' => NoPong
    BY <2>1, PongsStay
  <2> QED
    BY <2>1, <2>2
<1>8. ASSUME NEW i \in Ids, Send(i)
      PROVE  StallInv'
  <2>1. /\ link = "up" /\ stream' = Append(stream, i)
        /\ UNCHANGED <<link, deadline, quiet, stalled, beat, prompt>>
    BY <1>8 DEF Send, pongVars, beatVars
  <2>2. NoPong' => NoPong
    BY <2>1, PongsStaySent
  <2> QED
    BY <2>1, <2>2
<1>9. ASSUME NEW s \in Slots, Start(s) \/ Finish(s)
      PROVE  StallInv'
  BY <1>9 DEF Start, Finish, readVars, pongVars, beatVars, NoPong
<1>10. CASE Tick
  BY <1>10, StallTick
<1>11. CASE UNCHANGED vars
  BY <1>11 DEF vars, readVars, pongVars, beatVars, NoPong
<1> QED
  BY <1>1, <1>2, <1>3, <1>4, <1>5, <1>6, <1>7, <1>8, <1>9, <1>10, <1>11 DEF Next

\* Only a reader kept from its pongs by commands costs a prompt gateway its session.
THEOREM DropsExplained == Spec => []DroppedForStalls
<1>1. Init => StallInv
  BY DEF Init, StallInv
<1>2. TypeOK /\ StallInv /\ [Next]_vars => StallInv'
  BY StallStep
<1>3. Spec => []StallInv
  BY <1>1, <1>2, ClockTyped, PTL DEF Spec
<1>4. TypeOK /\ StallInv => DroppedForStalls
  BY Given, PongWaitBounds
     DEF StallInv, DroppedForStalls, DeadlineHit, Expired, TypeOK, Assumptions
<1> QED
  BY <1>3, <1>4, ClockTyped, PTL
----------------------------------------------------------------------------
(* Powers of two *)

\* Induction over the naturals, as far as it goes without an operator parameter.
LEMMA LeastMember ==
  ASSUME NEW T, T \subseteq Nat, T # {}
  PROVE  \E x \in T : \A y \in T : x <= y
<1>1. \E x \in T : \A y \in T : ~(<<y, x>> \in OpToRel(<, Nat))
  BY NatLessThanWellFounded, WFMin, Zenon
<1>2. \A x, y \in Nat : ~(<<y, x>> \in OpToRel(<, Nat)) => x <= y
  BY DEF OpToRel
<1> QED
  BY <1>1, <1>2

\* The first powers of two.
Doubles(f, n) ==
    f \in [0..n -> Nat] /\ f[0] = 1 /\ \A k \in 1..n : f[k] = 2 * f[k - 1]

LEMMA DoublesExist == \A n \in Nat : \E f : Doubles(f, n)
<1> DEFINE T == {n \in Nat : ~ \E f : Doubles(f, n)}
<1> SUFFICES ASSUME T # {}
             PROVE  FALSE
  OBVIOUS
<1>1. PICK n \in T : \A y \in T : n <= y
  <2> T \subseteq Nat
    OBVIOUS
  <2> HIDE DEF T
  <2> QED
    BY LeastMember
<1>2. CASE n = 0
  <2>1. Doubles([k \in 0..n |-> 1], n)
    BY <1>2 DEF Doubles
  <2> QED
    BY <2>1, <1>1
<1>3. CASE n # 0
  <2>1. n \in Nat /\ n - 1 \in Nat /\ n - 1 \notin T
    BY <1>1, <1>3
  <2>2. PICK f : Doubles(f, n - 1)
    BY <2>1
  <2> DEFINE g == [k \in 0..n |-> IF k = n THEN 2 * f[n - 1] ELSE f[k]]
  <2>3. f \in [0..(n - 1) -> Nat] /\ f[0] = 1 /\ \A k \in 1..(n - 1) : f[k] = 2 * f[k - 1]
    BY <2>2 DEF Doubles
  <2>4. g \in [0..n -> Nat]
    BY <2>1, <2>3
  <2>5. g[0] = 1
    BY <2>1, <2>3, <1>3
  <2>6. \A k \in 1..n : g[k] = 2 * g[k - 1]
    BY <2>1, <2>3, <1>3
  <2>7. Doubles(g, n)
    BY <2>4, <2>5, <2>6 DEF Doubles
  <2> QED
    BY <2>7, <1>1
<1> QED
  BY <1>2, <1>3

LEMMA DoublesAgree ==
  ASSUME NEW m \in Nat, NEW n \in Nat, m <= n, NEW f, NEW g, Doubles(f, m), Doubles(g, n)
  PROVE  f[m] = g[m]
<1> DEFINE T == {k \in 0..m : f[k] # g[k]}
<1>1. SUFFICES ASSUME T # {}
               PROVE  FALSE
  OBVIOUS
<1>2. PICK k \in T : \A y \in T : k <= y
  <2> T \subseteq Nat
    OBVIOUS
  <2> HIDE DEF T
  <2> QED
    BY LeastMember, <1>1
<1>3. k # 0
  BY <1>2 DEF Doubles
<1>4. k \in 1..m /\ k - 1 \in 0..m /\ k - 1 \notin T
  BY <1>2, <1>3
<1>5. f[k] = 2 * f[k - 1] /\ g[k] = 2 * g[k - 1]
  BY <1>4 DEF Doubles
<1> QED
  BY <1>2, <1>4, <1>5

\* The recursion that defines Pow2 has a solution, so Pow2 satisfies it.
LEMMA Pow2Recursion == Pow2 = [n \in Nat |-> IF n = 0 THEN 1 ELSE 2 * Pow2[n - 1]]
<1> DEFINE F(n) == CHOOSE f : Doubles(f, n)
           H == [n \in Nat |-> F(n)[n]]
<1>1. \A n \in Nat : Doubles(F(n), n)
  BY DoublesExist
<1>2. F(0)[0] = 1
  BY <1>1 DEF Doubles
<1>3. ASSUME NEW n \in Nat, n # 0
      PROVE  F(n)[n] = 2 * F(n - 1)[n - 1]
  <2>1. n - 1 \in Nat
    BY <1>3
  <2>2. Doubles(F(n), n) /\ Doubles(F(n - 1), n - 1)
    BY <1>1, <2>1
  <2> HIDE DEF F
  <2>3. F(n - 1)[n - 1] = F(n)[n - 1]
    BY <2>1, <2>2, DoublesAgree
  <2>4. F(n)[n] = 2 * F(n)[n - 1]
    BY <2>2, <1>3 DEF Doubles
  <2> QED
    BY <2>3, <2>4
<1>4. H = [n \in Nat |-> IF n = 0 THEN 1 ELSE 2 * H[n - 1]]
  <2> HIDE DEF F
  <2> QED
    BY <1>2, <1>3
<1> HIDE DEF H
<1> QED
  BY <1>4, Zenon DEF Pow2

LEMMA PowersOfTwo ==
  /\ Pow2[0] = 1
  /\ \A n \in Nat : Pow2[n] \in Nat /\ Pow2[n] > 0 /\ Pow2[n + 1] = 2 * Pow2[n]
<1>1. Pow2[0] = 1
  BY Pow2Recursion
<1>2. \A n \in Nat : n # 0 => Pow2[n] = 2 * Pow2[n - 1]
  BY Pow2Recursion
<1> DEFINE T == {n \in Nat : ~(Pow2[n] \in Nat /\ Pow2[n] > 0)}
<1>3. ASSUME T # {}
      PROVE  FALSE
  <2>1. PICK n \in T : \A y \in T : n <= y
    <3> T \subseteq Nat
      OBVIOUS
    <3> HIDE DEF T
    <3> QED
      BY LeastMember, <1>3
  <2>2. n # 0
    BY <1>1, <2>1
  <2>3. n - 1 \in Nat /\ n - 1 \notin T
    BY <2>1, <2>2
  <2> QED
    BY <1>2, <2>1, <2>2, <2>3
<1>4. \A n \in Nat : Pow2[n + 1] = 2 * Pow2[n]
  BY <1>2
<1> QED
  BY <1>1, <1>3, <1>4

----------------------------------------------------------------------------
(* The delays *)

\* The delay after n failures in a row, and the sleep within its jitter.
DelayAfter(n) == IF n = 0 THEN 0 ELSE Capped(MinDelay * Pow2[n - 1], MaxDelay)

DelayInv == DelayFollowsFailures /\ (link # "down" => wait = 0)

LEMMA DelaysTyped == \A n \in Nat : DelayAfter(n) \in Nat /\ (n # 0 => DelayAfter(n) >= 2)
<1> SUFFICES ASSUME NEW n \in Nat, n # 0
             PROVE  DelayAfter(n) \in Nat /\ DelayAfter(n) >= 2
  BY DEF DelayAfter
<1>1. Pow2[n - 1] \in Nat /\ Pow2[n - 1] >= 1
  BY PowersOfTwo
<1>2. MinDelay * Pow2[n - 1] \in Nat /\ MinDelay * Pow2[n - 1] >= 2
  BY <1>1, Given DEF Assumptions
<1> QED
  BY <1>2, Given DEF DelayAfter, Capped, Assumptions

\* NextDelay is one step of that sequence, at the cap too.
LEMMA NextDelayFollows ==
  ASSUME NEW n \in 0..MaxFailures
  PROVE  NextDelay(DelayAfter(n)) = DelayAfter(Capped(n + 1, MaxFailures))
<1> USE Given DEF Assumptions
<1>1. CASE n = 0
  <2>1. Capped(n + 1, MaxFailures) = 1
    BY <1>1 DEF Capped
  <2>2. MinDelay * Pow2[1 - 1] = MinDelay
    BY PowersOfTwo
  <2> QED
    BY <1>1, <2>1, <2>2 DEF NextDelay, DelayAfter, Capped
<1>2. CASE n # 0 /\ n < MaxFailures
  <2> DEFINE d == MinDelay * Pow2[n - 1]
  <2>1. n - 1 \in Nat /\ Pow2[n - 1] \in Nat /\ Pow2[n] = 2 * Pow2[n - 1]
    BY <1>2, PowersOfTwo
  <2>2. d \in Nat /\ MinDelay * Pow2[n] = 2 * d
    BY <2>1
  <2>3. Capped(n + 1, MaxFailures) = n + 1
    BY <1>2 DEF Capped
  <2>4. DelayAfter(n) = Capped(d, MaxDelay) /\ DelayAfter(n) # 0
    BY <1>2, DelaysTyped DEF DelayAfter
  <2>5. DelayAfter(n + 1) = Capped(2 * d, MaxDelay)
    BY <2>2 DEF DelayAfter
  <2> HIDE DEF d
  <2> QED
    BY <2>2, <2>3, <2>4, <2>5 DEF NextDelay, Capped
<1>3. CASE n = MaxFailures
  <2>1. Capped(n + 1, MaxFailures) = n
    BY <1>3 DEF Capped
  <2>2. n - 1 \in Nat /\ Pow2[n - 1] \in Nat
    BY <1>3, PowersOfTwo
  <2>3. MaxDelay <= MinDelay * Pow2[n - 1] /\ MinDelay * Pow2[n - 1] \in Nat
    BY <1>3, <2>2, CountAssumption
  <2>4. DelayAfter(n) = MaxDelay
    BY <1>3, <2>3 DEF DelayAfter, Capped
  <2> QED
    BY <2>1, <2>4 DEF NextDelay, Capped
<1> QED
  BY <1>1, <1>2, <1>3

\* A sleep is shorter than one and a half delays.
LEMMA SleepFollows ==
  ASSUME NEW n \in 0..MaxFailures, BackOff(DelayAfter(n)),
         failures' = Capped(n + 1, MaxFailures)
  PROVE  DelayInv'
<1>1. Capped(n + 1, MaxFailures) \in Nat
  BY Given DEF Capped, Assumptions
<1>2. current' = DelayAfter(failures') /\ link' = "down" /\ current' \in Nat
  BY <1>1, NextDelayFollows, DelaysTyped DEF BackOff
<1>3. wait' < current' + (current' \div 2)
  <2>1. PICK jitter \in 0..((current' \div 2) - 1) : wait' = current' + jitter
    BY DEF BackOff
  <2>2. current' \div 2 \in Nat
    BY <1>2
  <2> QED
    BY <1>2, <2>1, <2>2
<1> QED
  BY <1>2, <1>3 DEF DelayInv, DelayFollowsFailures, DelayAfter

\* Delays double with each attempt that led to no stable session, start over after
\* one that did, and jitter adds less than half (reconnect.go:23).
THEOREM DelaysFollow == Spec => []DelayFollowsFailures
<1>1. Init => DelayInv
  BY DEF Init, DelayInv, DelayFollowsFailures
<1>2. TypeOK /\ DelayInv /\ [Next]_vars => DelayInv'
  <2> SUFFICES ASSUME TypeOK, DelayInv, [Next]_vars
               PROVE  DelayInv'
    OBVIOUS
  <2>0. current = DelayAfter(failures) /\ failures \in 0..MaxFailures
    BY DEF DelayInv, DelayFollowsFailures, DelayAfter, TypeOK
  <2>1. ASSUME UNCHANGED <<wait, backoffVars>>, link = "down" => link' = "down" \/ wait = 0
        PROVE  DelayInv'
    BY <2>1 DEF DelayInv, DelayFollowsFailures, backoffVars
  <2>2. CASE DialFails
    BY <2>0, <2>2, SleepFollows DEF DialFails
  <2>3. CASE Drop \/ ReadTimesOut
    <3>1. SessionLost
      BY <2>3 DEF Drop, ReadTimesOut
    <3>2. CASE uptime < StableDuration
      BY <2>0, <3>1, <3>2, SleepFollows, Given DEF SessionLost, TypeOK, Assumptions
    <3>3. CASE uptime >= StableDuration
      <4>1. BackOff(DelayAfter(0)) /\ failures' = Capped(0 + 1, MaxFailures)
        BY <3>1, <3>3, Given DEF SessionLost, DelayAfter, Capped, Assumptions
      <4>2. 0 \in 0..MaxFailures
        BY Given DEF Assumptions
      <4> QED
        BY <4>1, <4>2, SleepFollows
    <3> QED
      BY <3>2, <3>3, Given DEF TypeOK, Assumptions
  <2>4. CASE NewClient
    BY <2>4 DEF NewClient, DelayInv, DelayFollowsFailures
  <2>5. CASE Tick
    <3>1. wait' = Less(wait) /\ link' = link /\ current' = current /\ failures' = failures
      BY <2>5 DEF Tick, backoffVars
    <3>2. wait' <= wait /\ wait' \in Nat /\ wait \in Nat /\ current \in Nat
          /\ (wait = 0 => wait' = 0)
      BY <3>1 DEF Less, TypeOK
    <3>3. current \div 2 \in Nat
      BY <3>2
    <3> QED
      BY <3>1, <3>2, <3>3 DEF DelayInv, DelayFollowsFailures
  <2>6. CASE Connect \/ Wake \/ Revoked \/ Heartbeat \/ ReadPong
    BY <2>1, <2>6 DEF Connect, Wake, Revoked, Heartbeat, ReadPong
  <2>7. ASSUME NEW i \in Ids, Claim(i) \/ RefuseDuplicate(i) \/ Send(i)
        PROVE  DelayInv'
    BY <2>1, <2>7 DEF Claim, RefuseDuplicate, Send
  <2>8. ASSUME NEW s \in Slots, Start(s) \/ Finish(s)
        PROVE  DelayInv'
    BY <2>1, <2>8 DEF Start, Finish
  <2>9. CASE UNCHANGED vars
    BY <2>1, <2>9 DEF vars
  <2> QED
    BY <2>2, <2>3, <2>4, <2>5, <2>6, <2>7, <2>8, <2>9 DEF Next
<1>3. DelayInv => DelayFollowsFailures
  BY DEF DelayInv
<1> QED
  BY <1>1, <1>2, <1>3, ClockTyped, PTL DEF Spec

----------------------------------------------------------------------------
(* Counting commands *)

Messages == Ids \cup {Pong}

\* The commands among the first n messages of a stream, and the slots at work.
CommandsIn(q, n) == {k \in 1..n : q[k] # Pong}
BusyIn(f) == {s \in Slots : f[s] # NoId}

LEMMA Counting ==
  ASSUME NEW q, NEW n \in Nat, NEW m \in 0..n
  PROVE  /\ IsFiniteSet(CommandsIn(q, n)) /\ Cardinality(CommandsIn(q, n)) \in Nat
         /\ Cardinality(CommandsIn(q, m)) <= Cardinality(CommandsIn(q, n))
         /\ Cardinality(CommandsIn(q, 0)) = 0
<1>1. IsFiniteSet(1..n)
  BY FS_Interval
<1>2. CommandsIn(q, n) \in SUBSET (1..n) /\ CommandsIn(q, m) \in SUBSET CommandsIn(q, n)
  BY DEF CommandsIn
<1>3. IsFiniteSet(CommandsIn(q, n))
  BY <1>1, <1>2, FS_Subset
<1>4. Cardinality(CommandsIn(q, m)) <= Cardinality(CommandsIn(q, n))
  BY <1>2, <1>3, FS_Subset
<1>5. CommandsIn(q, 0) = {}
  BY DEF CommandsIn
<1> QED
  BY <1>3, <1>4, <1>5, FS_CardinalityType, FS_EmptySet

\* A message sent counts if it is a command, and leaves what came before as it was.
LEMMA CountSent ==
  ASSUME NEW q \in Seq(Messages), NEW m \in Messages, NEW r, r = Append(q, m)
  PROVE  /\ \A n \in 0..Len(q) : CommandsIn(r, n) = CommandsIn(q, n)
         /\ Cardinality(CommandsIn(r, Len(r))) =
              Cardinality(CommandsIn(q, Len(q))) + (IF m = Pong THEN 0 ELSE 1)
<1>1. /\ Len(q) \in Nat /\ Len(r) = Len(q) + 1 /\ r[Len(q) + 1] = m
      /\ \A k \in 1..Len(q) : r[k] = q[k]
  OBVIOUS
<1>2. \A n \in 0..Len(q) : CommandsIn(r, n) = CommandsIn(q, n)
  BY <1>1 DEF CommandsIn
<1>3. IsFiniteSet(CommandsIn(q, Len(q))) /\ Cardinality(CommandsIn(q, Len(q))) \in Nat
  BY <1>1, Counting
<1>4. CASE m = Pong
  <2>1. CommandsIn(r, Len(r)) = CommandsIn(q, Len(q))
    BY <1>1, <1>4 DEF CommandsIn
  <2> QED
    BY <1>2, <1>3, <1>4, <2>1
<1>5. CASE m # Pong
  <2>1. /\ CommandsIn(r, Len(r)) = CommandsIn(q, Len(q)) \cup {Len(q) + 1}
        /\ Len(q) + 1 \notin CommandsIn(q, Len(q))
    BY <1>1, <1>5 DEF CommandsIn
  <2> QED
    BY <1>2, <1>3, <1>5, <2>1, FS_AddElement
<1> QED
  BY <1>4, <1>5

\* A message taken no longer counts; the others move up by one.
LEMMA CountTaken ==
  ASSUME NEW q \in Seq(Messages), q # <<>>, NEW n \in 1..Len(q)
  PROVE  Cardinality(CommandsIn(Tail(q), n - 1)) =
           Cardinality(CommandsIn(q, n)) - (IF Head(q) = Pong THEN 0 ELSE 1)
<1> DEFINE S == CommandsIn(q, n) \ {1}
           T == CommandsIn(Tail(q), n - 1)
           f == [k \in S |-> k - 1]
<1>1. /\ Head(q) = q[1] /\ Len(q) \in Nat
      /\ \A k \in 2..n : Tail(q)[k - 1] = q[k]
  OBVIOUS
<1>2. \A k \in 1..(n - 1) : Tail(q)[k] = q[k + 1]
  BY <1>1
<1>3. f \in Bijection(S, T)
  <2>1. f \in [S -> T]
    BY <1>1 DEF CommandsIn
  <2>2. \A a, b \in S : f[a] = f[b] => a = b
    BY DEF CommandsIn
  <2>3. ASSUME NEW t \in T
        PROVE  \E s \in S : f[s] = t
    <3>1. t + 1 \in S /\ f[t + 1] = t
      BY <1>2 DEF CommandsIn
    <3> QED
      BY <3>1
  <2> HIDE DEF f, S, T
  <2> QED
    BY <2>1, <2>2, <2>3, Fun_IsBij, Zenon
<1>4. IsFiniteSet(CommandsIn(q, n)) /\ Cardinality(CommandsIn(q, n)) \in Nat
  BY Counting
<1>5. /\ IsFiniteSet(S)
      /\ Cardinality(S) = IF 1 \in CommandsIn(q, n) THEN Cardinality(CommandsIn(q, n)) - 1
                          ELSE Cardinality(CommandsIn(q, n))
  BY <1>4, FS_RemoveElement
<1>6. Cardinality(T) = Cardinality(S)
  <2> HIDE DEF f, S, T
  <2> QED
    BY <1>3, <1>5, FS_Bijection DEF ExistsBijection
<1>7. 1 \in CommandsIn(q, n) <=> Head(q) # Pong
  BY <1>1 DEF CommandsIn
<1> HIDE DEF S
<1> QED
  BY <1>4, <1>5, <1>6, <1>7

\* A slot that is taken or freed counts for one.
LEMMA CountSlots ==
  ASSUME NEW f \in [Slots -> Ids \cup {NoId}], NEW s \in Slots
  PROVE  /\ Cardinality(BusyIn(f)) \in Nat
         /\ f[s] = NoId => \A i \in Ids : Cardinality(BusyIn([f EXCEPT ![s] = i])) =
                                            Cardinality(BusyIn(f)) + 1
         /\ f[s] # NoId => Cardinality(BusyIn([f EXCEPT ![s] = NoId])) =
                             Cardinality(BusyIn(f)) - 1
<1>1. IsFiniteSet(BusyIn(f))
  BY Given, FS_Subset DEF BusyIn, Assumptions
<1>2. Cardinality(BusyIn(f)) \in Nat
  BY <1>1, FS_CardinalityType
<1>3. ASSUME f[s] = NoId, NEW i \in Ids
      PROVE  Cardinality(BusyIn([f EXCEPT ![s] = i])) = Cardinality(BusyIn(f)) + 1
  <2>1. BusyIn([f EXCEPT ![s] = i]) = BusyIn(f) \cup {s} /\ s \notin BusyIn(f)
    BY <1>3, Given DEF BusyIn, Assumptions
  <2> QED
    BY <1>1, <2>1, FS_AddElement
<1>4. ASSUME f[s] # NoId
      PROVE  Cardinality(BusyIn([f EXCEPT ![s] = NoId])) = Cardinality(BusyIn(f)) - 1
  <2>1. BusyIn([f EXCEPT ![s] = NoId]) = BusyIn(f) \ {s} /\ s \in BusyIn(f)
    BY <1>4 DEF BusyIn
  <2> QED
    BY <1>1, <2>1, FS_RemoveElement
<1> QED
  BY <1>2, <1>3, <1>4

\* Commands the gateway has sent and has no answer to.
LEMMA CommandsCounted ==
  ASSUME NEW q \in Seq(Messages)
  PROVE  {k \in DOMAIN q : q[k] # Pong} = CommandsIn(q, Len(q))
BY DEF CommandsIn

----------------------------------------------------------------------------
(* The load *)

LoadInv == InFlight <= MaxInFlight

Held(id) == IF id = NoId THEN 0 ELSE 1

LEMMA LoadStep ==
  ASSUME TypeOK, TypeOK', LoadInv, [Next]_vars
  PROVE  LoadInv'
<1> DEFINE queued == Cardinality(CommandsIn(stream, Len(stream)))
           busy == Cardinality(BusyIn(running))
<1> USE Given DEF Assumptions
<1>1. stream \in Seq(Messages) /\ stream' \in Seq(Messages) /\ Len(stream) \in Nat
  BY DEF TypeOK, Messages
<1>2. InFlight = queued + busy + Held(claimed)
  BY <1>1, CommandsCounted DEF InFlight, BusyIn, Held
<1>3. InFlight' = queued' + busy' + Held(claimed')
  <2>1. {k \in DOMAIN stream' : stream'[k] # Pong} = CommandsIn(stream', Len(stream'))
    BY <1>1, CommandsCounted
  <2> QED
    BY <2>1 DEF InFlight, BusyIn, Held
<1>4. queued \in Nat /\ busy \in Nat /\ Held(claimed) \in Nat
  BY <1>1, Counting, CountSlots DEF TypeOK, Held
<1>5. ASSUME queued' = queued, busy' = busy, claimed' = claimed
      PROVE  LoadInv'
  BY <1>2, <1>3, <1>5 DEF LoadInv
<1>6. CASE Connect \/ DialFails \/ Wake \/ NewClient \/ Tick
  BY <1>5, <1>6 DEF Connect, DialFails, Wake, NewClient, Tick, readVars, slotVars
<1>7. CASE Drop \/ ReadTimesOut \/ Revoked
  <2>1. stream' = <<>> /\ claimed' = NoId /\ \A s \in Slots : running'[s] = NoId
    BY <1>7 DEF Drop, ReadTimesOut, Revoked, SessionLost, Teardown, NoSession, NoHandlers
  <2>2. Len(stream') = 0 /\ BusyIn(running') = {}
    BY <2>1 DEF BusyIn
  <2>3. queued' = 0 /\ busy' = 0
    BY <2>2, Counting, FS_EmptySet
  <2> QED
    BY <1>3, <2>1, <2>3 DEF LoadInv, Held
<1>8. CASE Heartbeat
  <2>1. busy' = busy /\ claimed' = claimed
    BY <1>8 DEF Heartbeat, slotVars
  <2>2. queued' = queued
    BY <1>1, <1>4, <1>8, CountSent DEF Heartbeat, Messages
  <2> QED
    BY <1>5, <2>1, <2>2
<1>9. ASSUME NEW m \in Messages, Receive(m)
      PROVE  queued' = queued - (IF m = Pong THEN 0 ELSE 1)
  <2>1. stream # <<>> /\ stream' = Tail(stream) /\ m = Head(stream)
    BY <1>9 DEF Receive
  <2>2. Len(stream) \in 1..Len(stream) /\ Len(stream') = Len(stream) - 1
    BY <1>1, <2>1
  <2> QED
    BY <1>1, <2>1, <2>2, CountTaken
<1>10. CASE ReadPong
  <2>1. Receive(Pong) /\ busy' = busy /\ claimed' = claimed
    BY <1>10 DEF ReadPong, slotVars
  <2>2. queued' = queued
    BY <1>4, <1>9, <2>1 DEF Messages
  <2> QED
    BY <1>5, <2>1, <2>2
<1>11. ASSUME NEW i \in Ids, Claim(i) \/ RefuseDuplicate(i)
       PROVE  LoadInv'
  <2>1. Receive(i) /\ claimed = NoId /\ busy' = busy /\ claimed' \in {i, NoId}
    BY <1>11 DEF Claim, RefuseDuplicate, Receive, slotVars
  <2>2. queued' = queued - 1
    BY <1>9, <2>1 DEF Messages
  <2>3. Held(claimed') <= Held(claimed) + 1 /\ Held(claimed') \in Nat
    BY <2>1 DEF Held
  <2> QED
    BY <1>2, <1>3, <1>4, <2>1, <2>2, <2>3 DEF LoadInv
<1>12. ASSUME NEW i \in Ids, Send(i)
       PROVE  LoadInv'
  <2>1. InFlight < MaxInFlight /\ busy' = busy /\ claimed' = claimed
    BY <1>12 DEF Send, slotVars
  <2>2. queued' = queued + 1
    BY <1>1, <1>12, CountSent DEF Send, Messages
  <2> QED
    BY <1>2, <1>3, <1>4, <2>1, <2>2 DEF LoadInv
<1>13. ASSUME NEW s \in Slots, Start(s)
       PROVE  LoadInv'
  <2>1. queued' = queued /\ claimed # NoId /\ claimed' = NoId
    BY <1>13 DEF Start
  <2>2. busy' = busy + 1
    BY <1>13, CountSlots DEF Start, TypeOK
  <2> QED
    BY <1>2, <1>3, <1>4, <2>1, <2>2 DEF LoadInv, Held
<1>14. ASSUME NEW s \in Slots, Finish(s)
       PROVE  LoadInv'
  <2>1. queued' = queued /\ claimed' = claimed
    BY <1>14 DEF Finish, readVars
  <2>2. busy' = busy - 1
    BY <1>14, CountSlots DEF Finish, TypeOK
  <2> QED
    BY <1>2, <1>3, <1>4, <2>1, <2>2 DEF LoadInv
<1>15. CASE UNCHANGED vars
  BY <1>5, <1>15 DEF vars, readVars, slotVars
<1> QED
  BY <1>6, <1>7, <1>8, <1>10, <1>11, <1>12, <1>13, <1>14, <1>15 DEF Next

\* The gateway leaves no more commands unanswered than it means to.
THEOREM LoadBounded == Spec => []LoadInv
<1>1. Init => LoadInv
  <2> SUFFICES ASSUME Init
               PROVE  LoadInv
    OBVIOUS
  <2>1. /\ {k \in DOMAIN stream : stream[k] # Pong} = {}
        /\ {s \in Slots : running[s] # NoId} = {} /\ claimed = NoId
    BY DEF Init
  <2> QED
    BY <2>1, FS_EmptySet, Given DEF LoadInv, InFlight, Assumptions
<1>2. TypeOK /\ TypeOK' /\ LoadInv /\ [Next]_vars => LoadInv'
  BY LoadStep
<1> QED
  BY <1>1, <1>2, ClockTyped, PTL DEF Spec

----------------------------------------------------------------------------
(* Silence *)

\* The commands the reader will still take although the deadline has passed.
Ahead == Cardinality(CommandsIn(stream, buffered)) + Held(claimed)

HeldFor == IF claimed = NoId THEN 0 ELSE age[claimed]

\* Until the deadline it is the time since the last pong that runs; after it,
\* the commands ahead and the one in hand have a timeout each.
SilenceInv ==
    /\ link # "up" => quiet = 0
    /\ link = "up" /\ deadline > 0 => deadline + quiet = PongWait
    /\ link = "up" /\ deadline = 0 =>
         quiet + Ahead * CommandTimeout
           <= PongWait + MaxInFlight * CommandTimeout + HeldFor

\* Timeouts of commands, added up.
LEMMA Timeouts ==
  ASSUME NEW a \in Nat, NEW b \in Nat
  PROVE  /\ a * CommandTimeout \in Nat
         /\ a <= b => a * CommandTimeout <= b * CommandTimeout
         /\ (a + 1) * CommandTimeout = a * CommandTimeout + CommandTimeout
<1>1. CommandTimeout \in Nat
  BY Given DEF Assumptions
<1>2. \A c \in Nat : a * c \in Nat /\ (a <= b => a * c <= b * c) /\ (a + 1) * c = a * c + c
  OBVIOUS
<1> QED
  BY <1>1, <1>2

LEMMA LimitTyped == PongWait + MaxInFlight * CommandTimeout \in Nat
<1>1. MaxInFlight * CommandTimeout \in Nat
  BY Timeouts, Given DEF Assumptions
<1>2. \A a, b \in Nat : a + b \in Nat
  OBVIOUS
<1> QED
  BY <1>1, <1>2, PongWaitBounds, Zenon

\* What is ahead is a part of the load.
LEMMA AheadIsLoad ==
  ASSUME TypeOK, LoadInv
  PROVE  /\ Cardinality(CommandsIn(stream, buffered)) \in Nat /\ Held(claimed) \in Nat
         /\ Ahead \in Nat /\ Ahead <= MaxInFlight
<1>1. stream \in Seq(Messages) /\ Len(stream) \in Nat /\ buffered \in 0..Len(stream)
  BY DEF TypeOK, Messages
<1>2. /\ Cardinality(CommandsIn(stream, buffered)) \in Nat
      /\ Cardinality(CommandsIn(stream, Len(stream))) \in Nat
      /\ Cardinality(CommandsIn(stream, buffered))
           <= Cardinality(CommandsIn(stream, Len(stream)))
  BY <1>1, Counting
<1>3. PICK s \in Slots : TRUE
  BY Given DEF Assumptions
<1>4. Cardinality(BusyIn(running)) \in Nat
  BY <1>3, CountSlots DEF TypeOK
<1>5. InFlight = Cardinality(CommandsIn(stream, Len(stream)))
                 + Cardinality(BusyIn(running)) + Held(claimed)
  BY <1>1, CommandsCounted DEF InFlight, BusyIn, Held
<1> QED
  BY <1>2, <1>4, <1>5, Given DEF LoadInv, Ahead, Held, Assumptions

LEMMA SilenceTick ==
  ASSUME TypeOK, HandlerInv, LoadInv, SilenceInv, Tick
  PROVE  SilenceInv'
<1> USE Given DEF Assumptions
<1>1. /\ link' = link /\ stream' = stream /\ buffered' = buffered /\ claimed' = claimed
      /\ link # "up" => quiet' = quiet
      /\ link = "up" => deadline' = Less(deadline) /\ quiet' = quiet + 1
  BY DEF Tick, pongVars
<1>2. Ahead' = Ahead /\ Ahead \in Nat /\ Ahead <= MaxInFlight
  BY <1>1, AheadIsLoad DEF Ahead
<1>3. Ahead * CommandTimeout <= MaxInFlight * CommandTimeout
  BY <1>2, Timeouts
<1>4. HeldFor' \in Nat /\ (claimed # NoId => HeldFor' = HeldFor + 1) /\ HeldFor \in Nat
  <2>1. CASE claimed = NoId
    BY <1>1, <2>1 DEF HeldFor
  <2>2. CASE claimed # NoId
    <3>1. claimed \in Ids /\ age[claimed] \in Nat /\ age[claimed] <= CommandTimeout
      BY <2>2 DEF TypeOK, HandlerInv, ReaderStallBounded
    <3>2. age'[claimed] = age[claimed] + 1
      BY <3>1 DEF Tick, Older, Capped
    <3> QED
      BY <1>1, <2>2, <3>1, <3>2 DEF HeldFor
  <2> QED
    BY <2>1, <2>2
<1>5. Ahead * CommandTimeout \in Nat /\ MaxInFlight * CommandTimeout \in Nat
  BY <1>2, Timeouts
<1>6. CASE link # "up"
  BY <1>1, <1>6 DEF SilenceInv
<1>7. CASE link = "up" /\ deadline > 0
  <2>1. /\ deadline + quiet = PongWait /\ quiet' = quiet + 1 /\ deadline' = deadline - 1
        /\ deadline \in Nat /\ quiet \in Nat
    BY <1>1, <1>7, PongWaitBounds DEF SilenceInv, Less, TypeOK
  <2>2. deadline' = 0 => quiet' = PongWait
    BY <2>1, PongWaitBounds
  <2>3. PongWait + Ahead * CommandTimeout <= PongWait + MaxInFlight * CommandTimeout + HeldFor'
    <3>1. \A w, p, m, h \in Nat : p <= m => w + p <= w + m + h
      OBVIOUS
    <3> QED
      BY <1>3, <1>4, <1>5, <3>1, PongWaitBounds, Zenon
  <2> QED
    BY <1>1, <1>2, <1>7, <2>1, <2>2, <2>3, PongWaitBounds DEF SilenceInv
<1>8. CASE link = "up" /\ deadline = 0
  <2>1. claimed # NoId
    <3> SUFFICES ASSUME claimed = NoId
                 PROVE  FALSE
      OBVIOUS
    <3>1. stream = <<>> /\ ~DeadlineHit
      BY <1>8 DEF Tick, Due
    <3>2. buffered = 0
      BY <3>1 DEF TypeOK
    <3> QED
      BY <1>8, <3>1, <3>2 DEF DeadlineHit, Expired
  <2>2. deadline' = 0
    BY <1>1, <1>8 DEF Less
  <2> QED
    BY <1>1, <1>2, <1>4, <1>5, <1>8, <2>1, <2>2, PongWaitBounds DEF SilenceInv, TypeOK
<1> QED
  BY <1>6, <1>7, <1>8 DEF TypeOK

LEMMA SilenceStep ==
  ASSUME TypeOK, TypeOK', HandlerInv, LoadInv, SilenceInv, [Next]_vars
  PROVE  SilenceInv'
<1> USE Given DEF Assumptions
<1>1. stream \in Seq(Messages) /\ Len(stream) \in Nat /\ buffered \in 0..Len(stream)
  BY DEF TypeOK, Messages
<1>2. Ahead \in Nat /\ Held(claimed) \in Nat
      /\ Cardinality(CommandsIn(stream, buffered)) \in Nat
  BY AheadIsLoad
<1>3. ASSUME UNCHANGED <<link, deadline, quiet, claimed>>,
             claimed # NoId => age'[claimed] = age[claimed],
             CommandsIn(stream', buffered') = CommandsIn(stream, buffered)
      PROVE  SilenceInv'
  BY <1>3 DEF SilenceInv, Ahead, HeldFor
<1>4. CASE Connect
  BY <1>4, PongWaitBounds DEF Connect, SilenceInv
<1>5. CASE DialFails \/ Wake
  BY <1>5 DEF DialFails, BackOff, Wake, SilenceInv, readVars, pongVars
<1>6. CASE Drop \/ ReadTimesOut \/ Revoked
  BY <1>6 DEF Drop, ReadTimesOut, Revoked, SessionLost, Teardown, NoSession, BackOff,
     SilenceInv
<1>7. CASE NewClient
  BY <1>7 DEF NewClient, SilenceInv, readVars, pongVars
<1>8. ASSUME NEW m \in Messages, stream' = Append(stream, m), buffered' = buffered
      PROVE  CommandsIn(stream', buffered') = CommandsIn(stream, buffered)
  BY <1>1, <1>8, CountSent
<1>9. CASE Heartbeat
  <2>1. UNCHANGED <<link, deadline, quiet, claimed, age, buffered>>
    BY <1>9 DEF Heartbeat, pongVars, memVars
  <2>2. CommandsIn(stream', buffered') = CommandsIn(stream, buffered)
    BY <1>8, <1>9, <2>1 DEF Heartbeat, Messages
  <2> QED
    BY <1>3, <2>1, <2>2
<1>10. CASE ReadPong
  BY <1>10, PongWaitBounds DEF ReadPong, Receive, SilenceInv
<1>11. ASSUME NEW i \in Ids, Claim(i) \/ RefuseDuplicate(i)
       PROVE  SilenceInv'
  <2>1. /\ Receive(i) /\ link = "up" /\ claimed = NoId
        /\ UNCHANGED <<link, deadline, quiet>>
        /\ claimed' = NoId \/ (claimed' = i /\ age'[i] = 0)
    BY <1>11 DEF Claim, RefuseDuplicate, Receive, pongVars, TypeOK
  <2>2. CASE deadline > 0
    BY <2>1, <2>2 DEF SilenceInv
  <2>3. CASE deadline = 0
    <3>1. buffered \in 1..Len(stream) /\ buffered' = buffered - 1 /\ stream # <<>>
          /\ stream' = Tail(stream) /\ Head(stream) # Pong
      BY <1>1, <2>1, <2>3 DEF Receive, Expired
    <3>2. Cardinality(CommandsIn(stream', buffered')) =
            Cardinality(CommandsIn(stream, buffered)) - 1
      BY <1>1, <3>1, CountTaken
    <3>3. Ahead' \in Nat /\ Ahead' <= Ahead /\ HeldFor = 0 /\ HeldFor' = 0
      <4>1. Held(claimed) = 0 /\ Held(claimed') \in 0..1 /\ HeldFor = 0
        BY <2>1 DEF Held, HeldFor
      <4>2. HeldFor' = 0
        BY <2>1 DEF HeldFor
      <4>3. Cardinality(CommandsIn(stream', buffered')) \in Nat
        BY <3>1, Counting
      <4> QED
        BY <1>2, <3>2, <4>1, <4>2, <4>3 DEF Ahead
    <3>4. Ahead' * CommandTimeout <= Ahead * CommandTimeout
          /\ Ahead' * CommandTimeout \in Nat /\ Ahead * CommandTimeout \in Nat
          /\ MaxInFlight * CommandTimeout \in Nat
      BY <1>2, <3>3, Timeouts
    <3>5. quiet + Ahead * CommandTimeout <= PongWait + MaxInFlight * CommandTimeout + 0
      BY <2>1, <2>3, <3>3 DEF SilenceInv
    <3>6. \A q, a, b, r \in Nat : b <= a /\ q + a <= r + 0 => q + b <= r + 0
      OBVIOUS
    <3>7. PongWait + MaxInFlight * CommandTimeout \in Nat /\ quiet \in Nat
      BY LimitTyped DEF TypeOK
    <3>8. quiet + Ahead' * CommandTimeout <= PongWait + MaxInFlight * CommandTimeout + 0
      BY <3>4, <3>5, <3>6, <3>7, Zenon
    <3> QED
      BY <2>1, <2>3, <3>3, <3>8 DEF SilenceInv
  <2> QED
    BY <2>2, <2>3 DEF TypeOK
<1>12. ASSUME NEW i \in Ids, Send(i)
       PROVE  SilenceInv'
  <2>1. UNCHANGED <<link, deadline, quiet, claimed, age, buffered>>
        /\ stream' = Append(stream, i)
    BY <1>12 DEF Send, pongVars, memVars
  <2>2. CommandsIn(stream', buffered') = CommandsIn(stream, buffered)
    BY <1>8, <2>1 DEF Messages
  <2> QED
    BY <1>3, <2>1, <2>2
<1>13. ASSUME NEW s \in Slots, Start(s)
       PROVE  SilenceInv'
  <2>1. /\ UNCHANGED <<link, deadline, quiet, stream, buffered>>
        /\ claimed # NoId /\ claimed' = NoId
        /\ claimed \in Ids /\ age[claimed] \in Nat /\ age[claimed] <= CommandTimeout
    BY <1>13 DEF Start, pongVars, TypeOK, HandlerInv, ReaderStallBounded
  <2>2. Ahead' \in Nat /\ Ahead = Ahead' + 1 /\ HeldFor' = 0 /\ HeldFor = age[claimed]
    BY <1>2, <2>1 DEF Ahead, Held, HeldFor
  <2>3. Ahead * CommandTimeout = Ahead' * CommandTimeout + CommandTimeout
        /\ Ahead' * CommandTimeout \in Nat /\ MaxInFlight * CommandTimeout \in Nat
    BY <2>2, Timeouts
  <2>4. CASE link = "up" /\ deadline = 0
    <3>1. quiet + (Ahead' * CommandTimeout + CommandTimeout)
            <= PongWait + MaxInFlight * CommandTimeout + age[claimed]
      BY <2>2, <2>3, <2>4 DEF SilenceInv
    <3>2. \A q, a, c, r, h \in Nat : h <= c /\ q + (a + c) <= r + h => q + a <= r + 0
      OBVIOUS
    <3>3. PongWait + MaxInFlight * CommandTimeout \in Nat /\ quiet \in Nat
      BY LimitTyped DEF TypeOK
    <3>4. quiet + Ahead' * CommandTimeout <= PongWait + MaxInFlight * CommandTimeout + 0
      BY <2>1, <2>3, <3>1, <3>2, <3>3, Zenon
    <3> QED
      BY <2>1, <2>2, <2>4, <3>4 DEF SilenceInv
  <2> QED
    BY <2>1, <2>4 DEF SilenceInv
<1>14. ASSUME NEW s \in Slots, Finish(s)
       PROVE  SilenceInv'
  BY <1>3, <1>14 DEF Finish, readVars, pongVars, memVars
<1>15. CASE Tick
  BY <1>15, SilenceTick
<1>16. CASE UNCHANGED vars
  BY <1>3, <1>16 DEF vars, readVars, pongVars, memVars
<1> QED
  BY <1>4, <1>5, <1>6, <1>7, <1>9, <1>10, <1>11, <1>12, <1>13, <1>14, <1>15, <1>16 DEF Next

\* A gateway that no longer answers is left after the deadline and a timeout for
\* each command it has open, whatever it goes on sending (heartbeat.go:10).
THEOREM SilenceEnds == Spec => []SilentGatewayLeft
<1>1. Init => SilenceInv
  BY DEF Init, SilenceInv
<1>2. TypeOK /\ TypeOK' /\ HandlerInv /\ LoadInv /\ SilenceInv /\ [Next]_vars => SilenceInv'
  BY SilenceStep
<1>3. Spec => []SilenceInv
  BY <1>1, <1>2, ClockTyped, HandlersTimed, LoadBounded, PTL DEF Spec
<1>4. TypeOK /\ HandlerInv /\ LoadInv /\ SilenceInv => SilentGatewayLeft
  <2> SUFFICES ASSUME TypeOK, HandlerInv, LoadInv, SilenceInv
               PROVE  SilentGatewayLeft
    OBVIOUS
  <2>1. MaxInFlight * CommandTimeout \in Nat /\ Ahead * CommandTimeout \in Nat
    BY AheadIsLoad, Timeouts, Given DEF Assumptions
  <2>2. claimed # NoId => Ahead * CommandTimeout >= HeldFor /\ HeldFor \in Nat
    <3> SUFFICES ASSUME claimed # NoId
                 PROVE  Ahead * CommandTimeout >= HeldFor /\ HeldFor \in Nat
      OBVIOUS
    <3>1. HeldFor \in Nat /\ HeldFor <= CommandTimeout
      BY DEF HeldFor, HandlerInv, ReaderStallBounded, TypeOK
    <3>2. Ahead >= 1 /\ Ahead \in Nat
      BY AheadIsLoad DEF Ahead, Held
    <3>3. 1 * CommandTimeout <= Ahead * CommandTimeout /\ 1 * CommandTimeout = CommandTimeout
      BY <3>2, Timeouts, Given DEF Assumptions
    <3> QED
      BY <2>1, <3>1, <3>3, Given DEF Assumptions
  <2> QED
    BY <2>1, <2>2, PongWaitBounds DEF SilenceInv, SilentGatewayLeft, HeldFor, TypeOK
<1> QED
  BY <1>3, <1>4, ClockTyped, HandlersTimed, LoadBounded, PTL

----------------------------------------------------------------------------
(* The life of a command *)

\* What is held or worked on is remembered, and no command is both.
MemoryInv ==
    /\ claimed # NoId => claimed \in Live /\ claimed \notin Working
    /\ Working \subseteq Live
    /\ link # "up" => claimed = NoId /\ Working = {}

LEMMA Remembered ==
  ASSUME TypeOK, HandlerInv
  PROVE  MemoryInv
<1>1. \A i \in Ids : age[i] \in Nat
  BY Given DEF TypeOK, Assumptions
<1>2. claimed # NoId => claimed \in Ids /\ age[claimed] <= ReplayTTL
  BY <1>1, Given DEF TypeOK, HandlerInv, ReaderStallBounded, Assumptions
<1>3. ASSUME NEW s \in Slots, Busy(s)
      PROVE  running[s] \in Live /\ running[s] # claimed
  <2>1. running[s] \in Ids /\ left[s] \in Nat
    BY <1>3, Given DEF TypeOK, Busy, Assumptions
  <2>2. age[running[s]] + left[s] <= 2 * CommandTimeout
    BY <1>3 DEF HandlerInv
  <2>3. age[running[s]] <= ReplayTTL
    BY <1>1, <2>1, <2>2, Given DEF Assumptions
  <2>4. running[s] # claimed
    BY <1>3 DEF HandlerInv, Busy
  <2> QED
    BY <2>1, <2>3, <2>4 DEF Live
<1> QED
  BY <1>2, <1>3 DEF MemoryInv, Live, Working, Busy, HandlerInv

LEMMA LifeOf ==
  ASSUME TypeOK, MemoryInv
  PROVE  /\ Commands!In("held") = {claimed} \ {NoId}
         /\ Commands!In("working") = Working
         /\ Commands!In("done") = Live \ (Working \cup {claimed})
         /\ Commands!In("unknown") = Ids \ Live
<1>1. claimed \in Ids \cup {NoId} /\ NoId \notin Ids /\ Working \subseteq Ids /\ Live \subseteq Ids
  BY Given DEF TypeOK, Assumptions, Working, Live
<1>2. \A i \in Ids :
         /\ (Life[i] = "held" <=> i = claimed)
         /\ (Life[i] = "working" <=> i \in Working)
         /\ (Life[i] = "done" <=> i \in Live \ (Working \cup {claimed}))
         /\ (Life[i] = "unknown" <=> i \notin Live)
  BY <1>1 DEF Life, MemoryInv
<1>3. \A q : Commands!In(q) = {i \in Ids : Life[i] = q}
  BY DEF Commands!In
<1> QED
  BY <1>1, <1>2, <1>3

\* While a slot is free, fewer commands are worked on than there are slots.
LEMMA SlotsBoundWork ==
  ASSUME NEW s \in Slots, ~Busy(s)
  PROVE  Cardinality(Working) < Cardinality(Slots)
<1> DEFINE others == Slots \ {s}
           f == [i \in Working |-> CHOOSE t \in Slots : running[t] = i]
<1>1. \A i \in Working : f[i] \in others /\ running[f[i]] = i
  BY DEF Working, Busy
<1>2. f \in Injection(Working, others)
  <2>1. f \in [Working -> others]
    BY <1>1
  <2>2. \A i, j \in Working : f[i] = f[j] => i = j
    BY <1>1
  <2> HIDE DEF f
  <2> QED
    BY <2>1, <2>2 DEF Injection, IsInjective
<1> HIDE DEF f
<1>3. IsFiniteSet(others) /\ Cardinality(others) = Cardinality(Slots) - 1
      /\ Cardinality(Slots) \in Nat
  BY Given, FS_RemoveElement, FS_CardinalityType DEF Assumptions
<1>4. IsFiniteSet(Working) /\ Cardinality(Working) <= Cardinality(others)
  BY <1>2, <1>3, FS_Injection
<1> QED
  BY <1>3, <1>4, FS_CardinalityType

\* Time may only take what is done from the memory.
LEMMA LifeTick ==
  ASSUME TypeOK, MemoryInv, MemoryInv', Tick
  PROVE  Commands!Forget
<1> DEFINE old == Live \ Live'
<1>1. claimed' = claimed /\ Working' = Working
  BY DEF Tick, Working
<1>2. Live' \subseteq Live
  <2> SUFFICES ASSUME NEW i \in Ids, age'[i] <= ReplayTTL
               PROVE  age[i] <= ReplayTTL
    BY DEF Live
  <2>1. age[i] \in Nat /\ ReplayTTL \in Nat
    BY Given DEF TypeOK, Assumptions
  <2>2. age'[i] = Capped(age[i] + 1, ReplayTTL + 1)
    BY DEF Tick, Older
  <2> QED
    BY <2>1, <2>2 DEF Capped
<1>3. old \cap (Working \cup {claimed}) = {}
  BY <1>1, Given DEF MemoryInv, Live, Assumptions
<1>4. old \in SUBSET Commands!In("done")
  BY <1>3, LifeOf
<1>5. Life' = [i \in Ids |-> IF i \in old THEN "unknown" ELSE Life[i]]
  BY <1>1, <1>2, <1>3 DEF Life
<1> QED
  BY <1>4, <1>5 DEF Commands!Forget

\* The cardinality in the promise is the cardinality here.
LEMMA SameCardinality == \A S : Commands!Cardinality(S) = Cardinality(S)
BY DEF Commands!Cardinality, Cardinality

\* Every step of the client is one that each command may see, or that none sees.
LEMMA LifeStep ==
  ASSUME TypeOK, HandlerInv, MemoryInv, MemoryInv', [Next]_vars
  PROVE  [Commands!Next]_Life
<1> USE DEF MemoryInv
<1>1. claimed \in Ids \cup {NoId} /\ NoId \notin Ids /\ Working \subseteq Ids /\ Live \subseteq Ids
  BY Given DEF TypeOK, Assumptions, Working, Live
<1>2. ASSUME UNCHANGED <<claimed, running, age>>
      PROVE  UNCHANGED Life
  BY <1>2 DEF Life, Working, Live
<1>3. CASE Connect \/ DialFails \/ Wake \/ Heartbeat \/ ReadPong
  BY <1>2, <1>3 DEF Connect, DialFails, BackOff, Wake, Heartbeat, ReadPong, slotVars,
     memVars, readVars
<1>4. CASE \E i \in Ids : RefuseDuplicate(i) \/ Send(i)
  BY <1>2, <1>4 DEF RefuseDuplicate, Send, slotVars, memVars
<1>5. CASE Drop \/ ReadTimesOut \/ Revoked
  <2>1. claimed' = NoId /\ Working' = {} /\ Live' = Live
    BY <1>5 DEF Drop, ReadTimesOut, Revoked, SessionLost, Teardown, NoSession,
       NoHandlers, memVars, Working, Live
  <2>2. Life' = [i \in Ids |-> IF Life[i] \in {"held", "working"} THEN "done" ELSE Life[i]]
    BY <1>1, <2>1 DEF Life
  <2> QED
    BY <2>2 DEF Commands!Next, Commands!Abandon
<1>6. CASE NewClient
  <2>1. claimed = NoId /\ Working = {} /\ claimed' = NoId /\ Working' = {}
    BY <1>6 DEF NewClient, readVars, slotVars, Working
  <2>2. Live' = {}
    BY <1>6, Given DEF NewClient, FreshMemory, Live, Assumptions
  <2>3. Commands!In("held") = {} /\ Commands!In("working") = {}
    BY <2>1, LifeOf
  <2>4. Life' = [i \in Ids |-> "unknown"]
    BY <1>1, <2>1, <2>2 DEF Life
  <2> QED
    BY <2>3, <2>4 DEF Commands!Next, Commands!StartOver
<1>7. ASSUME NEW i \in Ids, Claim(i)
      PROVE  Commands!Claim(i)
  <2>1. /\ claimed = NoId /\ claimed' = i /\ running' = running
        /\ CanClaim(i) /\ age' = [age EXCEPT ![i] = 0]
    BY <1>7 DEF Claim, Receive, slotVars
  <2>2. Working' = Working /\ i \notin Live /\ i \notin Working
    BY <2>1 DEF Working, CanClaim
  <2>3. Live' = Live \cup {i}
    BY <2>1, Given DEF Live, TypeOK, Assumptions
  <2>4. i \in Commands!In("unknown") /\ Commands!In("held") = {}
    BY <2>1, <2>2, LifeOf
  <2>5. Ids \ Commands!In("unknown") = Live
    BY <1>1, LifeOf
  <2>6. Life' = [Life EXCEPT ![i] = "held"]
    BY <1>1, <2>1, <2>2, <2>3 DEF Life
  <2>7. Cardinality(Ids \ Commands!In("unknown")) < MaxRemembered
    BY <2>1, <2>5 DEF CanClaim
  <2> QED
    BY <2>4, <2>6, <2>7, SameCardinality DEF Commands!Claim
<1>8. ASSUME NEW s \in Slots, Start(s)
      PROVE  \E i \in Ids : Commands!Begin(i)
  <2>1. /\ claimed \in Ids /\ claimed' = NoId /\ ~Busy(s)
        /\ running' = [running EXCEPT ![s] = claimed] /\ age' = age
    BY <1>1, <1>8 DEF Start, Busy
  <2>2. Working' = Working \cup {claimed}
    <3>1. running'[s] = claimed /\ \A t \in Slots \ {s} : running'[t] = running[t]
      BY <2>1 DEF TypeOK
    <3> QED
      BY <1>1, <2>1, <3>1 DEF Working, Busy
  <2>3. Live' = Live
    BY <2>1 DEF Live
  <2>4. claimed \in Commands!In("held") /\ Commands!In("working") = Working
    BY <1>1, <2>1, LifeOf
  <2>5. Life' = [Life EXCEPT ![claimed] = "working"]
    BY <1>1, <2>1, <2>2, <2>3 DEF Life
  <2>6. Cardinality(Working) < Cardinality(Slots)
    BY <2>1, SlotsBoundWork
  <2>7. Cardinality(Commands!In("working")) < Cardinality(Slots)
    BY <2>4, <2>6
  <2> QED
    BY <2>1, <2>4, <2>5, <2>7, SameCardinality DEF Commands!Begin
<1>9. ASSUME NEW s \in Slots, Finish(s)
      PROVE  \E i \in Ids : Commands!End(i)
  <2> DEFINE i == running[s]
  <2>1. /\ i \in Working /\ claimed' = claimed /\ age' = age
        /\ running' = [running EXCEPT ![s] = NoId]
    BY <1>9 DEF Finish, readVars, memVars, Working
  <2>2. Working' = Working \ {i}
    <3>1. running'[s] = NoId /\ \A t \in Slots \ {s} : running'[t] = running[t]
      BY <2>1 DEF TypeOK
    <3>2. \A t \in Slots \ {s} : running[t] # i
      BY <1>9 DEF HandlerInv, NoOverlap, Finish
    <3> QED
      BY <3>1, <3>2 DEF Working
  <2>3. Live' = Live
    BY <2>1 DEF Live
  <2>4. i \in Ids /\ i \in Commands!In("working")
    BY <1>1, <2>1, LifeOf
  <2>5. Life' = [Life EXCEPT ![i] = "done"]
    <3> HIDE DEF i
    <3> QED
      BY <1>1, <2>1, <2>2, <2>3, <2>4 DEF Life
  <2> QED
    BY <2>4, <2>5 DEF Commands!End
<1>10. CASE Tick
  BY <1>10, LifeTick DEF Commands!Next
<1>11. CASE UNCHANGED vars
  BY <1>2, <1>11 DEF vars, readVars, slotVars, memVars
<1> QED
  BY <1>3, <1>4, <1>5, <1>6, <1>7, <1>8, <1>9, <1>10, <1>11 DEF Next, Commands!Next

\* A command goes from claim to handler to end, once for each time it is remembered,
\* across sessions, timeouts and redeliveries (client.go:230-253, 294-312).
THEOREM CommandLifeKept == Spec => KeepsCommandLife
<1>1. Init => Commands!Init
  <2> SUFFICES ASSUME Init PROVE Life = [i \in Ids |-> "unknown"]
    BY DEF Commands!Init
  <2>1. Working = {} /\ Live = {} /\ claimed = NoId /\ NoId \notin Ids
    BY Given DEF Init, Working, Live, FreshMemory, Assumptions
  <2> QED
    BY <2>1 DEF Life
<1>2. TypeOK /\ HandlerInv /\ MemoryInv /\ MemoryInv' /\ [Next]_vars => [Commands!Next]_Life
  BY LifeStep
<1>3. Spec => []MemoryInv
  BY Remembered, ClockTyped, HandlersTimed, PTL
<1> QED
  BY <1>1, <1>2, <1>3, ClockTyped, HandlersTimed, PTL DEF Spec, KeepsCommandLife,
     Commands!Spec

============================================================================
