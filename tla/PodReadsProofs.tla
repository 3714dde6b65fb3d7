--------------------------- MODULE PodReadsProofs ---------------------------
(***************************************************************************)
(* Proofs about PodReads, for any number of events and any limits.         *)
(***************************************************************************)
EXTENDS PodReads, FiniteSetTheorems, TLAPS

\* An event that has stayed is there; none was seen last before it was seen first,
\* nor in the future.
EventsInv ==
    /\ \A i \in steady : events[i] # Nil
    /\ \A i \in Ids : events[i] # Nil =>
          
          /\ events[i] \in EventObjects
          /\ events[i].first <= events[i].last /\ events[i].last <= clock

\* What a list of events is taken from: finitely many, with their times in order.
Listable(found) ==
    /\ IsFiniteSet(found) /\ found \subseteq EventObjects
    /\ \A e \in found : e.first <= e.last

LEMMA RecordedListable ==
    ASSUME ReadsTypeOK, EventsInv
    PROVE  \A found \in SUBSET Recorded : Listable(found)
<1>1. IsFiniteSet({j \in Ids : events[j] # Nil})
  BY EventsAssumption, FS_Subset
<1>2. IsFiniteSet(Recorded)
  <2> DEFINE There == {j \in Ids : events[j] # Nil}
             object == [j \in There |-> events[j]]
  <2>1. object \in Surjection(There, Recorded)
    BY DEF Surjection, Recorded
  <2> QED BY <1>1, <2>1, FS_Surjection
<1>3. \A e \in Recorded : e \in EventObjects /\ e.first <= e.last
  BY DEF Recorded, EventsInv
<1> QED BY <1>2, <1>3, FS_Subset DEF Listable

\* The sort keeps every event, and the cut leaves as many as the limit allows.
LEMMA SortedKeepsAll ==
    ASSUME NEW found, Listable(found), NEW s \in Sorted(found)
    PROVE  /\ s \in Seq(found) /\ ToSet(s) = found
           /\ FirstOf(s) \in Seq(found) /\ Len(FirstOf(s)) <= EventLimit
           /\ Len(s) > EventLimit => Len(FirstOf(s)) = EventLimit
           /\ \A k \in DOMAIN FirstOf(s) : k \in DOMAIN s /\ FirstOf(s)[k] = s[k]
<1> USE EventsAssumption
<1>1. Cardinality(found) \in Nat
  BY FS_CardinalityType DEF Listable
<1>2. s \in Seq(found) /\ ToSet(s) = found
  BY <1>1 DEF Sorted
<1>3. CASE Len(s) > EventLimit
  <2>1. FirstOf(s) = SubSeq(s, 1, EventLimit)
    BY <1>3 DEF FirstOf
  <2> QED BY <1>2, <1>3, <2>1
<1>4. CASE ~(Len(s) > EventLimit)
  BY <1>2, <1>4 DEF FirstOf
<1> QED BY <1>2, <1>3, <1>4

\* An event that the cut leaves out comes before none that is kept, and the cut
\* is full.
LEMMA CutIsLeastTelling ==
    ASSUME NEW found, Listable(found), NEW s \in Sorted(found),
           NEW e \in found, e \notin ToSet(FirstOf(s))
    PROVE  /\ Len(FirstOf(s)) = EventLimit
           /\ \A f \in ToSet(FirstOf(s)) : ~Before(e, f)
<1> USE EventsAssumption
<1>1. PICK k \in DOMAIN s : s[k] = e
  BY SortedKeepsAll DEF ToSet
<1>2. Len(s) > EventLimit
  BY <1>1, SortedKeepsAll DEF FirstOf, ToSet
<1>3. \A i \in DOMAIN FirstOf(s) : i \in 1..EventLimit /\ i \in DOMAIN s /\ FirstOf(s)[i] = s[i]
  BY <1>2, SortedKeepsAll
<1>4. k > EventLimit
  <2> SUFFICES ASSUME ~(k > EventLimit) PROVE FALSE
    OBVIOUS
  <2>1. k \in DOMAIN FirstOf(s)
    BY <1>1, <1>2, SortedKeepsAll
  <2> QED BY <1>1, <1>3, <2>1 DEF ToSet
<1>5. ASSUME NEW i \in DOMAIN FirstOf(s) PROVE ~Before(e, FirstOf(s)[i])
  BY <1>1, <1>3, <1>4, <1>5, SortedKeepsAll DEF Sorted
<1> QED BY <1>2, <1>5, SortedKeepsAll DEF ToSet

----------------------------------------------------------------------------

\* Events in the cluster are as they must be, and none is steady that has gone.
LEMMA EventsStep ==
    ASSUME ReadsTypeOK, EventsInv, [ReadsNext]_readVars
    PROVE  /\ clock' \in 1..MaxClock /\ events' \in [Ids -> EventObjects \cup {Nil}]
           /\ steady' \subseteq Ids /\ EventsInv'
<1> USE EventsAssumption DEF ReadsTypeOK, EventsInv
<1>1. CASE GetPod
  BY <1>1 DEF GetPod
<1>2. CASE ListSelected \/ SelectorFails \/ ListAll \/ ListAllFails
  BY <1>2 DEF ListSelected, SelectorFails, ListAll, ListAllFails
<1>3. CASE Answered
  BY <1>3 DEF Answered
<1>4. ASSUME NEW r \in Requests, NEW n \in 0..(MaxTailLines + 1), GetPodLogs(r, n)
      PROVE  UNCHANGED <<clock, events, steady>>
  BY <1>4 DEF GetPodLogs
<1>5. ASSUME NEW i \in Ids, Record(i)
      PROVE  /\ clock' \in 1..MaxClock /\ events' \in [Ids -> EventObjects \cup {Nil}]
             /\ steady' \subseteq Ids /\ EventsInv'
  <2>1. /\ events[i] = Nil /\ steady' = steady /\ clock' \in 1..MaxClock
        /\ clock <= clock'
    BY <1>5 DEF Record, describeVars
  <2>2. PICK e \in EventObjects :
           e.first = clock' /\ e.last = clock' /\ events' = [events EXCEPT ![i] = e]
    BY <1>5 DEF Record, EventObjects
  <2>3. e.first <= e.last /\ e.last <= clock'
    BY <2>1, <2>2
  <2>4. events'[i] = e /\ \A j \in Ids \ {i} : events'[j] = events[j]
    BY <2>2
  <2>5. \A j \in steady : j # i /\ events'[j] = events[j]
    BY <2>1, <2>2
  <2>6. \A j \in Ids : j # i /\ events[j] # Nil => events[j].last <= clock'
    BY <2>1 DEF EventObjects
  <2> QED BY <2>1, <2>2, <2>3, <2>4, <2>5, <2>6
<1>6. ASSUME NEW i \in Ids, Recurs(i)
      PROVE  /\ clock' \in 1..MaxClock /\ events' \in [Ids -> EventObjects \cup {Nil}]
             /\ steady' \subseteq Ids /\ EventsInv'
  <2>1. /\ events[i] # Nil /\ steady' = steady \ {i} /\ clock' \in 1..MaxClock
        /\ clock' = clock + 1
    BY <1>6 DEF Recurs
  <2> DEFINE e == [events[i] EXCEPT !.last = clock']
  <2>2. events[i] \in EventObjects /\ events[i].first <= clock'
    BY <2>1 DEF EventObjects
  <2>3. e \in EventObjects /\ e.first <= e.last /\ e.last <= clock'
    BY <2>1, <2>2 DEF EventObjects
  <2>4. events' = [events EXCEPT ![i] = e]
    BY <1>6 DEF Recurs
  <2> HIDE DEF e
  <2>5. events'[i] = e /\ \A j \in Ids \ {i} : events'[j] = events[j]
    BY <2>4
  <2>6. \A j \in Ids : j # i /\ events[j] # Nil => events[j].last <= clock'
    BY <2>1 DEF EventObjects
  <2> QED BY <2>1, <2>3, <2>4, <2>5, <2>6
<1>7. ASSUME NEW i \in Ids, Expires(i)
      PROVE  /\ clock' \in 1..MaxClock /\ events' \in [Ids -> EventObjects \cup {Nil}]
             /\ steady' \subseteq Ids /\ EventsInv'
  BY <1>7 DEF Expires
<1>8. CASE UNCHANGED readVars
  BY <1>8 DEF readVars, describeVars
<1>9. CASE UNCHANGED <<clock, events, steady>>
  BY <1>9
<1> QED BY <1>1, <1>2, <1>3, <1>4, <1>5, <1>6, <1>7, <1>8, <1>9 DEF ReadsNext

----------------------------------------------------------------------------

\* A nil slice is not an empty one.
LEMMA NilIsNoList == Nil # <<>>
<1>1. <<>> \in Seq(EventObjects)
  OBVIOUS
<1> QED BY <1>1, EventsAssumption

\* The events recorded about the pod.
OfThePod == {e \in Recorded : e.about = "pod"}

\* Either way of listing gives events of the pod, sorted and cut; the fallback
\* gives nil when there are none.
LEMMA ListedOfThePod ==
    ASSUME ReadsTypeOK, EventsInv, ListSelected \/ ListAll
    PROVE  /\ Listable(OfThePod)
           /\ phase \in {"listing", "fallback"} /\ phase' = "described"
           /\ UNCHANGED <<clock, events, refused, steady, logs>>
           /\ \/ \E s \in Sorted(OfThePod) : answer' = FirstOf(s)
              \/ phase = "fallback" /\ OfThePod = {} /\ answer' = Nil
<1>1. Listable(OfThePod)
  BY RecordedListable DEF OfThePod
<1>2. CASE ListSelected
  BY <1>1, <1>2 DEF ListSelected, SortAndLimit, OfThePod
<1>3. CASE ListAll
  BY <1>1, <1>3 DEF ListAll, SortAndLimit, OfThePod, IsAboutPod
<1> QED BY <1>2, <1>3

\* The logs answered have the type of an answer, and are within the limits.
LEMMA LogsStep ==
    ASSUME ReadsTypeOK, NEW r \in Requests, NEW n \in 0..(MaxTailLines + 1),
           GetPodLogs(r, n)
    PROVE  logs' \in LogAnswers /\ LogsWithinLimits'
<1> USE LimitsAssumption, LogAssumption
<1> DEFINE lines == TailLines(r)
           sent  == (IF n < lines THEN n ELSE lines) * LineBytes
           read  == Copied(CopyLimit, sent)
<1>1. lines \in 1..MaxTailLines
  BY DEF TailLines
<1>2. sent \in Nat
  <2>1. (IF n < lines THEN n ELSE lines) \in Nat
    BY <1>1
  <2> HIDE DEF lines
  <2> QED BY <2>1
<1>3. CopyLimit = MaxLogBytes + 1
  BY DEF CopyLimit, Wrapped
<1>4. logs' = [lines |-> lines, sent |-> sent,
               got |-> IF read > MaxLogBytes THEN MaxLogBytes ELSE read,
               truncated |-> read > MaxLogBytes]
  BY DEF GetPodLogs
<1> HIDE DEF lines, sent
<1>5. read = IF sent < MaxLogBytes + 1 THEN sent ELSE MaxLogBytes + 1
  BY <1>2, <1>3 DEF Copied
<1> HIDE DEF read
<1>6. logs' \in LogAnswers
  BY <1>1, <1>2, <1>4, <1>5 DEF LogAnswers
<1>7. /\ logs'.lines = lines /\ logs'.sent = sent /\ logs'.truncated = (read > MaxLogBytes)
      /\ logs'.got = IF read > MaxLogBytes THEN MaxLogBytes ELSE read
  BY <1>4
<1>8. logs'.got <= MaxLogBytes
  BY <1>2, <1>5, <1>7
<1>9. ~(read > MaxLogBytes) => logs'.got = logs'.sent
  BY <1>2, <1>5, <1>7
<1> QED BY <1>1, <1>6, <1>7, <1>8, <1>9 DEF LogsWithinLimits

\* Every variable keeps its type.
THEOREM ReadsTyped == ReadsSpec => [](ReadsTypeOK /\ EventsInv)
<1>1. ReadsInit => ReadsTypeOK /\ EventsInv
  <2> SUFFICES ASSUME ReadsInit PROVE ReadsTypeOK /\ EventsInv
    OBVIOUS
  <2>1. /\ clock \in 1..MaxClock /\ events \in [Ids -> EventObjects \cup {Nil}]
        /\ steady \subseteq Ids
    BY EventsAssumption DEF ReadsInit
  <2>2. ReadsTypeOK
    BY <2>1 DEF ReadsInit, ReadsTypeOK
  <2>3. EventsInv
    BY DEF ReadsInit, EventsInv
  <2> QED BY <2>2, <2>3
<1>2. ReadsTypeOK /\ EventsInv /\ [ReadsNext]_readVars => ReadsTypeOK' /\ EventsInv'
  <2> SUFFICES ASSUME ReadsTypeOK, EventsInv, [ReadsNext]_readVars
               PROVE  ReadsTypeOK' /\ EventsInv'
    OBVIOUS
  <2>1. /\ clock' \in 1..MaxClock /\ events' \in [Ids -> EventObjects \cup {Nil}]
        /\ steady' \subseteq Ids /\ EventsInv'
    BY EventsStep
  <2>2. /\ phase' \in {"idle", "listing", "fallback", "described", "logged"}
        /\ refused' \in BOOLEAN
    BY DEF ReadsNext, GetPod, ListSelected, SelectorFails, ListAll, ListAllFails,
           Answered, GetPodLogs, Record, Recurs, Expires, readVars, describeVars,
           ReadsTypeOK
  <2>3. answer' = Nil \/ (answer' \in Seq(EventObjects) /\ Len(answer') <= EventLimit)
    <3>1. CASE ListSelected \/ ListAll
      <4>1. CASE answer' = Nil
        BY <4>1
      <4>2. ASSUME NEW s \in Sorted(OfThePod), answer' = FirstOf(s)
            PROVE  answer' \in Seq(EventObjects) /\ Len(answer') <= EventLimit
        <5>1. answer' \in Seq(OfThePod) /\ Len(answer') <= EventLimit
          BY <3>1, <4>2, ListedOfThePod, SortedKeepsAll
        <5>2. OfThePod \subseteq EventObjects
          BY <3>1, ListedOfThePod DEF Listable
        <5> QED BY <5>1, <5>2
      <4> QED BY <3>1, <4>1, <4>2, ListedOfThePod
    <3>2. CASE answer' = answer \/ answer' = Nil
      BY <3>2 DEF ReadsTypeOK
    <3> QED
      BY <3>1, <3>2 DEF ReadsNext, GetPod, SelectorFails, ListAllFails, Answered,
           GetPodLogs, Record, Recurs, Expires, readVars, describeVars
  <2>4. logs' \in LogAnswers \cup {Nil}
    <3>1. ASSUME NEW r \in Requests, NEW n \in 0..(MaxTailLines + 1), GetPodLogs(r, n)
          PROVE  logs' \in LogAnswers \cup {Nil}
      BY <3>1, LogsStep
    <3>2. CASE logs' = logs \/ logs' = Nil
      BY <3>2 DEF ReadsTypeOK
    <3> QED
      BY <3>1, <3>2 DEF ReadsNext, GetPod, ListSelected, SelectorFails, ListAll,
           ListAllFails, Answered, Record, Recurs, Expires, readVars
  <2> QED BY <2>1, <2>2, <2>3, <2>4 DEF ReadsTypeOK
<1> QED BY <1>1, <1>2, PTL DEF ReadsSpec

\* Logs are within the limits, and complete when not marked as truncated
\* (logs.go:24-34, limits.go:9-17).
THEOREM LogsBounded == ReadsSpec => []LogsWithinLimits
<1>1. ReadsInit => LogsWithinLimits
  BY DEF ReadsInit, LogsWithinLimits
<1>2. ReadsTypeOK /\ LogsWithinLimits /\ [ReadsNext]_readVars => LogsWithinLimits'
  <2> SUFFICES ASSUME ReadsTypeOK, LogsWithinLimits, [ReadsNext]_readVars
               PROVE  LogsWithinLimits'
    OBVIOUS
  <2>1. ASSUME NEW r \in Requests, NEW n \in 0..(MaxTailLines + 1), GetPodLogs(r, n)
        PROVE  LogsWithinLimits'
    BY <2>1, LogsStep
  <2>2. CASE logs' = logs \/ logs' = Nil
    BY <2>2 DEF LogsWithinLimits
  <2> QED
    BY <2>1, <2>2 DEF ReadsNext, GetPod, ListSelected, SelectorFails, ListAll,
       ListAllFails, Answered, Record, Recurs, Expires, readVars
<1> QED BY <1>1, <1>2, ReadsTyped, PTL DEF ReadsSpec

\* A description changes nothing once it is made, but what is steady shrinks.
LEMMA DescriptionStep ==
    ASSUME ReadsTypeOK, EventsInv, [ReadsNext]_readVars, phase' = "described"
    PROVE  \/ ListSelected \/ ListAll \/ ListAllFails
           \/ /\ phase = "described" /\ UNCHANGED <<answer, refused>>
              /\ steady' \subseteq steady
              /\ \A i \in steady' : events'[i] = events[i]
<1> USE DEF ReadsTypeOK
<1>1. CASE GetPod \/ SelectorFails \/ Answered
  BY <1>1 DEF GetPod, SelectorFails, Answered
<1>2. ASSUME NEW r \in Requests, NEW n \in 0..(MaxTailLines + 1), GetPodLogs(r, n)
      PROVE  FALSE
  BY <1>2 DEF GetPodLogs
<1>3. ASSUME NEW i \in Ids, Record(i) \/ Recurs(i) \/ Expires(i)
      PROVE  /\ phase = "described" /\ UNCHANGED <<answer, refused>>
             /\ steady' \subseteq steady
             /\ \A j \in steady' : events'[j] = events[j]
  <2>1. CASE Record(i)
    BY <2>1 DEF Record, describeVars, EventsInv
  <2>2. CASE Recurs(i)
    BY <2>2 DEF Recurs
  <2>3. CASE Expires(i)
    BY <2>3 DEF Expires
  <2> QED BY <1>3, <2>1, <2>2, <2>3
<1>4. CASE UNCHANGED readVars
  BY <1>4 DEF readVars, describeVars
<1> QED BY <1>1, <1>2, <1>3, <1>4 DEF ReadsNext

\* On either path a description has events of the pod only (describe.go:131-156).
THEOREM EventsBelong == ReadsSpec => []EventsOfThePod
<1> USE DEF EventsOfThePod, Given
<1>1. ReadsInit => EventsOfThePod
  BY DEF ReadsInit
<1>2. ReadsTypeOK /\ EventsInv /\ EventsOfThePod /\ [ReadsNext]_readVars => EventsOfThePod'
  <2> SUFFICES ASSUME ReadsTypeOK, EventsInv, EventsOfThePod, [ReadsNext]_readVars,
                      phase' = "described", answer' # Nil, NEW e \in Kept'
               PROVE  e.about = "pod"
    OBVIOUS
  <2>1. CASE ListSelected \/ ListAll
    <3>1. PICK s \in Sorted(OfThePod) : answer' = FirstOf(s)
      BY <2>1, ListedOfThePod
    <3>2. answer' \in Seq(OfThePod)
      BY <2>1, <3>1, ListedOfThePod, SortedKeepsAll
    <3>3. e \in OfThePod
      BY <3>2 DEF Kept, ToSet
    <3> QED BY <3>3 DEF OfThePod
  <2>2. CASE ListAllFails
    BY <2>2 DEF ListAllFails
  <2>3. CASE phase = "described" /\ UNCHANGED answer
    BY <2>3 DEF Kept
  <2> QED BY <2>1, <2>2, <2>3, DescriptionStep
<1> QED BY <1>1, <1>2, ReadsTyped, PTL DEF ReadsSpec

\* The fallback is taken after a failure only.
RefusedInv == phase = "fallback" => refused

\* A description without events is right, and one that leaves them out follows a
\* failed call (describe.go:137-148).
THEOREM NoneIsTold == ReadsSpec => []NoEventsMeansNone
<1>1. ReadsInit => NoEventsMeansNone /\ RefusedInv
  BY DEF ReadsInit, NoEventsMeansNone, RefusedInv
<1>2. ReadsTypeOK /\ EventsInv /\ NoEventsMeansNone /\ RefusedInv /\ [ReadsNext]_readVars
      => NoEventsMeansNone' /\ RefusedInv'
  <2> SUFFICES ASSUME ReadsTypeOK, EventsInv, NoEventsMeansNone, RefusedInv,
                      [ReadsNext]_readVars
               PROVE  NoEventsMeansNone' /\ RefusedInv'
    OBVIOUS
  <2>1. RefusedInv'
    BY DEF RefusedInv, ReadsNext, GetPod, ListSelected, SelectorFails, ListAll,
       ListAllFails, Answered, GetPodLogs, Record, Recurs, Expires, readVars, describeVars
  <2>2. ASSUME phase' = "described"
        PROVE  /\ answer' = <<>> => \A i \in steady' : events'[i].about # "pod"
               /\ answer' = Nil => refused'
    <3>1. CASE ListSelected \/ ListAll
      <4>1. CASE answer' = Nil
        <5>1. answer' # <<>>
          BY <4>1, NilIsNoList
        <5>2. ~\E s \in Sorted(OfThePod) : answer' = FirstOf(s)
          <6> SUFFICES ASSUME NEW s \in Sorted(OfThePod), answer' = FirstOf(s)
                       PROVE  FALSE
            OBVIOUS
          <6>1. answer' \in Seq(OfThePod) /\ OfThePod \subseteq EventObjects
            BY <3>1, ListedOfThePod, SortedKeepsAll DEF Listable
          <6>2. answer' \in Seq(EventObjects)
            BY <6>1
          <6> QED BY <4>1, <6>2, EventsAssumption
        <5>3. refused'
          BY <3>1, <5>2, ListedOfThePod DEF RefusedInv
        <5> QED BY <5>1, <5>3
      <4>2. ASSUME NEW s \in Sorted(OfThePod), answer' = FirstOf(s), answer' = <<>>,
                   NEW i \in steady'
            PROVE  events'[i].about # "pod"
        <5>1. Listable(OfThePod) /\ events' = events /\ steady' = steady
          BY <3>1, ListedOfThePod
        <5>2. i \in Ids /\ events[i] # Nil
          BY <5>1 DEF EventsInv, ReadsTypeOK
        <5>3. ToSet(FirstOf(s)) = {} /\ Len(FirstOf(s)) = 0
          BY <4>2 DEF ToSet
        <5>4. OfThePod = {}
          BY <5>1, <5>3, CutIsLeastTelling, EventsAssumption
        <5> QED BY <5>1, <5>2, <5>4 DEF OfThePod, Recorded
      <4>3. CASE answer' # Nil
        BY <3>1, <4>2, <4>3, ListedOfThePod
      <4> QED BY <4>1, <4>3
    <3>2. CASE ListAllFails
      <4>1. answer' # <<>>
        BY <3>2, NilIsNoList DEF ListAllFails
      <4> QED BY <3>2, <4>1 DEF ListAllFails, RefusedInv
    <3>3. CASE /\ phase = "described" /\ UNCHANGED <<answer, refused>>
               /\ steady' \subseteq steady /\ \A i \in steady' : events'[i] = events[i]
      BY <3>3 DEF NoEventsMeansNone
    <3> QED BY <2>2, <3>1, <3>2, <3>3, DescriptionStep
  <2> QED BY <2>1, <2>2 DEF NoEventsMeansNone
<1> QED BY <1>1, <1>2, ReadsTyped, PTL DEF ReadsSpec

\* What the cut leaves out is no more telling than what it keeps: it is not seen
\* later, unless it is of a series.
LEMMA LeftOutLessTelling ==
    ASSUME NEW e \in EventObjects, NEW f \in EventObjects, f.first <= f.last,
           ~e.series, ~Before(e, f)
    PROVE  /\ e.warning => f.warning
           /\ e.warning = f.warning => f.last >= e.last
<1>1. /\ e.last \in Int /\ f.last \in Int /\ f.first \in Int
      /\ e.warning \in BOOLEAN /\ f.warning \in BOOLEAN
  BY DEF EventObjects
<1>2. LastSeen(e) = e.last /\ LastSeen(f) \in Int /\ LastSeen(f) <= f.last
  BY <1>1 DEF LastSeen
<1>3. e.warning => f.warning
  BY DEF Before
<1>4. e.warning = f.warning => ~(LastSeen(e) > LastSeen(f))
  BY DEF Before
<1> QED BY <1>1, <1>2, <1>3, <1>4

\* An event that was there from beginning to end is left out of a description only
\* when that is full of events no less telling (describe.go:133-189).
THEOREM TellingKept == ReadsSpec => []TellingEventsKept
<1>1. ReadsInit => TellingEventsKept
  BY DEF ReadsInit, TellingEventsKept, Given
<1>2. ReadsTypeOK /\ EventsInv /\ TellingEventsKept /\ [ReadsNext]_readVars
      => TellingEventsKept'
  <2> SUFFICES ASSUME ReadsTypeOK, EventsInv, TellingEventsKept, [ReadsNext]_readVars,
                      phase' = "described", answer' # Nil, NEW i \in steady',
                      events'[i].about = "pod", ~events'[i].series, events'[i] \notin Kept'
               PROVE  /\ Len(answer') = EventLimit
                      /\ \A f \in Kept' : (events'[i].warning => f.warning)
                            /\ (events'[i].warning = f.warning => f.last >= events'[i].last)
    BY DEF TellingEventsKept, Given
  <2>1. CASE ListSelected \/ ListAll
    <3>1. PICK s \in Sorted(OfThePod) : answer' = FirstOf(s)
      BY <2>1, ListedOfThePod
    <3>2. Listable(OfThePod) /\ events' = events /\ steady' = steady
      BY <2>1, ListedOfThePod
    <3>3. i \in Ids /\ events[i] # Nil
      BY <3>2 DEF EventsInv, ReadsTypeOK
    <3>4. events[i] \in OfThePod /\ events[i] \notin ToSet(FirstOf(s))
      BY <3>1, <3>2, <3>3 DEF OfThePod, Recorded, Kept
    <3>5. /\ Len(FirstOf(s)) = EventLimit
          /\ \A f \in ToSet(FirstOf(s)) : ~Before(events[i], f)
      BY <3>2, <3>4, CutIsLeastTelling
    <3>6. ASSUME NEW f \in Kept'
          PROVE  /\ events[i].warning => f.warning
                 /\ events[i].warning = f.warning => f.last >= events[i].last
      <4>1. FirstOf(s) \in Seq(OfThePod)
        BY <3>2, SortedKeepsAll
      <4>2. f \in OfThePod /\ f \in ToSet(FirstOf(s))
        BY <3>1, <4>1 DEF Kept, ToSet
      <4>3. /\ f \in EventObjects /\ f.first <= f.last
            /\ events[i] \in EventObjects /\ ~events[i].series
        BY <3>2, <3>4, <4>2 DEF Listable
      <4> QED BY <3>5, <4>2, <4>3, LeftOutLessTelling
    <3> QED BY <3>1, <3>2, <3>5, <3>6
  <2>2. CASE ListAllFails
    BY <2>2 DEF ListAllFails
  <2>3. CASE /\ phase = "described" /\ UNCHANGED <<answer, refused>>
             /\ steady' \subseteq steady /\ \A j \in steady' : events'[j] = events[j]
    BY <2>3 DEF TellingEventsKept, Given, Kept
  <2> QED BY <2>1, <2>2, <2>3, DescriptionStep
<1> QED BY <1>1, <1>2, ReadsTyped, PTL DEF ReadsSpec

============================================================================
