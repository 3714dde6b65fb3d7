------------------------------ MODULE PodReads ------------------------------
(***************************************************************************)
(* What internal/kube reads of one pod: its description with the events    *)
(* about it (describe.go), and its logs (logs.go, limits.go).              *)
(*                                                                         *)
(* A description takes up to three calls, and events are recorded, recur   *)
(* and expire between them.  A call fails when the API server refuses it   *)
(* or the context of the command has ended.  Of the pod itself nothing is  *)
(* modelled but that there is one to be read; of the logs, only their size.*)
(***************************************************************************)
EXTENDS Integers, Sequences, FiniteSets, SequencesExt

CONSTANTS
    Ids,                \* names of Event objects
    EventLimit,         \* the 20 events of fetchPodEvents
    Nil,                \* a nil slice, and no answer
    MaxClock,            \* bound on the clock
    DefaultTailLines, MaxTailLines, MaxLogBytes,    \* security.Limits
    MaxInt,             \* the largest int64
    Requests,           \* tail_lines that commands ask for
    LineBytes           \* bytes in a line of the log

\* What an event is about: the pod, or an object of another kind with its name.
\* Those about objects of other names are left out.
Abouts == {"pod", "namesake"}

\* first is EventTime and last LastTimestamp; an event of a series has none of
\* the latter, and keeps in its series when it was last observed.
EventObjects ==
    [id : Ids, about : Abouts, warning : BOOLEAN, first : 1..MaxClock, last : 1..MaxClock,
     series : BOOLEAN]

ASSUME EventsAssumption ==
    /\ IsFiniteSet(Ids) /\ Nil \notin Seq(EventObjects)
    /\ EventLimit \in Nat \ {0} /\ MaxClock \in Nat \ {0}
\* Config.Validate; and the byte limit is not the largest integer there is.
ASSUME LimitsAssumption ==
    /\ DefaultTailLines \in Nat \ {0} /\ MaxTailLines \in Nat
    /\ DefaultTailLines <= MaxTailLines
    /\ MaxLogBytes \in Nat \ {0} /\ MaxInt \in Nat /\ MaxLogBytes < MaxInt
ASSUME LogAssumption == Requests \subseteq Int /\ LineBytes \in Nat

VARIABLES
    clock,
    events,     \* id -> the Event object, or Nil
    phase,      \* idle; listing, fallback or described; logged
    answer,     \* the events of the description
    refused,    \* the call with the field selector has failed (history)
    steady,     \* ids whose object has not changed since the call began (history)
    logs        \* what GetPodLogs answers, and from what

describeVars == <<phase, answer, refused, steady>>
readVars == <<clock, events, describeVars, logs>>

LogAnswers == [lines : Nat, sent : Nat, got : Nat, truncated : BOOLEAN]

ReadsTypeOK ==
    /\ clock \in 1..MaxClock
    /\ events \in [Ids -> EventObjects \cup {Nil}]
    /\ phase \in {"idle", "listing", "fallback", "described", "logged"}
    /\ answer = Nil \/ (answer \in Seq(EventObjects) /\ Len(answer) <= EventLimit)
    /\ refused \in BOOLEAN /\ steady \subseteq Ids
    /\ logs \in LogAnswers \cup {Nil}

ReadsInit ==
    /\ clock = 1 /\ events = [i \in Ids |-> Nil]
    /\ phase = "idle" /\ answer = Nil /\ refused = FALSE /\ steady = {}
    /\ logs = Nil

Recorded == {events[i] : i \in {j \in Ids : events[j] # Nil}}

----------------------------------------------------------------------------
(* DescribePod *)

\* toEventItem: LastSeen.  It is formatted, to whole seconds and in the local zone,
\* and compared as text, which is the order of the times as long as the zone keeps
\* its offset; the clock here counts seconds.
LastSeen(e) == IF e.series THEN e.first ELSE e.last

\* Warnings first, then newest first within each group.
Before(e, f) ==
    \/ e.warning /\ ~f.warning
    \/ e.warning = f.warning /\ LastSeen(e) > LastSeen(f)

\* The sort leaves the order among equals open.
Sorted(found) ==
    {s \in [1..Cardinality(found) -> found] :
        /\ ToSet(s) = found
        /\ \A i, j \in DOMAIN s : i < j => ~Before(s[j], s[i])}

FirstOf(s) == IF Len(s) > EventLimit THEN SubSeq(s, 1, EventLimit) ELSE s

\* Slip: the list is cut, in the order the API server gave it, before it is sorted.
SortAndLimit_cutFirst(found) ==
    UNION {Sorted(cut) : cut \in {c \in SUBSET found :
        Cardinality(c) = Min({EventLimit, Cardinality(found)})}}

SortAndLimit(found) == {FirstOf(s) : s \in Sorted(found)}

\* Get answers with the pod; without one the command fails at once.
GetPod ==
    /\ phase = "idle" /\ phase' = "listing"
    /\ answer' = Nil /\ refused' = FALSE /\ steady' = {i \in Ids : events[i] # Nil}
    /\ UNCHANGED <<clock, events, logs>>

\* The field selector picks the kind and the name.
ListSelected ==
    /\ phase = "listing" /\ phase' = "described"
    /\ answer' \in SortAndLimit({e \in Recorded : e.about = "pod"})
    /\ UNCHANGED <<clock, events, refused, steady, logs>>

SelectorFails ==
    /\ phase = "listing" /\ phase' = "fallback" /\ refused' = TRUE
    /\ UNCHANGED <<clock, events, answer, steady, logs>>

\* Slip: the filter of the fallback looks at the name alone.
IsAboutPod_name(e) == e.about \in {"pod", "namesake"}

IsAboutPod(e) == e.about = "pod"

\* All events of the namespace, filtered here; none of them gives a nil slice.
ListAll ==
    /\ phase = "fallback" /\ phase' = "described"
    /\ LET found == {e \in Recorded : IsAboutPod(e)}
       IN  answer' \in IF found = {} THEN {Nil} ELSE SortAndLimit(found)
    /\ UNCHANGED <<clock, events, refused, steady, logs>>

\* Slip: an error is answered with an empty list.
ListAllFails_empty ==
    /\ phase = "fallback" /\ phase' = "described" /\ answer' = <<>>
    /\ UNCHANGED <<clock, events, refused, steady, logs>>

\* The error is not reported: the description goes without events.
ListAllFails ==
    /\ phase = "fallback" /\ phase' = "described" /\ answer' = Nil
    /\ UNCHANGED <<clock, events, refused, steady, logs>>

----------------------------------------------------------------------------
(* GetPodLogs *)

TailLines(requested) ==
    IF requested <= 0 THEN DefaultTailLines
    ELSE IF requested > MaxTailLines THEN MaxTailLines ELSE requested

\* An int64 sum.
Wrapped(n) == IF n > MaxInt THEN n - 2 * (MaxInt + 1) ELSE n

\* io.CopyN: at most n bytes, and none if n is negative.
Copied(n, size) == IF n < 0 THEN 0 ELSE IF size < n THEN size ELSE n

\* Slip: the byte that tells a full answer from a cut one is not read.
CopyLimit_exact == MaxLogBytes

CopyLimit == Wrapped(MaxLogBytes + 1)

\* The log has so many lines, of which the API server sends the last ones.  A
\* stream that breaks off is an error.
GetPodLogs(requested, available) ==
    LET lines == TailLines(requested)
        sent  == (IF available < lines THEN available ELSE lines) * LineBytes
        read  == Copied(CopyLimit, sent)
    IN  /\ phase = "idle" /\ phase' = "logged"
        /\ logs' = [lines |-> lines, sent |-> sent,
                    got |-> IF read > MaxLogBytes THEN MaxLogBytes ELSE read,
                    truncated |-> read > MaxLogBytes]
        /\ UNCHANGED <<clock, events, answer, refused, steady>>

\* The router has the description or the logs, and answers the command.
Answered ==
    /\ phase \in {"described", "logged"} /\ phase' = "idle"
    /\ answer' = Nil /\ refused' = FALSE /\ steady' = {} /\ logs' = Nil
    /\ UNCHANGED <<clock, events>>

----------------------------------------------------------------------------
(* The cluster *)

\* An event is recorded: of a new kind of occurrence ...
Record(i) ==
    /\ events[i] = Nil
    /\ \E t \in {clock, clock + 1} \cap (1..MaxClock), a \in Abouts, w, s \in BOOLEAN :
         /\ clock' = t
         /\ events' = [events EXCEPT ![i] =
              [id |-> i, about |-> a, warning |-> w, first |-> t, last |-> t, series |-> s]]
    /\ UNCHANGED <<describeVars, logs>>

\* ... or of one more of the same.
Recurs(i) ==
    /\ events[i] # Nil /\ clock < MaxClock /\ clock' = clock + 1
    /\ events' = [events EXCEPT ![i].last = clock']
    /\ steady' = steady \ {i}
    /\ UNCHANGED <<phase, answer, refused, logs>>

Expires(i) ==
    /\ events[i] # Nil /\ events' = [events EXCEPT ![i] = Nil]
    /\ steady' = steady \ {i}
    /\ UNCHANGED <<clock, phase, answer, refused, logs>>

ReadsNext ==
    \/ GetPod \/ ListSelected \/ SelectorFails \/ ListAll \/ ListAllFails \/ Answered
    \/ \E r \in Requests, n \in 0..(MaxTailLines + 1) : GetPodLogs(r, n)
    \/ \E i \in Ids : Record(i) \/ Recurs(i) \/ Expires(i)

ReadsSpec == ReadsInit /\ [][ReadsNext]_readVars

----------------------------------------------------------------------------
(* Properties *)

Given == phase = "described" /\ answer # Nil
Kept == ToSet(answer)

\* "fetchPodEvents lists events for a specific pod" (describe.go:131): on either
\* path every event of a description is about an object of the kind and name.
EventsOfThePod == Given => \A e \in Kept : e.about = "pod"

\* An event that was there from beginning to end is in the description, unless
\* the description is full of events no less telling: warnings, or of the same
\* group and seen no longer ago.  Only an event of a series, whose age the agent
\* takes from its first occurrence, may be left out for older ones
\* (describe.go:133-189).
TellingEventsKept ==
    Given => \A i \in steady :
        LET e == events[i]
        IN  e.about = "pod" /\ ~e.series /\ e \notin Kept =>
              /\ Len(answer) = EventLimit
              /\ \A f \in Kept : (e.warning => f.warning)
                                 /\ (e.warning = f.warning => f.last >= e.last)

\* A description that says there are no events is right: a call has looked and
\* found none.  A failed call leaves them out (describe.go:137-148).
NoEventsMeansNone ==
    phase = "described" =>
        /\ answer = <<>> => \A i \in steady : events[i].about # "pod"
        /\ answer = Nil => refused

\* An answer is within the configured limits, and one that is not marked as
\* truncated is all that was asked for (logs.go:24-34, limits.go:9-17).
LogsWithinLimits ==
    logs # Nil => /\ logs.lines \in 1..MaxTailLines /\ logs.got <= MaxLogBytes
                  /\ ~logs.truncated => logs.got = logs.sent

============================================================================
