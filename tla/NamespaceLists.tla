---------------------------- MODULE NamespaceLists ----------------------------
(***************************************************************************)
(* What kube.Service.ListNamespaces promises to the commands, without      *)
(* cache, lock or shared fetch: each is answered by its deadline, with an  *)
(* error or with a list that is not too old and not older than a list a    *)
(* command had been answered with when it asked.  NamespaceRefinement      *)
(* shows that NamespaceCache keeps the promise.                            *)
(***************************************************************************)
EXTENDS Naturals

CONSTANTS
    Callers,        \* commands that may run at once
    MaxAge,         \* how old an answer may be
    Timeout         \* the time a command has

VARIABLES
    now,
    status,         \* caller -> idle, asked or answered
    start,          \* caller -> when it asked
    floor,          \* caller -> the newest list anybody knew of at that time
    got,            \* caller -> its answer: when the list was taken, 0 for an error
    newest          \* the newest list anybody knows of

vars == <<now, status, start, floor, got, newest>>

Asked == {c \in Callers : status[c] = "asked"}

\* A list that may be shown to whoever may have heard of one as new as `known`.
Good(list, known) == list # 0 /\ known <= list /\ list <= now /\ now < list + MaxAge

Init ==
    /\ now = 1 /\ newest = 0
    /\ status = [c \in Callers |-> "idle"]
    /\ start = [c \in Callers |-> 0] /\ floor = [c \in Callers |-> 0]
    /\ got = [c \in Callers |-> 0]

\* A command asks, and is answered at once if there is a good list.
Ask(c) ==
    /\ status[c] = "idle"
    /\ start' = [start EXCEPT ![c] = now] /\ floor' = [floor EXCEPT ![c] = newest]
    /\ \/ status' = [status EXCEPT ![c] = "asked"] /\ UNCHANGED got
       \/ \E list \in 0..now :
            /\ Good(list, newest)
            /\ status' = [status EXCEPT ![c] = "answered"]
            /\ got' = [got EXCEPT ![c] = list]
    /\ UNCHANGED <<now, newest>>

\* Commands that asked are answered together, with one error or one good list.
Answer ==
    \E group \in SUBSET Asked, answer \in 0..now :
        /\ answer # 0 => \A c \in group : Good(answer, floor[c])
        /\ status' = [c \in Callers |-> IF c \in group THEN "answered" ELSE status[c]]
        /\ got' = [c \in Callers |-> IF c \in group THEN answer ELSE got[c]]
        /\ UNCHANGED <<now, start, floor, newest>>

\* A command passes its answer on.
Leave(c) ==
    /\ status[c] = "answered" /\ status' = [status EXCEPT ![c] = "idle"]
    /\ newest' = IF got[c] > newest THEN got[c] ELSE newest
    /\ UNCHANGED <<now, start, floor, got>>

\* Time passes while no command is past its deadline or in possession of an answer.
Tick ==
    /\ \A c \in Callers : status[c] # "answered"
    /\ \A c \in Asked : now < start[c] + Timeout
    /\ now' = now + 1
    /\ UNCHANGED <<status, start, floor, got, newest>>

Next == (\E c \in Callers : Ask(c) \/ Leave(c)) \/ Answer \/ Tick

Spec == Init /\ [][Next]_vars

============================================================================
