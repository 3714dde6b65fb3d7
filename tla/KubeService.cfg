CONSTANTS
    Callers = {c1, c2, c3}
    Nobody = Nobody
    TTL = 2
    Timeout = 2
    MaxTime = 6
    Sizes = {1, 2}
    Unset = Unset
    MaxSurge = 1
    MaxUnavailable = 1
    MaxGeneration = 3
    Ids = {e1, e2, e3}
    EventLimit = 1
    Nil = Nil
    MaxClock = 2
    DefaultTailLines = 1
    MaxTailLines = 2
    MaxLogBytes = 3
    MaxInt = 7
    Requests <- TailRequests
    LineBytes = 2
SPECIFICATION Spec
SYMMETRY Interchangeable
INVARIANTS
    TypeOK
    CompleteWithoutSurplus
    SettledIsComplete
    EventsOfThePod
    TellingEventsKept
    NoEventsMeansNone
    LogsWithinLimits
PROPERTIES
    KeepsListPromise
