CONSTANTS
    Ids = {c1, c2, c3}
    NoId = NoId
    Slots = {s1, s2}
    MaxRemembered = 2
    MaxUnread = 2
SPECIFICATION Spec
SYMMETRY Interchangeable
INVARIANTS
    TypeOK
    SessionIsolated
    OneWriter
    AtMostOnce
    LostLoopIsReported
    TeardownNeverStuck
PROPERTIES
    ImplementsContract
    TeardownAdvances
\* Run returns.
CHECK_DEADLOCK FALSE
