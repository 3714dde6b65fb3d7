CONSTANTS
    Ids = {c1}
    NoId = NoId
    Slots = {s1}
    MaxRemembered = 1
    MaxUnread = 2
SPECIFICATION FairSpec
PROPERTIES
    ShutdownCompletes
    BrokenSessionEnds
    HandlersFinish
    StuckOnlyBehindAWrite
\* Run returns.
CHECK_DEADLOCK FALSE
