CONSTANTS
    Ids = {c1, c2, c3}
    NoId = NoId
    Pong = Pong
    Slots = {s1, s2}
    MaxRemembered = 3
    ReplayTTL = 4
    CommandTimeout = 2
    HeartbeatPeriod = 1
    PongFloor = 2
    StableDuration = 2
    MinDelay = 2
    MaxDelay = 5
    MaxInFlight = 3
    MaxFailures = 3
SPECIFICATION Spec
SYMMETRY Interchangeable
INVARIANTS
    TypeOK
    NoOverlap
    ReaderStallBounded
    DroppedForStalls
    SilentGatewayLeft
    DelayFollowsFailures
PROPERTIES
    StartsSpaced
    KeepsCommandLife
