CONSTANTS
    Ids = {c1, c2, c3}
    NoId = NoId
    Pong = Pong
    Slots = {s1}
    MaxRemembered = 3
    ReplayTTL = 20
    CommandTimeout = 2
    HeartbeatPeriod = 1
    PongFloor = 4
    StableDuration = 2
    MinDelay = 2
    MaxDelay = 2
    MaxInFlight = 3
    MaxFailures = 1
SPECIFICATION Spec
SYMMETRY Interchangeable
INVARIANT
    PromptGatewayKept
